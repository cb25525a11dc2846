----------------------- MODULE TransactionRetryQueue -----------------------
(***************************************************************************)
(* The retry queue of one domain (comp/forwarder/defaultforwarder/         *)
(* internal/retry): transactions in memory, flushed to files when memory   *)
(* is full, read back newest file first, reloaded after a restart.         *)
(*                                                                         *)
(* Every operation holds TransactionRetryQueue.mutex, so operations do not *)
(* interleave; `pc` splits them at the calls of the file system, where one *)
(* of them may fail and where the process may be killed.  extractTrans-    *)
(* actionsFromMemory sorts before it reads the order of the slice, so the  *)
(* memory is a set.  A failed write leaves no file behind (the code        *)
(* removes it and the model has no second fault there).                    *)
(***************************************************************************)
EXTENDS Integers, Sequences, SequencesExt, FiniteSetsExt

CONSTANTS
    Txs,              \* transactions
    Size,             \* Size[t]: payload size in bytes
    Priority,         \* Priority[t]
    CreatedAt,        \* CreatedAt[t]: creation time
    Storable,         \* the transactions with StorableOnDisk
    MaxMem,           \* maxMemSizeInBytes
    FlushSize,        \* int(maxMemSizeInBytes * flushToStorageRatio)
    MaxDisk,          \* DiskUsageLimit.maxSizeInBytes
    FileOverhead,     \* bytes of a serialized file beside its payloads
    FreeSpace,        \* what the disk can have left below maxDiskRatio: it is
                      \* negative when other programs use more than that
    StorageOutcomes,  \* what BuildTransactionRetryQueue can end up with
    MaxFiles          \* bound of the model on the files in the folder

ASSUME QueueAssumption ==
    /\ Size \in [Txs -> Nat]
    /\ Priority \in [Txs -> Nat]
    /\ CreatedAt \in [Txs -> Nat]
    /\ Storable \subseteq Txs
    /\ MaxMem \in Nat /\ FlushSize \in Nat /\ MaxDisk \in Nat
    /\ FileOverhead \in Nat /\ MaxFiles \in Nat
    /\ FreeSpace \subseteq Int
    /\ StorageOutcomes \subseteq {"none", "broken", "ready"}

VARIABLES
    mem,      \* transactions
    memSize,  \* currentMemSizeInBytes
    dir,      \* the files of the domain folder, oldest first; `listed` says
              \* whether onDiskRetryQueue.filenames has the file
    diskSize, \* currentSizeInBytes
    storage,  \* optionalStorage: no storage, a nil *onDiskRetryQueue in a
              \* non-nil interface ("broken"), or a working one
    pc,       \* where the operation that holds the mutex is; "down": no process
    adding,   \* the transaction of a running Add (a set of at most one)
    batch,    \* the transactions of a running Store
    room,     \* maxStorageInBytes computed by a running makeRoomFor
    held,     \* transactions in the hands of the callers
    dropped,  \* transactions reported with OnPointDropped
    failed    \* history: what went wrong so far

queueVars == <<mem, memSize, dir, diskSize, storage>>
callVars == <<pc, adding, batch, room>>
vars == <<queueVars, callVars, held, dropped, failed>>

File == [txs : SUBSET Txs,     \* what Deserialize returns
         size : Nat,
         whole : BOOLEAN,      \* FALSE: a crash cut the write short
         listed : BOOLEAN]

-----------------------------------------------------------------------------
(* Helpers *)

SizeOf(S) == MapThenSumSet(LAMBDA t : Size[t], S)

FileSize(S) == FileOverhead + SizeOf(S \cap Storable)

\* byCreatedTimeAndPriority.Less: t is placed before u.
Less(t, u) ==
    \/ Priority[t] > Priority[u]
    \/ Priority[t] = Priority[u] /\ CreatedAt[t] > CreatedAt[u]

\* extractTransactionsFromMemory(n) on the memory S: what it can extract.
\* Transactions leave from the end of the sorted slice until n bytes are out:
\* the last one to leave is in front of the others and was still needed.
\* (The sort is not stable, so ties leave a choice.)
ExtractFromMemory(S, n) ==
    {E \in SUBSET S :
        /\ \A t \in E, u \in S \ E : ~Less(t, u)
        /\ SizeOf(E) >= n \/ E = S
        /\ E # {} => \E t \in E : /\ \A u \in E : ~Less(u, t)
                                  /\ SizeOf(E \ {t}) < n}

Listed == {i \in DOMAIN dir : dir[i].listed}

DiskUsed(is) == MapThenSumSet(LAMBDA i : dir[i].size, is)

OnDisk == UNION {dir[i].txs : i \in DOMAIN dir}

\* removeFileAt: the file is forgotten first, so that an error of GetFileSize
\* or os.Remove leaves it in the folder and in currentSizeInBytes.
RemoveFileAt(i) ==
    /\ dir' = RemoveAt(dir, i)
    /\ diskSize' = diskSize - dir[i].size

RemoveFileAtFails(i) ==
    /\ dir' = [dir EXCEPT ![i].listed = FALSE]
    /\ diskSize' = diskSize

-----------------------------------------------------------------------------

Init ==
    /\ mem = {} /\ memSize = 0
    /\ dir = <<>> /\ diskSize = 0
    /\ storage = "none"
    /\ pc = "down" /\ adding = {} /\ batch = {} /\ room = 0
    /\ held = Txs /\ dropped = {} /\ failed = {}

\* RemoveOutdatedFiles: a file whose age is over the limit goes, unless its
\* time cannot be read or os.Remove fails.  Any of the files may survive; a
\* survivor f names them in their order.
RemoveOutdatedFiles ==
    UNION {{f \in [1 .. m -> DOMAIN dir] :
               \A i, j \in 1 .. m : i < j => f[i] < f[j]} : m \in 0 .. Len(dir)}

\* reloadExistingRetryFiles lists and counts what is in the folder.
ReloadExistingRetryFiles(f) ==
    /\ dir' = [i \in DOMAIN f |-> [dir[f[i]] EXCEPT !.listed = TRUE]]
    /\ diskSize' = MapThenSumSet(LAMBDA i : dir[f[i]].size, DOMAIN f)

\* NewDefaultForwarder removes the outdated files, then
\* BuildTransactionRetryQueue creates the queue.
Build ==
    /\ pc = "down"
    /\ pc' = "idle"
    /\ storage' \in StorageOutcomes
    /\ \E f \in RemoveOutdatedFiles :
          /\ ReloadExistingRetryFiles(f)
          /\ failed' = IF DOMAIN f = DOMAIN dir THEN failed
                                                ELSE failed \cup {"outdated"}
    /\ UNCHANGED <<mem, memSize, adding, batch, room, held, dropped>>

\* Add takes the mutex.
Add(t) ==
    /\ pc = "idle"
    /\ t \in held
    /\ held' = held \ {t}
    /\ adding' = {t}
    /\ pc' = IF storage = "none" THEN "drop" ELSE "flush"
    /\ UNCHANGED <<queueVars, batch, room, dropped, failed>>

\* The loop of extractTransactionsForDisk.  The code extracts every group
\* before it stores the first; a group does not depend on the fate of the
\* ones before it, so it is stored at once here.
MemFull == memSize + SizeOf(adding) > MaxMem /\ mem # {}

FlushGroup ==
    /\ pc = "flush"
    /\ MemFull
    /\ \E E \in ExtractFromMemory(mem, FlushSize) \ {{}} :
          /\ mem' = mem \ E
          /\ memSize' = memSize - SizeOf(E)
          /\ batch' = E
    /\ pc' = "store"
    /\ UNCHANGED <<dir, diskSize, storage, adding, room, held, dropped, failed>>

FlushDone ==
    /\ pc = "flush"
    /\ ~MemFull \/ {} \in ExtractFromMemory(mem, FlushSize)
    /\ pc' = "drop"
    /\ UNCHANGED <<queueVars, adding, batch, room, held, dropped, failed>>

\* Mutant of DropAndAppend: the new transaction is not counted against the
\* limit.
DropAndAppendLate ==
    /\ pc = "drop"
    /\ \E E \in ExtractFromMemory(mem, memSize - MaxMem) :
          /\ mem' = (mem \ E) \cup adding
          /\ memSize' = memSize - SizeOf(E) + SizeOf(adding)
          /\ dropped' = dropped \cup E
    /\ adding' = {}
    /\ pc' = "idle"
    /\ UNCHANGED <<dir, diskSize, storage, batch, room, held, failed>>

\* Mutant of DropAndAppend: what the limit removes is not reported.
DropAndAppendUnreported ==
    /\ pc = "drop"
    /\ \E E \in ExtractFromMemory(mem, memSize + SizeOf(adding) - MaxMem) :
          /\ mem' = (mem \ E) \cup adding
          /\ memSize' = memSize - SizeOf(E) + SizeOf(adding)
    /\ adding' = {}
    /\ pc' = "idle"
    /\ UNCHANGED <<dir, diskSize, storage, batch, room, held, dropped, failed>>

\* Mutant of DropAndAppend: the sign of the new payload is wrong.
DropAndAppendNegative ==
    /\ pc = "drop"
    /\ \E E \in ExtractFromMemory(mem, memSize + SizeOf(adding) - MaxMem) :
          /\ mem' = (mem \ E) \cup adding
          /\ memSize' = memSize - SizeOf(E) - SizeOf(adding)
          /\ dropped' = dropped \cup E
    /\ adding' = {}
    /\ pc' = "idle"
    /\ UNCHANGED <<dir, diskSize, storage, batch, room, held, failed>>

\* The rest of Add: drop what does not fit, then append.
DropAndAppend ==
    /\ pc = "drop"
    /\ \E E \in ExtractFromMemory(mem, memSize + SizeOf(adding) - MaxMem) :
          /\ mem' = (mem \ E) \cup adding
          /\ memSize' = memSize - SizeOf(E) + SizeOf(adding)
          /\ dropped' = dropped \cup E
    /\ adding' = {}
    /\ pc' = "idle"
    /\ UNCHANGED <<dir, diskSize, storage, batch, room, held, failed>>

\* Mutant of FlushToDisk: only the share of a normal flush is written.
FlushToDiskShare ==
    /\ pc = "idle"
    /\ storage # "none"
    /\ \E E \in ExtractFromMemory(mem, FlushSize) :
          /\ mem' = mem \ E
          /\ memSize' = memSize - SizeOf(E)
          /\ batch' = E
    /\ pc' = "store"
    /\ UNCHANGED <<dir, diskSize, storage, adding, room, held, dropped, failed>>

\* FlushToDisk, called when the domain forwarder stops.
FlushToDisk ==
    /\ pc = "idle"
    /\ storage # "none"
    /\ \E E \in ExtractFromMemory(mem, MaxMem) :
          /\ mem' = mem \ E
          /\ memSize' = memSize - SizeOf(E)
          /\ batch' = E
    /\ pc' = "store"
    /\ UNCHANGED <<dir, diskSize, storage, adding, room, held, dropped, failed>>

-----------------------------------------------------------------------------
(* onDiskRetryQueue.Store(batch), called by Add and by FlushToDisk. *)

\* Store returns: to the loop of Add, or to the caller of FlushToDisk.
StoreReturns ==
    /\ batch' = {}
    /\ room' = 0
    /\ pc' = IF adding = {} THEN "idle" ELSE "flush"

\* Store returns an error.  Add reports every transaction of the batch as
\* dropped; FlushToDisk only hands the error to Stop, which logs it.
StoreFails(cause) ==
    /\ StoreReturns
    /\ dropped' = IF adding = {} THEN dropped ELSE dropped \cup batch
    /\ failed' = failed \cup (IF adding = {} THEN {cause, "shutdown"} ELSE {cause})

\* The batch is larger than the storage may ever be.
TooBig ==
    /\ pc = "store" /\ storage = "ready"
    /\ FileSize(batch) > MaxDisk
    /\ StoreFails("limit")
    /\ UNCHANGED <<queueVars, adding, held>>

\* SerializeTo, Marshal or GetUsage fails.
StoreError ==
    /\ pc = "store" /\ storage = "ready"
    /\ StoreFails("io")
    /\ UNCHANGED <<queueVars, adding, held>>

\* Mutant of ComputeAvailableSpace: the configured maximum is forgotten.
ComputeAvailableSpaceUncapped ==
    /\ pc = "store" /\ storage = "ready"
    /\ FileSize(batch) <= MaxDisk
    /\ \E free \in FreeSpace : room' = diskSize + free
    /\ pc' = "room"
    /\ UNCHANGED <<queueVars, adding, batch, held, dropped, failed>>

\* makeRoomFor asks how much the queue may use in all.
ComputeAvailableSpace ==
    /\ pc = "store" /\ storage = "ready"
    /\ FileSize(batch) <= MaxDisk
    /\ \E free \in FreeSpace :
          room' = IF diskSize + free < MaxDisk THEN diskSize + free ELSE MaxDisk
    /\ pc' = "room"
    /\ UNCHANGED <<queueVars, adding, batch, held, dropped, failed>>

MustMakeRoom == Listed # {} /\ diskSize + FileSize(batch) > room

\* One turn of the loop of makeRoomFor: the oldest file goes, reported as
\* dropped when it can be read.
RemoveOldest ==
    /\ pc = "room"
    /\ MustMakeRoom
    /\ LET i == Min(Listed)
       IN \/ /\ RemoveFileAt(i)
             /\ \/ /\ dropped' = dropped \cup dir[i].txs
                   /\ failed' = failed
                \/ /\ dropped' = dropped
                   /\ failed' = failed \cup {"io"}
             /\ UNCHANGED <<pc, batch, room>>
          \/ /\ RemoveFileAtFails(i)
             /\ StoreReturns
             /\ dropped' = dropped \cup dir[i].txs
                              \cup (IF adding = {} THEN {} ELSE batch)
             /\ failed' = failed \cup (IF adding = {} THEN {"io", "shutdown"}
                                                   ELSE {"io"})
    /\ UNCHANGED <<mem, memSize, storage, adding, held>>

\* Mutant of WriteFile: the bytes of the new file are not counted.
WriteFileUncounted ==
    /\ pc = "room"
    /\ ~MustMakeRoom
    /\ Len(dir) < MaxFiles
    /\ dir' = Append(dir, [txs |-> batch \cap Storable, size |-> FileSize(batch),
                           whole |-> TRUE, listed |-> TRUE])
    /\ StoreReturns
    /\ UNCHANGED <<mem, memSize, diskSize, storage, adding, held, dropped, failed>>

\* The file is written and closed.  What is not Storable was skipped by
\* SerializeTo and is gone without a report.
WriteFile ==
    /\ pc = "room"
    /\ ~MustMakeRoom
    /\ Len(dir) < MaxFiles
    /\ dir' = Append(dir, [txs |-> batch \cap Storable, size |-> FileSize(batch),
                           whole |-> TRUE, listed |-> TRUE])
    /\ diskSize' = diskSize + FileSize(batch)
    /\ StoreReturns
    /\ UNCHANGED <<mem, memSize, storage, adding, held, dropped, failed>>

WriteFails ==
    /\ pc = "room"
    /\ ~MustMakeRoom
    /\ StoreFails("io")
    /\ UNCHANGED <<queueVars, adding, held>>

-----------------------------------------------------------------------------
(* ExtractTransactions *)

ExtractFromMem ==
    /\ pc = "idle"
    /\ mem # {}
    /\ held' = held \cup mem
    /\ mem' = {}
    /\ memSize' = 0
    /\ UNCHANGED <<dir, diskSize, storage, callVars, dropped, failed>>

\* Mutant of ExtractLast: an error of removeFileAt does not stop it.
ExtractLastAnyway ==
    /\ pc = "idle"
    /\ mem = {} /\ storage = "ready" /\ Listed # {}
    /\ LET i == Max(Listed)
       IN /\ RemoveFileAt(i) \/ RemoveFileAtFails(i)
          /\ \/ dir[i].whole /\ held' = held \cup dir[i].txs
             \/ held' = held
          /\ failed' = failed \cup {"io"}
    /\ memSize' = 0
    /\ UNCHANGED <<mem, storage, callVars, dropped>>

\* ExtractLast: the newest file is read and removed.  Transactions that cannot
\* be deserialized (an unknown priority, fewer API keys than when they were
\* written) are left out and only counted as errors; when the read or the
\* deserialization of the file fails all of it is gone; when the removal fails
\* nothing is returned and the file stays in the folder.
ExtractLast ==
    /\ pc = "idle"
    /\ mem = {} /\ storage = "ready" /\ Listed # {}
    /\ LET i == Max(Listed)
       IN \/ /\ RemoveFileAt(i)
             /\ dir[i].whole
             /\ \E S \in SUBSET dir[i].txs :
                  /\ held' = held \cup S
                  /\ failed' = failed \cup (IF S = dir[i].txs THEN {} ELSE {"io"})
             /\ memSize' = 0
          \/ /\ RemoveFileAt(i) \/ RemoveFileAtFails(i)
             /\ failed' = failed \cup {"io"}
             /\ UNCHANGED <<held, memSize>>
    /\ UNCHANGED <<mem, storage, callVars, dropped>>

-----------------------------------------------------------------------------
(* The process ends. *)

\* Nothing but the files survives.
Ends(cause) ==
    /\ pc' = "down"
    /\ failed' = failed \cup cause
    /\ mem' = {} /\ memSize' = 0
    /\ adding' = {} /\ batch' = {} /\ room' = 0
    /\ diskSize' = 0 /\ storage' = "none"
    /\ UNCHANGED <<held, dropped>>

\* A crash or a kill; one that hits file.Write leaves a file that is cut short.
Crash ==
    /\ pc # "down"
    /\ Ends(IF mem \cup adding \cup batch = {} THEN {} ELSE {"crash"})
    /\ \/ dir' = dir
       \/ /\ pc = "room" /\ ~MustMakeRoom /\ Len(dir) < MaxFiles
          /\ \E n \in 0 .. FileSize(batch) :
                dir' = Append(dir, [txs |-> {}, size |-> n,
                                    whole |-> FALSE, listed |-> FALSE])

\* A method of *onDiskRetryQueue runs on the nil pointer.
Panic ==
    /\ storage = "broken"
    /\ \/ pc = "store"
       \/ pc = "idle" /\ mem = {}
    /\ Ends({"panic"})
    /\ dir' = dir

Next ==
    \/ Build
    \/ \E t \in Txs : Add(t)
    \/ FlushGroup \/ FlushDone \/ DropAndAppend \/ FlushToDisk
    \/ TooBig \/ StoreError \/ ComputeAvailableSpace \/ RemoveOldest
    \/ WriteFile \/ WriteFails
    \/ ExtractFromMem \/ ExtractLast
    \/ Crash \/ Panic

Spec == Init /\ [][Next]_vars

-----------------------------------------------------------------------------
(* Properties *)

TypeOK ==
    /\ mem \subseteq Txs /\ memSize \in Nat
    /\ dir \in Seq(File) /\ diskSize \in Nat
    /\ storage \in {"none", "broken", "ready"}
    /\ pc \in {"down", "idle", "flush", "store", "room", "drop"}
    /\ adding \subseteq Txs /\ batch \subseteq Txs /\ room \in Int
    /\ held \subseteq Txs /\ dropped \subseteq Txs
    /\ failed \subseteq {"io", "limit", "crash", "panic", "shutdown", "outdated"}

\* The counter that all limits are computed from is the size of what is in
\* memory, and the memory holds more than its limit only when a single
\* transaction is larger than the limit (Add, extractTransactionsFromMemory).
MemAccounting ==
    /\ memSize = SizeOf(mem)
    /\ memSize <= MaxMem \/ Cardinality(mem) = 1

\* currentSizeInBytes never undercounts the files the queue will read again,
\* and never counts more than what is in the folder, whichever removal failed.
DiskAccounting ==
    storage = "ready" =>
        /\ DiskUsed(Listed) <= diskSize
        /\ diskSize <= DiskUsed(DOMAIN dir)

\* A file is written only when, with it, the listed files respect
\* forwarder_storage_max_size_in_bytes.
DiskLimit ==
    [][pc = "room" /\ Len(dir') > Len(dir) /\ pc' # "down"
          => DiskUsed(Listed)' <= MaxDisk]_vars

\* As long as nothing fails, every storable transaction is in the queue, in
\* the hands of a caller, or reported as dropped.
Missing == Txs \ (mem \cup held \cup adding \cup batch \cup OnDisk \cup dropped)

DropsReported == failed \subseteq {"limit"} => Missing \cap Storable = {}

\* FlushToDisk leaves nothing in memory, although it asks for maxMemSizeInBytes
\* bytes only and stops when it has them.
FlushTakesAll ==
    [][pc = "idle" /\ pc' = "store" => mem' = {}]_vars

\* The store that the domain forwarder relies on.
Abstract == INSTANCE RetryStore
                WITH stored <- mem \cup adding \cup batch \cup OnDisk

ImplementsStore == Abstract!Spec

=============================================================================
