----------------------------- MODULE TfsClientFd -----------------------------
(***************************************************************************)
(* The descriptor table of the TFS client library (TfsClientImpl in        *)
(* new_client/tfs_client_impl.cpp), used by several application threads   *)
(* at once: TfsClientImpl is a process-wide singleton.                     *)
(*                                                                         *)
(* tfs_file_map_ maps a descriptor to a heap TfsFile and is guarded by     *)
(* mutex_; each TfsFile has its own rw_lock_.  open() takes a descriptor   *)
(* (get_fd), creates and opens a TfsFile with the mutex released, then     *)
(* inserts it (insert_file).  Every other call looks the descriptor up     *)
(* (get_file, which returns the raw pointer and releases the mutex), then  *)
(* locks the TfsFile and works on it; close() finally erases the entry     *)
(* and deletes the TfsFile (erase_file).                                   *)
(*                                                                         *)
(* A TfsFile is a number 1..MaxFiles in creation order.  The calls that    *)
(* differ only in what they do to the file under its lock are one call per *)
(* lock mode: "read" (read, readv2, write, lseek, pwrite, fstat: write     *)
(* lock), "pread" (pread, get_file_length: read lock), "close", and       *)
(* "setopt" (set_option_flag, which takes no lock).                        *)
(***************************************************************************)
EXTENDS Integers, FiniteSets, Functions, TLC

CONSTANTS
    Threads,            \* application threads (model values)
    MAX_FILE_FD,        \* largest descriptor get_fd hands out
    MAX_OPEN_FD_COUNT,  \* limit on the size of tfs_file_map_
    MaxFiles,           \* bound on TfsFile objects created (open calls)
    Shared,             \* do threads use descriptors other threads opened?
    NoThread            \* no thread holds the write lock

ASSUME Shared \in BOOLEAN /\ MaxFiles \in Nat /\ NoThread \notin Threads

VARIABLES
    fd_,        \* TfsClientImpl::fd_
    fileMap,    \* tfs_file_map_: descriptor -> TfsFile
    created,    \* TfsFile objects created so far
    deleted,    \* TfsFile objects deleted (gDelete)
    lockW,      \* rw_lock_ of each TfsFile: the writer, or NoThread
    lockR,      \* rw_lock_ of each TfsFile: the readers
    pc,         \* where each thread is in its current call
    op,         \* the call a thread is in
    tfd,        \* the descriptor it works on
    tfile,      \* the TfsFile pointer it holds (0 = NULL)
    mine,       \* the descriptors each thread opened and has not closed
    uaf,        \* some thread dereferenced a deleted TfsFile
    is_init_    \* TfsClientImpl::is_init_

vars == <<fd_, fileMap, created, deleted, lockW, lockR, pc, op, tfd, tfile, mine, uaf, is_init_>>

Alloc == INSTANCE TfsFdAlloc WITH used <- DOMAIN fileMap

Files == 1 .. MaxFiles
Ops == {"read", "pread", "close", "setopt"}

ClientTypeOK ==
    /\ fd_ \in 0 .. MAX_FILE_FD
    /\ DOMAIN fileMap \subseteq Alloc!Fds /\ Range(fileMap) \subseteq Files
    /\ created \in 0 .. MaxFiles /\ deleted \subseteq Files
    /\ lockW \in [Files -> Threads \cup {NoThread}]
    /\ lockR \in [Files -> SUBSET Threads]
    /\ pc \in [Threads -> {"idle", "open", "insert", "lock", "locked", "erase"}]
    /\ op \in [Threads -> Ops \cup {"open"}]
    /\ tfd \in [Threads -> 0 .. MAX_FILE_FD]
    /\ tfile \in [Threads -> 0 .. MaxFiles]
    /\ mine \in [Threads -> SUBSET Alloc!Fds]
    /\ uaf \in BOOLEAN /\ is_init_ \in BOOLEAN

\* TfsClientImpl(): is_init_(false), fd_(0), empty map; no thread in a call
Init ==
    /\ fd_ = 0 /\ fileMap = << >> /\ created = 0 /\ deleted = {}
    /\ lockW = [f \in Files |-> NoThread] /\ lockR = [f \in Files |-> {}]
    /\ pc = [t \in Threads |-> "idle"] /\ op = [t \in Threads |-> "open"]
    /\ tfd = [t \in Threads |-> 0] /\ tfile = [t \in Threads |-> 0]
    /\ mine = [t \in Threads |-> {}] /\ uaf = FALSE /\ is_init_ = FALSE

Set(f, t, v) == [f EXCEPT ![t] = v]

-----------------------------------------------------------------------------
(* initialize()                                                            *)

\* initialize under mutex_: a no-op when already initialized; when the
\* client manager, the default session or the background task fails it
\* returns the error and changes nothing; otherwise is_init_ = true
Initialize(t) ==
    /\ pc[t] = "idle" /\ ~is_init_
    /\ is_init_' = TRUE
    /\ UNCHANGED <<fd_, fileMap, created, deleted, lockW, lockR, pc, op, tfd, tfile, mine, uaf>>

-----------------------------------------------------------------------------
(* open()                                                                  *)

\* check_init: open() and the whole-file calls fail at once on a client not
\* yet initialized; is_init_ is read without mutex_
CheckInit == is_init_

\* the open() calls that have a descriptor and will create a TfsFile
Opening == {u \in Threads : pc[u] = "open"}

\* fault variant of GetFdStep: open() goes on with the error code of get_fd
GetFdStepNoErrorCheck(t) ==
    LET r == Alloc!GetFd(fd_, DOMAIN fileMap)
    IN /\ pc[t] = "idle" /\ CheckInit /\ created + Cardinality(Opening) < MaxFiles
       /\ fd_' = r.cur
       /\ pc' = Set(pc, t, "open") /\ tfd' = Set(tfd, t, r.fd)
       /\ op' = Set(op, t, "open")
       /\ UNCHANGED <<fileMap, created, deleted, lockW, lockR, tfile, mine, uaf, is_init_>>

\* open() past check_init (it fails before get_fd on a client not yet
\* initialized): get_fd under mutex_; open() returns EXIT_INVALIDFD_ERROR
\* when it fails
GetFdStep(t) ==
    LET r == Alloc!GetFd(fd_, DOMAIN fileMap)
    IN /\ pc[t] = "idle" /\ CheckInit /\ created + Cardinality(Opening) < MaxFiles
       /\ fd_' = r.cur
       /\ IF r.fd > 0
          THEN pc' = Set(pc, t, "open") /\ tfd' = Set(tfd, t, r.fd)
          ELSE UNCHANGED <<pc, tfd>>
       /\ op' = Set(op, t, "open")
       /\ UNCHANGED <<fileMap, created, deleted, lockW, lockR, tfile, mine, uaf, is_init_>>

\* fault variant of OpenFile: a failed TfsFile::open is deleted but the
\* call goes on to insert it
OpenFileInsertsFailed(t) ==
    LET f == created + 1
    IN /\ pc[t] = "open"
       /\ created' = f
       /\ \/ /\ deleted' = deleted \cup {f}
          \/ UNCHANGED deleted
       /\ pc' = Set(pc, t, "insert") /\ tfile' = Set(tfile, t, f)
       /\ UNCHANGED <<fd_, fileMap, lockW, lockR, op, tfd, mine, uaf, is_init_>>

\* new TfsSmallFile / TfsLargeFile and its open(), which may fail; on
\* failure the object is deleted and open() returns the error
OpenFile(t) ==
    LET f == created + 1
    IN /\ pc[t] = "open"
       /\ created' = f
       /\ \/ /\ deleted' = deleted \cup {f}
             /\ pc' = Set(pc, t, "idle")
             /\ UNCHANGED tfile
          \/ /\ pc' = Set(pc, t, "insert") /\ tfile' = Set(tfile, t, f)
             /\ UNCHANGED deleted
       /\ UNCHANGED <<fd_, fileMap, lockW, lockR, op, tfd, mine, uaf, is_init_>>

\* fault variant of InsertFile: the TfsFile of a refused insert is not
\* deleted
InsertFileLeak(t) ==
    /\ pc[t] = "insert"
    /\ IF tfd[t] \notin DOMAIN fileMap
       THEN /\ fileMap' = fileMap @@ (tfd[t] :> tfile[t])
            /\ mine' = Set(mine, t, mine[t] \cup {tfd[t]})
       ELSE UNCHANGED <<fileMap, mine>>
    /\ pc' = Set(pc, t, "idle") /\ tfile' = Set(tfile, t, 0)
    /\ UNCHANGED <<fd_, created, deleted, lockW, lockR, op, tfd, uaf, is_init_>>

\* insert_file under mutex_: std::map::insert refuses a taken descriptor,
\* and open() then deletes its TfsFile and fails
InsertFile(t) ==
    /\ pc[t] = "insert"
    /\ IF tfd[t] \notin DOMAIN fileMap
       THEN /\ fileMap' = fileMap @@ (tfd[t] :> tfile[t])
            /\ mine' = Set(mine, t, mine[t] \cup {tfd[t]})
            /\ UNCHANGED deleted
       ELSE /\ deleted' = deleted \cup {tfile[t]}
            /\ UNCHANGED <<fileMap, mine>>
    /\ pc' = Set(pc, t, "idle") /\ tfile' = Set(tfile, t, 0)
    /\ UNCHANGED <<fd_, created, lockW, lockR, op, tfd, uaf, is_init_>>

-----------------------------------------------------------------------------
(* read / pread / close on a descriptor                                    *)

\* the descriptors a thread passes: its own, or any open one
Usable(t) == IF Shared THEN DOMAIN fileMap ELSE mine[t] \cap DOMAIN fileMap

\* get_file under mutex_: the raw pointer outlives the lock.  (A
\* descriptor not in the map returns EXIT_INVALIDFD_ERROR and changes
\* nothing.)
GetFile(t) ==
    /\ pc[t] = "idle"
    /\ \E fd \in Usable(t), o \in Ops :
        /\ op' = Set(op, t, o) /\ tfd' = Set(tfd, t, fd)
        /\ tfile' = Set(tfile, t, fileMap[fd])
    /\ pc' = Set(pc, t, "lock")
    /\ UNCHANGED <<fd_, fileMap, created, deleted, lockW, lockR, mine, uaf, is_init_>>

\* ScopedRWLock on tfs_file->rw_lock_ (READ_LOCKER for pread); on a
\* deleted TfsFile the behaviour is undefined and the call ends there
LockFile(t) ==
    LET f == tfile[t]
    IN /\ pc[t] = "lock" /\ op[t] # "setopt"
       /\ \/ /\ f \in deleted
             /\ uaf' = TRUE /\ pc' = Set(pc, t, "idle")
             /\ UNCHANGED <<lockW, lockR>>
          \/ /\ f \notin deleted /\ op[t] = "pread" /\ lockW[f] = NoThread
             /\ lockR' = Set(lockR, f, lockR[f] \cup {t})
             /\ pc' = Set(pc, t, "locked") /\ UNCHANGED <<lockW, uaf>>
          \/ /\ f \notin deleted /\ op[t] # "pread"
             /\ lockW[f] = NoThread /\ lockR[f] = {}
             /\ lockW' = Set(lockW, f, t)
             /\ pc' = Set(pc, t, "locked") /\ UNCHANGED <<lockR, uaf>>
       /\ UNCHANGED <<fd_, fileMap, created, deleted, op, tfd, tfile, mine, is_init_>>

\* set_option_flag: tfs_file->set_option_flag without taking rw_lock_,
\* on whatever the pointer from get_file points to now
SetOptionFlag(t) ==
    /\ pc[t] = "lock" /\ op[t] = "setopt"
    /\ uaf' = (uaf \/ tfile[t] \in deleted)
    /\ pc' = Set(pc, t, "idle")
    /\ UNCHANGED <<fd_, fileMap, created, deleted, lockW, lockR, op, tfd, tfile, mine, is_init_>>

\* the TfsFile call and the end of the lock's scope; close() goes on to
\* erase_file
UnlockFile(t) ==
    LET f == tfile[t]
    IN /\ pc[t] = "locked"
       /\ uaf' = (uaf \/ f \in deleted)
       /\ lockW' = IF lockW[f] = t THEN Set(lockW, f, NoThread) ELSE lockW
       /\ lockR' = Set(lockR, f, lockR[f] \ {t})
       /\ pc' = Set(pc, t, IF op[t] = "close" THEN "erase" ELSE "idle")
       /\ UNCHANGED <<fd_, fileMap, created, deleted, op, tfd, tfile, mine, is_init_>>

\* erase_file(fd) under mutex_: deletes whatever TfsFile the descriptor
\* maps to now
EraseFile(t) ==
    /\ pc[t] = "erase"
    /\ IF tfd[t] \in DOMAIN fileMap
       THEN /\ deleted' = deleted \cup {fileMap[tfd[t]]}
            /\ fileMap' = Restrict(fileMap, DOMAIN fileMap \ {tfd[t]})
       ELSE UNCHANGED <<deleted, fileMap>>
    /\ mine' = Set(mine, t, mine[t] \ {tfd[t]})
    /\ pc' = Set(pc, t, "idle")
    /\ UNCHANGED <<fd_, created, lockW, lockR, op, tfd, tfile, uaf, is_init_>>

Next ==
    \E t \in Threads :
        \/ Initialize(t) \/ GetFdStep(t) \/ OpenFile(t) \/ InsertFile(t)
        \/ GetFile(t) \/ LockFile(t) \/ SetOptionFlag(t) \/ UnlockFile(t)
        \/ EraseFile(t)

Spec == Init /\ [][Next]_vars

-----------------------------------------------------------------------------
(* Properties                                                              *)

\* No call dereferences a TfsFile that close() has deleted: get_file hands
\* out the raw pointer, and erase_file deletes it after the rw_lock_ of
\* the closing call is released.
NoUseAfterFree == ~uaf

\* Every TfsFile ever created is in exactly one place: the map (under one
\* descriptor only), an open() between creating and inserting it, or
\* deleted.  open() deletes the object when TfsFile::open or insert_file
\* fails, and close() deletes exactly what it erases from the map.
Pending == {tfile[t] : t \in {u \in Threads : pc[u] = "insert"}}

FileOwnership ==
    /\ IsInjective(fileMap)
    /\ Range(fileMap) \cap Pending = {} /\ Range(fileMap) \cap deleted = {}
    /\ Pending \cap deleted = {}
    /\ \A t, u \in Threads : t # u /\ pc[t] = "insert" /\ pc[u] = "insert"
                              => tfile[t] # tfile[u]
    /\ Range(fileMap) \cup Pending \cup deleted = 1 .. created

\* get_fd (the allocator of TfsFdAlloc, on fd_ and the map's descriptors)
\* returns exactly the first free descriptor after fd_, wrapping past
\* MAX_FILE_FD, and fails only when the map is at MAX_OPEN_FD_COUNT or full,
\* on every cursor and map that concurrent opens and closes reach.
GetFdIsFirstFree == Alloc!GetFdIsFirstFree

\* The map never holds more than MAX_OPEN_FD_COUNT files: get_fd checks the
\* size under mutex_, but the insert happens after the lock is dropped.
OpenFdCountBound == Cardinality(DOMAIN fileMap) <= MAX_OPEN_FD_COUNT

=============================================================================
