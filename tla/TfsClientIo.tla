------------------------------ MODULE TfsClientIo ------------------------------
(***************************************************************************)
(* The whole-file calls of the TFS client library (TfsClientImpl in        *)
(* new_client/tfs_client_impl.cpp) that tfstool's file commands use:       *)
(* save_file copies a local file into a TFS file (open for write, a loop   *)
(* of ::read and write, close), fetch_file copies a TFS file into a local  *)
(* file (::open with O_CREAT, a loop of read and ::write), unlink changes  *)
(* a TFS file's status, stat_file reads it.                                *)
(*                                                                         *)
(* store is the TFS file of each name as the block store keeps it (spec    *)
(* 4.1: whether it was written, its FI_DELETED / FI_CONCEAL flags, its     *)
(* bytes); disk the local files.  A call runs inside one command of the    *)
(* single-threaded tool, so it is one step; what the world outside the     *)
(* client does during it (an I/O error at some chunk, a TFS open or close  *)
(* that fails) is a nondeterministic choice among its outcomes.  io        *)
(* records the last call and what it reported.                             *)
(***************************************************************************)
EXTENDS Integers, SequencesExt

CONSTANTS
    TfsNames,       \* TFS file names (model values)
    LargeNames,     \* the large-file ones (FSName leading byte 'L')
    Locals,         \* local paths in a directory that exists
    Data,           \* byte values
    MaxSize,        \* bound on the bytes of a file
    MAX_READ_SIZE,  \* the chunk of the copy loops
    StoreInit,      \* the TFS files the tool may start with
    DiskInit        \* the local files the tool may start with

ASSUME LargeNames \subseteq TfsNames /\ MAX_READ_SIZE \in Nat \ {0}

VARIABLES store, disk, io

NoFile == "nofile"      \* a local path with no file
NoName == "noname"      \* a NULL tfs name, or a TFS open that failed
BadName == "badname"    \* a string FSName::check_file_type rejects
NoIo == [op |-> "none", name |-> NoName, local |-> NoFile, ok |-> FALSE]

Content == BoundedSeq(Data, MaxSize)
Unwritten == [written |-> FALSE, flags |-> {}, data |-> << >>]
Written(d) == [written |-> TRUE, flags |-> {}, data |-> d]
Missing == [exists |-> FALSE, data |-> << >>]
LocalFile(d) == [exists |-> TRUE, data |-> d]

IoTypeOK ==
    /\ store \in [TfsNames -> [written : BOOLEAN, flags : SUBSET {"deleted", "concealed"},
                               data : Content]]
    /\ disk \in [Locals -> [exists : BOOLEAN, data : Content]]
    /\ io \in [op : {"none", "put", "get", "unlink", "stat"},
               name : TfsNames \cup {NoName, BadName}, local : Locals \cup {NoFile},
               ok : BOOLEAN]

IoInit == store \in StoreInit /\ disk \in DiskInit /\ io = NoIo

\* FSName::check_file_type
FileType(n) == CASE n \in LargeNames -> "large"
                 [] n \in TfsNames -> "small"
                 [] OTHER -> "invalid"

\* io_size of the copy loops: 4 * MAX_READ_SIZE for a large file
IoSize(large) == IF large THEN 4 * MAX_READ_SIZE ELSE MAX_READ_SIZE

\* what the world does to the k-th ::read / read or ::write / write of a
\* copy loop: nothing fails, or one of them fails (the read at MaxSize + 1
\* is the one that meets end of file, and no write follows it)
Faults == {[op |-> "none", at |-> 0]} \cup [op : {"read"}, at : 1 .. MaxSize + 1]
            \cup [op : {"write"}, at : 1 .. MaxSize]

-----------------------------------------------------------------------------
(* The block store behind TfsFile (spec 4.1, 7)                            *)

\* the names a TfsFile opened for write (T_WRITE, T_LARGE with the flag)
\* writes to: the name given, if it is of that kind, or a name the store
\* creates (CreateFilename) when none is given
WriteNames(name, large) ==
    IF name = NoName
    THEN {n \in TfsNames : ~store[n].written /\ (n \in LargeNames) = large}
    ELSE {n \in {name} \cap TfsNames : (n \in LargeNames) = large}

\* a read open succeeds on a written file with neither flag (a concealed
\* file is read only with the force option, which the tool never sets)
Readable(n) == store[n].written /\ store[n].flags = {}

\* TfsFile::unlink: sets or clears a status flag of a written file
Unlinked(f, action) ==
    CASE action = "DELETE" -> [f EXCEPT !.flags = @ \cup {"deleted"}]
      [] action = "UNDELETE" -> [f EXCEPT !.flags = @ \ {"deleted"}]
      [] action = "CONCEAL" -> [f EXCEPT !.flags = @ \cup {"concealed"}]
      [] action = "REVEAL" -> [f EXCEPT !.flags = @ \ {"concealed"}]

-----------------------------------------------------------------------------
(* The copy loops                                                          *)

\* fault variant of SaveLoop: write(tfs_fd, buf, io_size) sends the whole
\* buffer, whose bytes past the ones read are left over or uninitialized
RECURSIVE SaveLoopWriteIoSize(_, _, _, _, _)
SaveLoopWriteIoSize(src, iosz, f, k, acc) ==
    LET off   == Len(acc.sent)
        rl    == Min({iosz, Len(src) - off})
        chunk == SubSeq(src, off + 1, off + rl) \o [i \in 1 .. iosz - rl |-> CHOOSE d \in Data : TRUE]
        next  == [acc EXCEPT !.sent = @ \o chunk]
    IN CASE f = [op |-> "read", at |-> k] -> acc
         [] rl = 0 -> acc
         [] f = [op |-> "write", at |-> k] -> [acc EXCEPT !.wfail = TRUE]
         [] rl < MAX_READ_SIZE -> next
         [] OTHER -> SaveLoopWriteIoSize(src, iosz, f, k + 1, next)

\* save_file's while (1): ::read(fd, buf, io_size) at the bytes sent so
\* far, break on an error or 0, write to TFS and break when it fails, stop
\* after a read shorter than MAX_READ_SIZE
RECURSIVE SaveLoop(_, _, _, _, _)
SaveLoop(src, iosz, f, k, acc) ==
    LET off   == Len(acc.sent)
        rl    == Min({iosz, Len(src) - off})
        chunk == SubSeq(src, off + 1, off + rl)
        next  == [acc EXCEPT !.sent = @ \o chunk]
    IN CASE f = [op |-> "read", at |-> k] -> acc
         [] rl = 0 -> acc
         [] f = [op |-> "write", at |-> k] -> [acc EXCEPT !.wfail = TRUE]
         [] rl < MAX_READ_SIZE -> next
         [] OTHER -> SaveLoop(src, iosz, f, k + 1, next)

\* fault variant of FetchLoop: a failed read is taken for end of file
RECURSIVE FetchLoopErrorAsEof(_, _, _, _, _)
FetchLoopErrorAsEof(src, iosz, f, k, got) ==
    LET rl    == Min({iosz, Len(src) - Len(got)})
        chunk == SubSeq(src, Len(got) + 1, Len(got) + rl)
    IN CASE f = [op |-> "read", at |-> k] \/ rl = 0 -> [got |-> got, ok |-> TRUE]
         [] f = [op |-> "write", at |-> k] -> [got |-> got, ok |-> FALSE]
         [] rl < iosz -> [got |-> got \o chunk, ok |-> TRUE]
         [] OTHER -> FetchLoopErrorAsEof(src, iosz, f, k + 1, got \o chunk)

\* fetch_file's while (1): read io_size bytes of the TFS file, break on an
\* error, succeed on 0, ::write them and break when that fails, succeed
\* after a read shorter than io_size
RECURSIVE FetchLoop(_, _, _, _, _)
FetchLoop(src, iosz, f, k, got) ==
    LET rl    == Min({iosz, Len(src) - Len(got)})
        chunk == SubSeq(src, Len(got) + 1, Len(got) + rl)
    IN CASE f = [op |-> "read", at |-> k] -> [got |-> got, ok |-> FALSE]
         [] rl = 0 -> [got |-> got, ok |-> TRUE]
         [] f = [op |-> "write", at |-> k] -> [got |-> got, ok |-> FALSE]
         [] rl < iosz -> [got |-> got \o chunk, ok |-> TRUE]
         [] OTHER -> FetchLoop(src, iosz, f, k + 1, got \o chunk)

\* ::write from offset 0 of a file opened without O_TRUNC: the bytes past
\* the new ones stay
Overwrite(old, new) == new \o SubSeq(old, Len(new) + 1, Len(old))

-----------------------------------------------------------------------------
(* The calls                                                               *)

Report(op, n, l, ok) == io' = [op |-> op, name |-> n, local |-> l, ok |-> ok]

\* save_file(local_file, tfs_name, ..., flag): ::open of the local file,
\* open of the TfsFile, the copy loop, close; it returns the bytes sent
\* when close succeeds, INVALID_FILE_SIZE otherwise, whether or not a write
\* failed.  TfsFile::close is not in this source: it may fail (the loop
\* then leaves no trace) or commit the chunks written, also after a failed
\* write (spec 7 says no partial file is observable; save_file does not
\* look at the failure, so only close can keep that promise).
SaveFile(l, name, large) ==
    \/ /\ l \notin Locals \/ ~disk[l].exists
       /\ Report("put", name, l, FALSE) /\ UNCHANGED <<store, disk>>
    \/ /\ l \in Locals /\ disk[l].exists
       /\ \/ /\ Report("put", NoName, l, FALSE) /\ UNCHANGED store
          \/ \E n \in WriteNames(name, large) :
                \/ /\ Report("put", n, l, FALSE) /\ UNCHANGED store
                \/ \E f \in Faults :
                      LET r == SaveLoop(disk[l].data, IoSize(large), f, 1,
                                        [sent |-> << >>, wfail |-> FALSE])
                      IN \/ /\ r.wfail
                            /\ Report("put", n, l, FALSE) /\ UNCHANGED store
                         \/ /\ store' = [store EXCEPT ![n] = Written(r.sent)]
                            /\ Report("put", n, l, TRUE)
       /\ UNCHANGED disk

\* fetch_file(local_file, tfs_name): check_file_type, ::open(O_WRONLY |
\* O_CREAT) which creates a missing file and truncates nothing, open of
\* the TfsFile for read, the copy loop; TFS_SUCCESS or TFS_ERROR
FetchFile(l, name) ==
    \/ /\ FileType(name) = "invalid" \/ l \notin Locals
       /\ Report("get", name, l, FALSE) /\ UNCHANGED <<store, disk>>
    \/ /\ FileType(name) # "invalid" /\ l \in Locals
       /\ LET old == disk[l].data
          IN \/ /\ disk' = [disk EXCEPT ![l] = LocalFile(old)]
                /\ Report("get", name, l, FALSE)
             \/ /\ Readable(name)
                /\ \E f \in Faults :
                      LET r == FetchLoop(store[name].data, IoSize(FileType(name) = "large"), f, 1, << >>)
                      IN /\ disk' = [disk EXCEPT ![l] = LocalFile(Overwrite(old, r.got))]
                         /\ Report("get", name, l, r.ok)
       /\ UNCHANGED store

\* unlink(file_name, ..., action): check_file_type, then TfsSmallFile or
\* TfsLargeFile::unlink, which fails on a file never written (or on the
\* network) and otherwise sets or clears the flag
Unlink(name, action) ==
    \/ /\ Report("unlink", name, NoFile, FALSE) /\ UNCHANGED <<store, disk>>
    \/ /\ FileType(name) # "invalid" /\ store[name].written
       /\ store' = [store EXCEPT ![name] = Unlinked(@, action)]
       /\ Report("unlink", name, NoFile, TRUE) /\ UNCHANGED disk

\* stat_file(tfs_name, ..., FORCE_STAT): check_file_type, open with T_STAT,
\* fstat, close; it changes nothing
StatFile(name) ==
    /\ \E ok \in BOOLEAN :
          /\ ok => FileType(name) # "invalid" /\ store[name].written
          /\ Report("stat", name, NoFile, ok)
    /\ UNCHANGED <<store, disk>>

=============================================================================
