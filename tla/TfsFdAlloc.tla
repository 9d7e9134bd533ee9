----------------------------- MODULE TfsFdAlloc -----------------------------
(***************************************************************************)
(* The descriptor allocator of the TFS client (TfsClientImpl::get_fd in    *)
(* new_client/tfs_client_impl.cpp): under mutex_ it refuses when the file  *)
(* map already holds MAX_OPEN_FD_COUNT entries, otherwise it advances the  *)
(* cursor fd_ through 1..MAX_FILE_FD, wrapping to 0, until it meets a      *)
(* descriptor that is not in the map, trying at most MAX_OPEN_FD_COUNT     *)
(* times.                                                                  *)
(*                                                                         *)
(* The operator GetFd is the loop as the code writes it; FirstFreeFd is    *)
(* what it is meant to compute.  TfsClientFd instantiates this module on   *)
(* its fd_ and the descriptors of its map, so that TLC compares the two on *)
(* every cursor and map concurrent opens and closes reach.                 *)
(***************************************************************************)
EXTENDS Integers, FiniteSets

CONSTANTS MAX_FILE_FD, MAX_OPEN_FD_COUNT

ASSUME MAX_FILE_FD \in Nat \ {0} /\ MAX_OPEN_FD_COUNT \in Nat \ {0}

VARIABLES
    fd_,    \* TfsClientImpl::fd_, the last descriptor handed out
    used    \* the descriptors that are keys of tfs_file_map_

Fds == 1 .. MAX_FILE_FD

\* a negative error code (EXIT_INVALIDFD_ERROR); open() tests ret_fd <= 0
EXIT_INVALIDFD_ERROR == -1

\* the while loop: ++fd_, stop at a free descriptor, wrap at MAX_FILE_FD
RECURSIVE Probe(_, _, _)
Probe(cur, tbl, retry) ==
    IF retry = 0 THEN [fd |-> EXIT_INVALIDFD_ERROR, cur |-> cur]
    ELSE IF cur + 1 \notin tbl THEN [fd |-> cur + 1, cur |-> cur + 1]
    ELSE Probe(IF cur + 1 = MAX_FILE_FD THEN 0 ELSE cur + 1, tbl, retry - 1)

\* fault variant of GetFd: one probe fewer (--retry > 0)
GetFdShortRetry(cur, tbl) ==
    IF Cardinality(tbl) >= MAX_OPEN_FD_COUNT
    THEN [fd |-> EXIT_INVALIDFD_ERROR, cur |-> cur]
    ELSE Probe(IF cur = MAX_FILE_FD THEN 0 ELSE cur, tbl, MAX_OPEN_FD_COUNT - 1)

\* get_fd: the descriptor it returns and the new value of fd_
GetFd(cur, tbl) ==
    IF Cardinality(tbl) >= MAX_OPEN_FD_COUNT
    THEN [fd |-> EXIT_INVALIDFD_ERROR, cur |-> cur]
    ELSE Probe(IF cur = MAX_FILE_FD THEN 0 ELSE cur, tbl, MAX_OPEN_FD_COUNT)

\* Reference: the first free descriptor after cur in the cyclic order
\* 1..MAX_FILE_FD, if the map is below its limit and one is free.
Dist(cur, f) == (f - (cur % MAX_FILE_FD) - 1) % MAX_FILE_FD

FirstFreeFd(cur, tbl) ==
    IF Cardinality(tbl) >= MAX_OPEN_FD_COUNT \/ Fds \subseteq tbl
    THEN EXIT_INVALIDFD_ERROR
    ELSE CHOOSE f \in Fds \ tbl :
            \A g \in Fds \ tbl : Dist(cur, f) <= Dist(cur, g)

-----------------------------------------------------------------------------
\* get_fd returns exactly the first free descriptor after fd_ (wrapping
\* past MAX_FILE_FD), fails only when the map is at MAX_OPEN_FD_COUNT or
\* full, and leaves fd_ on the descriptor it returned.
GetFdIsFirstFree ==
    LET r == GetFd(fd_, used)
    IN /\ r.fd = FirstFreeFd(fd_, used)
       /\ r.fd > 0 => r.cur = r.fd

=============================================================================
