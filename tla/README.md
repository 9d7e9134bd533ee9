# TLA+ models of TFS (nameserver HA, heartbeat ingestion, client library, tfstool)

These modules model the parts of `src/tfs/src` that have concurrent or
stateful behaviour. TLC checks the models; the runs listed below are
recorded in `PROJECT.json`.

## The system and its parts

| Part | Source | Module(s) | Status |
|---|---|---|---|
| HA controller: active/standby nameservers | `nameserver/heart_manager.cpp` (lines 188-766), `nameserver/ns_define.h` | `NsHa`, `NsRoles`, `MCNsHa` | modelled |
| Heartbeat manager (`HeartManagement`) | `nameserver/heart_manager.cpp` (lines 38-186) | `HeartQueue`, `MCHeartQueue` | modelled |
| Client descriptor allocator (`get_fd`) | `new_client/tfs_client_impl.cpp` (lines 1072-1111) | `TfsFdAlloc` | modelled |
| Client descriptor table (`TfsClientImpl`) | `new_client/tfs_client_impl.cpp` (lines 33-305, 1060-1139) | `TfsClientFd`, `MCTfsClientFd` | partly |
| Client whole-file calls (`save_file`, `fetch_file`, `unlink`, `stat_file`) | `new_client/tfs_client_impl.cpp` (lines 326-366, 724-803, 847-922, 1002-1038) | `TfsClientIo` (instantiated by `TfsTool`) | partly |
| Command tool (`tfstool`) | `tools/nameserver/tfstool.cpp` (lines 118-457, 503-667) | `TfsTool`, `MCTfsTool` | partly |
| Message factory, dataserver definitions | `message/`, `dataserver/` | none | not modelled |

How the parts interact:

* **Nameserver pair.** Two nameservers run as a pair. keepalived gives a
  floating VIP to one of them. Each nameserver has two threads that share
  its `NsRuntimeGlobalInformation` (role, status, the other side's role and
  status, the oplog sync flag and `switch_time_`).
  * The *timer thread* runs three tasks in turn:
    `CheckOwnerIsMasterTimerTask`, `MasterHeartTimerTask` and
    `SlaveHeartTimerTask`. Each task sends a blocking RPC to the peer with
    up to three tries.
  * The *worker thread* (`MasterAndSlaveHeartManager`) answers the peer's
    messages. A master/slave heartbeat may carry a "force modify" flag,
    which makes the receiver change its own role. The worker thread also
    handles a dataserver's switch notice, which sends it into a loop that
    polls the VIP.
* **Dataserver heartbeats.** Dataservers send heartbeats to the master.
  `HeartManagement::push` queues each one on a thread pool, or answers
  "busy". A pool thread runs `keepalive` against the registry and answers
  OK, EXP_BLOCK_ID (delete these blocks) or NEED_SEND_BLOCK_INFO.
* **Client library.** `TfsClientImpl` is a process-wide singleton:
  * it maps descriptors to `TfsFile` objects under `mutex_`;
  * `get_fd` hands out descriptors;
  * every file call looks its file up with `get_file` and then takes the
    file's own `rw_lock_`;
  * `close` ends with `erase_file`, which deletes the `TfsFile`.
* **Command tool.** `tfstool` reads command lines at a prompt, takes them
  from its arguments (`-i`), or reads them from batch files. `do_cmd`
  parses each line and calls a command. The command `@ file` (or
  `batch file`) runs a batch file, so batch files nest. The file commands
  (`put`, `putl`, `get`, `rm`, `undel`, `hide`, `stat`...) call the client
  library's whole-file calls. `save_file` copies a local file into a TFS
  file in chunks, and `fetch_file` copies a TFS file into a local file.
  `unlink` sets or clears a TFS file's deleted or concealed flag, and
  `stat_file` reads a file's status.

## Modules

### `NsHa`: the nameserver pair

**State.** There is one variable per field of `NsRuntimeGlobalInformation`,
each a function of the nameserver: `role`, `status`, `otherRole`,
`otherStatus`, `sync`. `safe` stands for `switch_time_` still being in the
future, and `plans` says whether the plan engine holds plans.

**Timer thread.** `tpc` is where the thread stands: `"idle"`, or blocked in
an RPC of a given task. `tcnt` counts the tries of `send_msg_to_server` and
`tmsg` is the message being sent.

**Worker thread.** `hpc` records whether it is idle or spinning on the VIP.

**Network.** `msgs` holds the requests in flight. `rep` is the reply or
timeout each timer is waiting for. `cid` and `waiting` identify the
current request, so a late answer to an abandoned try is dropped, as
`NewClientManager` does.

**Environment.** `vip`, `alive`, and the counters that bound faults.

**Timer actions.** Each timer task is split in two at its blocking RPC:
* the start actions: `CheckOwnerLostVip` and `CheckOwnerHoldVip` (the
  two branches of `CheckOwnerIsMasterTimerTask::runTimerTask`: with the
  VIP local, a slave runs `check_when_slave_hold_vip`, which is
  `CheckWhenSlaveHoldVip`, and a master that views the other side as
  master calls `ns_force_modify_other_side`), `MasterHeart`, `SlaveHeart`;
* the answer or timeout actions: `CheckOwnerAnswer`, `ForceModifyAnswer`,
  `MasterHeartAnswer`, `SlaveHeartAnswer`.

The start action covers everything the code does before the RPC, and the
answer action covers everything it does after. This split is exactly
where the code reads shared state that it uses again later.

**Other actions.**
* `SlaveSpin` and `HandlerSpin` are the two `do { ... usleep } while`
  loops.
* `ForceModify`, `DoMasterMsg` and `DoSlaveMsg` are the worker's
  handlers.
* `NotifySwitch` is a dataserver's switch notice.
* Environment actions: `MoveVip` (keepalived), `Crash`, `LoseMsg`
  (a request or reply is lost, or an RPC times out), `SafeModeExpire`,
  `BuildPlan` and `StartupDone`.
* `NsSwitch`, `MasterLostVip` and `SlavePromote` are the helpers of the
  same names in the code.

The registry and the plan engine are outside this source. They are
represented only by the `plans` flag (`destroy_plan`), and keepalived by
`vip`. Both are marked `spec_modelled` in the map.

### `NsRoles`: the role lifecycle (abstract specification)

`NsRoles` states what the HA controller promises each nameserver, with
only three variables: `role`, `safe` (safe mode, `switch_time_` ahead)
and `plans`. Its steps are the role events of spec 4.7:
* `Promote`: a slave becomes master in safe mode, with no plans.
* `Reassert`: a master restarts its safe mode and drops its plans. This
  happens when `do_heartbeat_and_ns_msg` or a timer task that was blocked
  in its RPC promotes a nameserver that is already master.
* `Demote`: a master becomes slave. It either enters safe mode and
  cancels its plans (`master_lost_vip`), or keeps both (the forced
  change).
* `Expire`: safe mode ends.
* `Plan`: a master out of safe mode builds plans.

`NsHa` instantiates it as `Lifecycle` under the identity mapping of the
three variables. The property `RoleLifecycle == Lifecycle!Spec` says that
every step of the threads, RPCs and faults of `NsHa` is one of these
events, or leaves the three variables alone.

### `HeartQueue`: HeartManagement

**Nameserver side.**
* `Push` is `HeartManagement::push`. `QueueBound` gives the bound for
  each kind of heartbeat, as the code sets it: 0 (no bound) for dead
  notices and heartbeats without a block list, `max_queue_size_` for
  block reports. `Accepts` is tbnet's non-blocking push.
* `Dequeue` is a pool thread taking the next message.
* `Keepalive` is `keepalive`. It includes the branch where the registry
  call fails and the answer is STATUS_MESSAGE_ERROR.

**Dataserver and registry (from spec 4.2/4.4).** Their code is not in
this source.
* The dataservers are `Heartbeat`, `HandleReply` and `Restart`. A
  dataserver sends its next heartbeat after the answer to the previous
  one. It attaches its block list when asked, deletes expired blocks, and
  exits after a dead notice.
* The registry is two booleans per dataserver: `regAlive` and `regKnows`
  (it holds the block list).

### `TfsFdAlloc`: the descriptor allocator

* `Probe` is the `while (retry > 0)` loop of `get_fd`, written as a
  RECURSIVE operator.
* `GetFd` adds the `MAX_OPEN_FD_COUNT` guard.
* `FirstFreeFd` is the reference: the first free descriptor after `fd_`,
  in cyclic order.
* The module has no specification of its own. `TfsClientFd`
  instantiates it on its `fd_` and on the descriptors of its map. The
  invariant `GetFdIsFirstFree` compares `GetFd` with the reference on
  every cursor and map that concurrent opens and closes reach.

`MAX_FILE_FD` and `MAX_OPEN_FD_COUNT` are defined outside this source, so
they are CONSTANTS.

### `TfsClientFd`: concurrent use of the descriptor table

**Threads.** Each thread has a program counter `pc`. It calls
`initialize` (which sets `is_init_`), or
`open = check_init ; get_fd ; TfsFile::open ; insert_file`, or a call
`read | pread | close = get_file ; lock rw_lock_ ; unlock ; [erase_file]`,
or `set_option_flag = get_file ; write without the lock`.

**Actions.**
* `GetFdStep` runs `check_init` (`CheckInit`, a read of `is_init_`
  without the mutex) and then `get_fd` through `INSTANCE TfsFdAlloc`.
* `Initialize`, `OpenFile`, `InsertFile`, `GetFile`, `LockFile`,
  `SetOptionFlag`, `UnlockFile` and `EraseFile` are one step each.
* A `TfsFile` is a number (`created` counts them). `deleted` records
  which have been freed. `uaf` records a lock or unlock of a freed file.

**The `Shared` constant.** It chooses whether a thread may use
descriptors that another thread opened.

### `TfsTool`: tfstool's command interpreter

**Lines.** A line is a sequence of bytes. A byte is a space, CR, LF, or a
word fragment: a command name in some case (`QUIT`), `@`, or a file name.
A fragment stands for the characters of a word, and no concatenation of
fragments spells a command. Prompt lines are every sequence of at most
`MaxLen` spaces and fragments, then nothing (readline), LF, or CR LF
(fgets). The file command lines (`FileLines`) may be typed as well. The
bytes before a line's buffer are undefined, so `Pres(l)` chooses them:
either the byte before is not a separator, or it is a space and the byte
before that is not. The trim loop reads them only on a line of separators,
so on any other line the choice is fixed.

**`do_cmd`.** It is the operator `DoCmd`, built from parts of the code:
* `SkipSpaces` is the leading-space loop.
* `TrimEnd` is the trailing loop, which has no lower bound.
* the split at the first space;
* `Lookup` is `str_to_lower` followed by `g_cmd_map.find`.
* `Tokens` is the `strsep` loop, which skips empty tokens.
* the parameter-count check against `CmdTable`, which is `init()`'s table.

`DoCmd` also reports whether the trim read or wrote before the buffer.
`RefDoCmd` is the reference: it splits the words of the line, once its
trailing spaces, CR and LF are removed.

**State.** `stage` is one of `start`, `interactive`, `direct` (`-i`),
`batchargs` or `exit`. The other variables:
* `args`, `directly` and `argi` hold `main`'s arguments, its `-i` flag
  and its loop index.
* `frames` holds the `cmd_batch_file` calls in progress, innermost last.
  Each frame holds its file, the next line and its `ret`.
* `content` holds the lines of each batch file.
* `last` holds the last `do_cmd`: its line and its result.
* `store`, `disk` and `io` are `TfsClientIo`'s variables: the TFS files,
  the local files, and the last client call.

**Actions.**
* `Main` covers option parsing, `initialize` and `init`. Any failure
  exits.
* `Prompt` is one iteration of `main_loop`.
* `DirectArg` and `BatchArg` are the two argument loops of `main`;
  `ArgsDone` ends them.
* `BatchLine` is one iteration of `cmd_batch_file`'s `fgets` loop.
* `BatchEnd` is its break on quit, or its EOF. It returns
  `BatchReturn` (`TFS_SUCCESS`) to the caller.

`Dispatch` is a call of `do_cmd`. It either enters a new frame, or
returns at once through `TopReturn` or `FrameReturn`. In the same step,
`FileCall` runs the client call that a file command makes:
* `put` and `uput` go through `PutFileEx`, which calls `save_file` with
  the local path and the `canonical_param` of the name (`NameOf`, where
  `null` gives NULL).
* `putl` calls `save_file` with no name and `T_LARGE`.
* `get` calls `fetch_file`.
* `rm` and `urm` go through `RemoveFileEx`, which unlinks with DELETE.
* `undel` unlinks with UNDELETE.
* `hide` unlinks with CONCEAL, or with any action when a second parameter
  is given.
* `stat` calls `stat_file`.
* `rename` is a TODO in the code that returns success.

### `TfsClientIo`: the client's whole-file calls

**State.**
* `store` maps each TFS name to whether it was written, its
  deleted/concealed flags and its bytes. This is the block store behind
  `TfsFile`, modelled from spec 4.1 and 7.
* `disk` maps each local path to whether a file exists there and its
  bytes.
* `io` records the last call: its operation, TFS name, local path, and
  whether it reported success.

A call runs inside one command of the single-threaded tool, so it is one
step. What the world does during it is a nondeterministic choice:
* a `::read`, `read`, `::write` or `write` fails at some chunk (`Faults`);
* the TFS open fails;
* `close` fails.

**Actions.** There is one operator per call.
* `SaveFile` translates `save_file`. Its copy loop is the recursive
  `SaveLoop`: a failed `::read` or a read of 0 ends the loop, a failed TFS
  `write` breaks it, and a read shorter than `MAX_READ_SIZE` ends it.
  `close`, which is not in the source, either fails or commits the chunks
  written, also after a failed write; `save_file` then reports success.
* `FetchFile` translates `fetch_file`. `::open` with `O_CREAT` creates a
  missing local file even when the TFS open then fails. Its copy loop is
  `FetchLoop`: a failed read or `::write` reports `TFS_ERROR`, and a read
  of 0 or a short read reports `TFS_SUCCESS`. The bytes are written from
  offset 0 of a file opened without `O_TRUNC` (`Overwrite`).
* `Unlink` translates `unlink`, and `StatFile` translates `stat_file`.

`FileType` is `check_file_type`. `IoSize` is the chunk size:
`4 * MAX_READ_SIZE` for a large file. `WriteNames`, `Readable` and
`Unlinked` model how `TfsFile` opens, reads and unlinks, from the spec,
because `TfsFile`'s code is not in this source.

## Runs

| Run | Checks | Result and meaning |
|---|---|---|
| `nsha_safety` | `TypeOK`, `MasterViewsPeerAsSlave`, `RoleLifecycle` | pass (856k states, about 1.5 min). With one VIP flap, one lost message or spurious timeout, and one dataserver switch notice, a master never believes its peer is master. So the force branch of `CheckOwnerIsMasterTimerTask::runTimerTask` (modelled in `CheckOwnerHoldVip`) never fires. `NsHa` refines `NsRoles`: every promotion enters safe mode and destroys the plans, and plans are built only by a master out of safe mode. This holds because every forced role change is a demotion. |
| `nsha_live_crash` | `VipHolderSoleMaster` | pass. After the master crashes and keepalived moves the VIP, the survivor becomes the only master and stays so. |
| `nsha_sync_role` | `SyncOnlyOnMaster` | violation. `MasterHeartTimerTask` sets sync YES from an answer that arrives after this nameserver was forced to slave (`heart_manager.cpp:400`). |
| `nsha_promote_vip` | `PromoteOnlyWithVip` | violation. `check_when_slave_hold_vip` promotes after its RPC, although the VIP moved away during it (`:233`). |
| `nsha_sync_peer` | `SyncFollowsPeer` | violation. The forced slave takes a stale UNINITIALIZE status and never leaves it, while the master keeps sync YES (`:600`), contrary to spec 8.6. |
| `heart_live` | `HeartTypeOK`, `EveryHeartbeatAnswered` | pass. Every heartbeat is answered, by keepalive or by the busy reply. At most one heartbeat per dataserver is waiting in the queue. |
| `client_own_fds` | `ClientTypeOK`, `NoUseAfterFree`, `FileOwnership`, `GetFdIsFirstFree` | pass (66k states). When each thread uses only descriptors it opened, no freed `TfsFile` is used and none leaks. On every cursor and map these runs reach, `get_fd` returns the first free descriptor after `fd_`, wrapping at `MAX_FILE_FD`. |
| `client_shared_uaf` | `NoUseAfterFree` | violation. `get_file` returns a raw pointer after releasing `mutex_`; a concurrent close deletes the file (`tfs_client_impl.cpp:1069`). |
| `client_fd_limit` | `OpenFdCountBound` | violation. Concurrent opens all pass the `MAX_OPEN_FD_COUNT` check before any of them inserts (`:1077`). |
| `tool_cmd` | `ToolTypeOK`, `DoCmdMatchesWords`, `QuitOnlyFromPrompt` | pass (43k states). Whenever `do_cmd`'s trim stays inside the buffer, it splits a line into exactly the command and parameters its words are. A quit inside a batch file ends only that file and never the interactive tool. This holds whether the file returns to the prompt or into the batch file that ran it: of the two batch files, `fb` may run `fa`, and `fa` then ends (at end of file or on a quit) and returns into `fb`. |
| `tool_trim` | `TrimStaysInBuffer` | violation. An empty line at the readline prompt makes `do_cmd` read `key[-1]` (`tfstool.cpp:291`). The same happens on a blank line of a batch file, or on any line of only spaces and LF. A byte before the buffer that is a separator also makes it write the `'\0'` outside the buffer. A line of spaces and LF is then reported as an unknown command instead of being skipped. |
| `tool_files` | `GetCopiesPrefix`, `PutStoresPrefix` | pass (13k states, under a minute). At the prompt, every sequence of file commands on a small and a large TFS file and two local paths is explored, with any one chunk's read or write failing and with failed TFS opens and closes. A get that reports success has written the whole TFS file at the start of the local file. A put that reports success has stored the local file's bytes from its start, in order. |

Four divergences are recorded here but checked by no run. In each case
the model does what the code does.
* The forced role change in `do_master_msg`/`do_slave_msg`
  (`heart_manager.cpp:598`, `:685`) sets no `switch_time_` and keeps the
  plans, although spec 4.7 says "On any role transition, set
  switch_time". `NsHa`'s `ForceModify` action shows it in a single step.
  `NsRoles` therefore allows a `Demote` that keeps safe mode and the
  plans as they were.
* `HeartManagement::push` (`heart_manager.cpp:81`) pushes dead notices
  and ordinary heartbeats with no bound. It bounds only the heartbeats
  that carry a block list, and answers them busy when `max_queue_size_`
  heartbeats wait. Spec 4.4, section 5 and scenario 6 say the reverse.
  `HeartQueue`'s `Push` models this as the code does it.
* `fetch_file` opens the local file with `O_WRONLY|O_CREAT` and no
  `O_TRUNC` (`tfs_client_impl.cpp:861`). A get into an existing local
  file that is longer than the TFS file reports success, and leaves the
  old tail after the copied bytes. `GetCopiesPrefix` states what does
  hold.
* When the local file's `::read` fails in the middle of `save_file`
  (`:765`), the loop ends as it does at end of file. `close` then commits
  the bytes sent, so put reports success for a truncated file. The
  same holds after a failed TFS `write` (`:775`): the loop breaks, and
  `save_file` returns the bytes sent whenever `close` succeeds. Spec 7
  says a failed write leaves no partial file; only `TfsFile::close`,
  which is not in the source, could keep that promise, so the model lets
  `close` fail or commit. `PutStoresPrefix` states what does hold.

For each property of a passing run, `PROJECT.json` lists a mutant. A
mutant is a fault variant of a mapped definition, defined in the module
just before that definition, that makes the property fail.

## Bounds and why they are enough

**NsHa.** Two nameservers, which is what the code supports: `Peer` is
the only other side.
* The safety run allows one VIP flap, one lost message and one switch
  notice, with no crash, and at most two of these faults in one behaviour
  (the state constraint `MCFaultBudget`). This is enough to reach every interleaving of a
  forced role change with a blocked timer task. Each of the four
  violations needs at most one flap and one loss.
* The liveness run allows one crash and no flap or loss. Liveness holds
  only once faults stop, and with more faults TLC takes longer than the
  time budget.
* Symmetry over the two nameservers is used only in the safety run.

**HeartQueue.** Two dataservers, two pool threads, `MaxQueueSize = 1`.
With a bound below the number of dataservers, a full queue is reachable.

**TfsClientFd and TfsFdAlloc.** The pass run has two threads,
`MAX_FILE_FD = 3`, `MAX_OPEN_FD_COUNT = 2` and four `TfsFile` objects.
With these bounds:
* an open can reuse a closed descriptor while another thread still holds
  it;
* the probe can wrap past `MAX_FILE_FD`;
* `get_fd` can refuse at the count limit while a descriptor is still free.

The violation runs use two descriptors and three files.

**TfsTool.** Prompt lines have up to two bytes plus their line end.
Batch-file lines cover a quit, `@ fa` with one space and with two spaces
(two spaces give an empty `strsep` token), and a blank line. The user may
also type any of the batch-file lines at the prompt. There is one batch
file with up to two lines. There is at most one argument: the file name,
`@ fa`, or `QUIT`. The state constraint `MCDepthBound` bounds nesting at
two frames; a file that runs itself would otherwise recurse without end.
In `tool_cmd` there is a second batch file `fb`, because a file that only
runs itself never returns into its caller. Its batch-file lines are a
quit, `@ fa` with one space and `@  fb` with two spaces; a blank line is
still typed at the prompt. So `fb` can run `fa`, and `fa` can end and
return into `fb`. No file command is typed (`FileLines = {}`), and the
files stay as they start.

`tool_files` runs the file commands at the prompt of a tool with no
arguments, no batch-file lines and no other prompt lines. The command
interpreter is checked in `tool_cmd`. Its state decides which command
runs, but not what a file command does to the files. The commands are:
* put of `lf` with and without a name;
* put of the path `lm`, which has no file until a get creates it;
* putl, get into both paths, rm, undel, hide and stat.

The TFS names are a small `ts` and a large `tl`, both unwritten at the
start. `lf` holds one byte. Bounds are `MAX_READ_SIZE = 1` and
`MaxSize = 1`. A small copy thus takes a full chunk and then a read of 0,
and a large one takes one short chunk. Every fault can strike either the
data chunk or the read that meets end of file. Larger files give the same
loop paths and multiply the states without adding a new one.

## Fairness

* **NsHa.**
  * The timer fires every interval forever, so each task start is strongly
    fair.
  * A blocked RPC ends by an answer or a timeout, and the worker thread
    keeps taking messages, so both are weakly fair.
  * Safe mode expires, and start-up completes.
  * keepalived (`MoveVip`) is not assumed fair. `VipHolderSoleMaster` must
    hold both when it never moves the VIP and when it moves the VIP to the
    survivor.
* **HeartQueue.** The pool threads and the dataservers' receive paths are
  weakly fair.
* **The client and tfstool.** Their runs check safety only.

Deadlock checking is off for `NsHa`: its timers keep firing as no-ops.
It is also off for `TfsClientFd`: the threads stop once all `MaxFiles`
files are opened and closed. It is off for `TfsTool` too: the program
exits (`stage = "exit"`). `HeartQueue` never stops, so its runs check for
deadlock.

## What is not modelled

* The registry (`LayoutManager`), the plan engine and the oplog. Their
  code is not in this source. They appear only through the flags described
  above.
* `TfsFile` I/O against the storage nodes; `TfsClientIo` models from
  the spec what the calls observe of it. Also not modelled: what `initialize`
  does beyond setting `is_init_` (its session and background task, and
  its calls of `set_cache_time` and `set_cache_items`), the other
  configuration setters, `set_default_server` and `destroy`. Nothing in
  this source calls them. The same holds for the buffer variants
  `save_file(buf, count)` and `fetch_file(buf)`, so no run could drive
  them. `fetch_file(buf)` loops without end if a read returns 0 before
  `get_file_length` bytes (`tfs_client_impl.cpp:974`).
* `fetch_file` and `stat_file` call `open` for a large file without its
  variadic key argument (`tfs_client_impl.cpp:875`, `:1024`), and `open`
  reads it with `va_arg` (`:284`). This is undefined behaviour. Its
  outcome is folded into the TFS open succeeding or failing.
* `message_factory.h`: a table of packet codes, with no state.
* `dataserver_define.h`: declarations only.
* In `tfstool.cpp`:
  * the block commands (`statblk`, `vcblk`, `lsf`, `listblock`, `cfi`),
    `cd`, `ls` and `pwd` are reduced to their return value; `put`'s suffix
    and its `force` parameter (a new block) are not modelled;
  * readline's history and tab completion (`match_cmd`) only print;
  * a line longer than `MAX_CMD_SIZE`, which fgets splits in two, is not
    modelled;
  * the EOF spin of `main_loop` (fgets returns NULL and the loop
    continues) is a stutter step in the model.
* `ns_define.h`: `GCObject` and the statistics helpers. Their callers (the
  registry and its garbage collector) are not in this source.
  `calc_elect_seq_num_average` (line 110) divides by `alive_server_count_`,
  which may be 0, and returns the count instead of the quotient. It is
  listed as a hazard.

## Further work

* Expiry reconciliation in `HeartQueue` with several blocks.
* `TfsClientFd` with `lseek`, `write` and `fstat` on a shared file
  (read and write lock modes).
