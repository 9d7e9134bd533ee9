------------------------------- MODULE TfsTool -------------------------------
(***************************************************************************)
(* The command interpreter of tfstool (tools/nameserver/tfstool.cpp).      *)
(* main() parses its options, initializes the client and fills g_cmd_map   *)
(* (init()); then it either reads command lines at a prompt (main_loop),   *)
(* or runs each argument as a command line (-i), or runs each argument as  *)
(* a batch file (cmd_batch_file).  Every line goes through do_cmd: skip    *)
(* leading spaces, cut trailing spaces, CR and LF, split off the command   *)
(* word at the first space, look it up lower-cased, split the rest with    *)
(* strsep on " " skipping empty tokens, check the parameter count, call.   *)
(* A batch file line may itself be "@ file", so batch files nest.          *)
(*                                                                         *)
(* A line is a sequence of bytes: a space, CR, LF, or a word fragment (a   *)
(* command name, a file name) that stands for the characters of a word;    *)
(* no concatenation of fragments spells a command name.  The bytes before  *)
(* the line's buffer are undefined: Pres lists what they may hold.         *)
(***************************************************************************)
EXTENDS Integers, SequencesExt

CONSTANTS
    Frags,        \* word fragments (command names in some case, file names)
    Files,        \* the batch files that exist (model values, also in Frags)
    ToLower(_),   \* Func::str_to_lower on a fragment
    MaxLen,       \* bound on the bytes of a line typed at the prompt
    ScriptLines,  \* the lines batch files may hold
    MaxScript,    \* bound on the lines of a batch file
    ArgLines,     \* the command line arguments main() may get
    FileLines,    \* the file command lines (put, get, rm...) typed at the prompt
    TfsNames, LargeNames, Locals, Data, MaxSize, MAX_READ_SIZE, StoreInit, DiskInit

ASSUME Files \subseteq Frags /\ MaxLen \in Nat /\ MaxScript \in Nat

VARIABLES
    stage,      \* "start", "interactive", "direct" (-i), "batchargs", "exit"
    args,       \* argv[optind..argc-1]
    directly,   \* the -i option
    argi,       \* main()'s index into args
    frames,     \* the cmd_batch_file calls in progress, innermost last
    content,    \* the lines of each batch file
    last,       \* the last do_cmd: its line and its result
    store, disk, io   \* the TFS files, the local files, the last client call

vars == <<stage, args, directly, argi, frames, content, last, store, disk, io>>

\* the client library's whole-file calls, on the same files
Io == INSTANCE TfsClientIo

\* the bytes the trailing loop of do_cmd removes
Sep == {" ", "\n", "\r"}
Bytes == Sep \cup Frags \cup UNION {Range(l) : l \in FileLines}
Ends == {<< >>, <<"\n">>, <<"\r", "\n">>}
\* the lines typed at the prompt: readline gives a line without LF, fgets
\* one with it; a batch file's lines may be typed as well
Lines == {b \o e : b \in BoundedSeq({" "} \cup Frags, MaxLen), e \in Ends} \cup ScriptLines \cup FileLines
\* the byte before the buffer is not a separator, or it is a space and
\* the one before that is not; the trim loop reads it only on a line of
\* separators, so on any other line which one it is makes no difference
Pres(l) == IF \E i \in DOMAIN l : l[i] \notin Sep THEN {<< >>} ELSE BoundedSeq({" "}, 1)

NoCmd == "none"
NoFile == "nofile"
NoCall == [kind |-> "none"]

\* a CmdNode of g_cmd_map: parameter counts and the function it calls
Cmd(min, max, func) == [min |-> min, max |-> max, func |-> func]

\* init(): the command table
CmdTable ==
    ("help" :> Cmd(0, 0, "cmd_show_help")) @@ ("quit" :> Cmd(0, 0, "cmd_quit"))
    @@ ("exit" :> Cmd(0, 0, "cmd_quit")) @@ ("cd" :> Cmd(0, 1, "cmd_cd"))
    @@ ("ls" :> Cmd(0, 1, "cmd_ls")) @@ ("pwd" :> Cmd(0, 0, "cmd_pwd"))
    @@ ("put" :> Cmd(1, 4, "cmd_put_file")) @@ ("uput" :> Cmd(1, 4, "cmd_uput_file"))
    @@ ("putl" :> Cmd(1, 2, "cmd_put_large_file")) @@ ("get" :> Cmd(2, 2, "cmd_get_file"))
    @@ ("rm" :> Cmd(1, 1, "cmd_remove_file")) @@ ("urm" :> Cmd(1, 1, "cmd_uremove_file"))
    @@ ("undel" :> Cmd(1, 1, "cmd_undel_file")) @@ ("hide" :> Cmd(1, 2, "cmd_hide_file"))
    @@ ("rename" :> Cmd(2, 2, "cmd_rename_file")) @@ ("stat" :> Cmd(1, 1, "cmd_stat_file"))
    @@ ("statblk" :> Cmd(2, 2, "cmd_stat_blk")) @@ ("vcblk" :> Cmd(2, 2, "cmd_visit_count_blk"))
    @@ ("lsf" :> Cmd(2, 3, "cmd_list_file_info")) @@ ("listblock" :> Cmd(1, 1, "cmd_list_block"))
    @@ ("cfi" :> Cmd(1, 1, "cmd_check_file_info")) @@ ("@" :> Cmd(1, 1, "cmd_batch_file"))
    @@ ("batch" :> Cmd(1, 1, "cmd_batch_file"))

\* g_cmd_map.find(str_to_lower(word))
Lookup(w) ==
    IF Len(w) = 1 /\ ToLower(w[1]) \in DOMAIN CmdTable THEN ToLower(w[1]) ELSE NoCmd

-----------------------------------------------------------------------------
(* do_cmd                                                                  *)

\* byte i of the buffer: the line at 1..Len(l), its NUL after it, the
\* undefined bytes pre before it, and a non-separator before those
Byte(l, pre, i) ==
    CASE i \in 1 .. Len(l) -> l[i]
      [] i \in 1 - Len(pre) .. 0 -> pre[1 - i]
      [] OTHER -> "other"

\* while (' ' == *key) key++
RECURSIVE SkipSpaces(_, _)
SkipSpaces(l, i) == IF i <= Len(l) /\ l[i] = " " THEN SkipSpaces(l, i + 1) ELSE i

\* fault variant of TrimEnd: only spaces are cut
RECURSIVE TrimEndSpaceOnly(_, _, _)
TrimEndSpaceOnly(l, pre, i) ==
    IF Byte(l, pre, i - 1) = " " THEN TrimEndSpaceOnly(l, pre, i - 1) ELSE i

\* token = key + strlen(key); while *(token - 1) is ' ', LF or CR: token--.
\* Nothing stops it at the start of the buffer.
RECURSIVE TrimEnd(_, _, _)
TrimEnd(l, pre, i) == IF Byte(l, pre, i - 1) \in Sep THEN TrimEnd(l, pre, i - 1) ELSE i

\* fault variant of Tokens: empty tokens are kept
RECURSIVE TokensKeepEmpty(_)
TokensKeepEmpty(s) ==
    LET sp == SelectInSeq(s, LAMBDA c : c = " ")
    IN IF sp = 0 THEN <<s>>
       ELSE <<SubSeq(s, 1, sp - 1)>> \o TokensKeepEmpty(SubSeq(s, sp + 1, Len(s)))

\* while ((token = strsep(&key, " ")) != NULL): skip empty tokens, push the rest
RECURSIVE Tokens(_)
Tokens(s) ==
    LET sp   == SelectInSeq(s, LAMBDA c : c = " ")
        tok  == IF sp = 0 THEN s ELSE SubSeq(s, 1, sp - 1)
        more == IF sp = 0 THEN << >> ELSE Tokens(SubSeq(s, sp + 1, Len(s)))
    IN IF tok = << >> THEN more ELSE <<tok>> \o more

\* do_cmd(l): the outcome ("blank" returns TFS_SUCCESS, "unknown" and
\* "usage" TFS_ERROR, "call" calls the function), the command and the
\* parameters, and whether the trim loop read or wrote '\0' before the buffer
DoCmd(l, pre) ==
    LET k      == SkipSpaces(l, 1)
        e      == TrimEnd(l, pre, Len(l) + 1)
        \* *token = '\0' at e; key runs from k to the first NUL
        key    == IF e >= k THEN SubSeq(l, k, e - 1) ELSE SubSeq(l, k, Len(l))
        sp     == SelectInSeq(key, LAMBDA c : c = " ")
        cmd    == Lookup(IF sp = 0 THEN key ELSE SubSeq(key, 1, sp - 1))
        params == IF sp = 0 THEN << >> ELSE Tokens(SubSeq(key, sp + 1, Len(key)))
        kind   == CASE key = << >> -> "blank"
                    [] cmd = NoCmd -> "unknown"
                    [] Len(params) < CmdTable[cmd].min
                         \/ Len(params) > CmdTable[cmd].max -> "usage"
                    [] OTHER -> "call"
    IN [kind |-> kind,
        cmd |-> IF kind \in {"usage", "call"} THEN cmd ELSE NoCmd,
        params |-> IF kind \in {"usage", "call"} THEN params ELSE << >>,
        oobRead |-> e <= 1, oobWrite |-> e < 1]

\* Reference: the words of the line, split at spaces, once its trailing
\* spaces, CR and LF are removed; the first is the command
RefWords(l) ==
    LET n      == SelectLastInSeq(l, LAMBDA c : c \notin Sep)
        starts == SetToSortSeq({i \in 1 .. n : l[i] # " " /\ (i = 1 \/ l[i - 1] = " ")}, <)
        End(i) == LET j == SelectInSubSeq(l, i, n, LAMBDA c : c = " ")
                  IN IF j = 0 THEN n ELSE j - 1
    IN [m \in DOMAIN starts |-> SubSeq(l, starts[m], End(starts[m]))]

RefDoCmd(l) ==
    LET w    == RefWords(l)
        cmd  == IF w = << >> THEN NoCmd ELSE Lookup(w[1])
        kind == CASE w = << >> -> "blank"
                  [] cmd = NoCmd -> "unknown"
                  [] Len(w) - 1 \notin CmdTable[cmd].min .. CmdTable[cmd].max -> "usage"
                  [] OTHER -> "call"
    IN [kind |-> kind, cmd |-> IF kind \in {"usage", "call"} THEN cmd ELSE NoCmd,
        params |-> IF kind \in {"usage", "call"} THEN Tail(w) ELSE << >>]


-----------------------------------------------------------------------------
(* The file commands and the client calls they make                        *)

\* canonical_param: "" or "null" in any case is NULL; a word that is no
\* TFS name is a string check_file_type rejects
NameOf(w) == CASE Len(w) = 1 /\ ToLower(w[1]) = "null" -> Io!NoName
               [] Len(w) = 1 /\ w[1] \in TfsNames -> w[1]
               [] OTHER -> Io!BadName

\* expand_path (a word with no leading '~' is left as it is): the local
\* path a word names
LocalOf(w) == IF Len(w) = 1 /\ w[1] \in Locals THEN w[1] ELSE Io!NoFile

\* put_file_ex(param, unique, is_large): param[0] is the local file; for
\* put and uput param[1] the tfs name (param[2], the suffix, and a
\* "force" param[3], which picks a new block, are not modelled); for putl
\* param[1] is the suffix and the name is always a new large one
PutFileEx(p, large) ==
    Io!SaveFile(LocalOf(p[1]), IF ~large /\ Len(p) > 1 THEN NameOf(p[2]) ELSE Io!NoName, large)

\* remove_file_ex(param, unique): unlink (DELETE) of the name param[0]
\* (the unique branch is a TODO that does the same)
RemoveFileEx(p) == Io!Unlink(NameOf(p[1]), "DELETE")

\* the command functions that call the client: cmd_put_file and
\* cmd_uput_file (the same save_file call), cmd_put_large_file,
\* cmd_get_file, cmd_remove_file and cmd_uremove_file (the same unlink),
\* cmd_undel_file, cmd_hide_file (CONCEAL, or the TfsUnlinkType atoi of
\* param[1] names), cmd_stat_file; every other command leaves the files
\* alone (cmd_rename_file is a TODO that returns TFS_SUCCESS)
FileCall(res) ==
    LET f == CmdTable[res.cmd].func
        p == res.params
    IN CASE f \in {"cmd_put_file", "cmd_uput_file"} -> PutFileEx(p, FALSE)
         [] f = "cmd_put_large_file" -> PutFileEx(p, TRUE)
         [] f = "cmd_get_file" -> Io!FetchFile(LocalOf(p[2]), NameOf(p[1]))
         [] f \in {"cmd_remove_file", "cmd_uremove_file"} -> RemoveFileEx(p)
         [] f = "cmd_undel_file" -> Io!Unlink(NameOf(p[1]), "UNDELETE")
         [] f = "cmd_hide_file" /\ Len(p) = 1 -> Io!Unlink(NameOf(p[1]), "CONCEAL")
         [] f = "cmd_hide_file" ->
               \E a \in {"DELETE", "UNDELETE", "CONCEAL", "REVEAL"} : Io!Unlink(NameOf(p[1]), a)
         [] f = "cmd_stat_file" -> Io!StatFile(NameOf(p[1]))
         [] OTHER -> UNCHANGED <<store, disk, io>>

-----------------------------------------------------------------------------
(* main, main_loop, cmd_batch_file                                         *)

\* what do_cmd returns to its caller, as far as the callers tell apart:
\* TFS_SUCCESS, TFS_ERROR, TFS_CLIENT_QUIT, or another command's result
Ret(res) ==
    CASE res.kind = "blank" -> "success"
      [] res.kind \in {"unknown", "usage"} -> "error"
      [] CmdTable[res.cmd].func = "cmd_quit" -> "quit"
      [] OTHER -> "other"

\* fopen of the file a parameter names: the file, or NoFile when it fails
FileOf(w) == IF Len(w) = 1 /\ w[1] \in Files THEN w[1] ELSE NoFile

\* the file a do_cmd result runs in cmd_batch_file, if it opens
BatchFile(res) ==
    IF res.kind = "call" /\ CmdTable[res.cmd].func = "cmd_batch_file"
    THEN FileOf(res.params[1]) ELSE NoFile

NewFrame(f) == [file |-> f, next |-> 1, ret |-> "success"]

ToolTypeOK ==
    /\ stage \in {"start", "interactive", "direct", "batchargs", "exit"}
    /\ args \in BoundedSeq(ArgLines, 1) /\ directly \in BOOLEAN
    /\ argi \in 1 .. Len(args) + 1
    /\ content \in [Files -> BoundedSeq(ScriptLines, MaxScript)]
    /\ \A i \in DOMAIN frames :
          /\ frames[i].file \in Files
          /\ frames[i].next \in 1 .. Len(content[frames[i].file]) + 1
          /\ frames[i].ret \in {"success", "error", "quit", "other"}
    /\ Io!IoTypeOK
    /\ last # NoCall =>
          /\ last.res.kind \in {"blank", "unknown", "usage", "call"}
          /\ \A i \in DOMAIN last.res.params :
                last.res.params[i] \in Seq(Bytes) /\ last.res.params[i] # << >>

\* main() before its options are parsed; batch files hold any lines
Init ==
    /\ stage = "start"
    /\ args \in BoundedSeq(ArgLines, 1) /\ directly \in BOOLEAN /\ argi = 1
    /\ frames = << >>
    /\ content \in [Files -> BoundedSeq(ScriptLines, MaxScript)]
    /\ last = NoCall
    /\ Io!IoInit

\* main(): a missing -s, -h, an unknown option or a failed initialize
\* exit; otherwise init() and the prompt, or the arguments as commands
\* (-i) or as batch files
Main ==
    /\ stage = "start"
    /\ \E ok \in BOOLEAN :
          stage' = CASE ~ok -> "exit"
                     [] args = << >> -> "interactive"
                     [] directly -> "direct"
                     [] OTHER -> "batchargs"
    /\ UNCHANGED <<args, directly, argi, frames, content, last, store, disk, io>>

\* the caller is main(): main_loop breaks on TFS_CLIENT_QUIT, the -i and
\* batch argument loops ignore what they get
TopReturn(r) ==
    /\ frames' = << >>
    /\ stage' = IF stage = "interactive" /\ r = "quit" THEN "exit" ELSE stage

\* the caller is the batch file below: it keeps ret for its quit test
FrameReturn(base, r) ==
    frames' = [base EXCEPT ![Len(base)].ret = r] /\ UNCHANGED stage

\* do_cmd(l) called on top of the frames base (main() when it is empty):
\* it enters cmd_batch_file on a file that opens (a new frame, whose return
\* comes when it ends), or returns at once to its caller
Dispatch(l, pre, base) ==
    LET res == DoCmd(l, pre)
    IN /\ last' = [line |-> l, res |-> res]
       /\ IF res.kind = "call" THEN FileCall(res) ELSE UNCHANGED <<store, disk, io>>
       /\ IF BatchFile(res) # NoFile
          THEN frames' = Append(base, NewFrame(BatchFile(res))) /\ UNCHANGED stage
          ELSE IF base = << >> THEN TopReturn(Ret(res)) ELSE FrameReturn(base, Ret(res))

\* main_loop: readline / fgets returned line l (a NULL read continues)
Prompt ==
    /\ stage = "interactive" /\ frames = << >>
    /\ \E l \in Lines : \E pre \in Pres(l) : Dispatch(l, pre, << >>)
    /\ UNCHANGED <<args, directly, argi, content>>

\* main() with -i: do_cmd(argv[i])
DirectArg ==
    /\ stage = "direct" /\ frames = << >> /\ argi <= Len(args)
    /\ \E pre \in Pres(args[argi]) : Dispatch(args[argi], pre, << >>)
    /\ argi' = argi + 1
    /\ UNCHANGED <<args, directly, content>>

\* main() without -i: cmd_batch_file(argv[i]); fopen fails unless the
\* argument names a file
BatchArg ==
    /\ stage = "batchargs" /\ frames = << >> /\ argi <= Len(args)
    /\ frames' = IF FileOf(args[argi]) # NoFile
                 THEN << NewFrame(FileOf(args[argi])) >> ELSE << >>
    /\ argi' = argi + 1
    /\ UNCHANGED <<stage, args, directly, content, last, store, disk, io>>

\* main() after its argument loop
ArgsDone ==
    /\ stage \in {"direct", "batchargs"} /\ frames = << >> /\ argi > Len(args)
    /\ stage' = "exit"
    /\ UNCHANGED <<args, directly, argi, frames, content, last, store, disk, io>>

\* cmd_batch_file: fgets the next line, ret = do_cmd(buffer)
BatchLine ==
    /\ frames # << >>
    /\ LET fr   == Last(frames)
           base == [frames EXCEPT ![Len(frames)].next = fr.next + 1]
       IN /\ fr.ret # "quit" /\ fr.next <= Len(content[fr.file])
          /\ \E pre \in Pres(content[fr.file][fr.next]) :
                Dispatch(content[fr.file][fr.next], pre, base)
    /\ UNCHANGED <<args, directly, argi, content>>

\* fault variant of BatchReturn: cmd_batch_file returns the last ret
BatchReturnLast(fr) == fr.ret

\* cmd_batch_file returns TFS_SUCCESS whatever its lines returned
BatchReturn(fr) == "success"

\* cmd_batch_file breaks on TFS_CLIENT_QUIT or ends at EOF: fclose and
\* return to its caller
BatchEnd ==
    /\ frames # << >>
    /\ LET fr == Last(frames)
           r  == BatchReturn(fr)
       IN /\ fr.ret = "quit" \/ fr.next > Len(content[fr.file])
          /\ IF Len(frames) = 1 THEN TopReturn(r) ELSE FrameReturn(Front(frames), r)
    /\ UNCHANGED <<args, directly, argi, content, last, store, disk, io>>

Next ==
    \/ Main \/ Prompt \/ DirectArg \/ BatchArg \/ ArgsDone \/ BatchLine \/ BatchEnd

Spec == Init /\ [][Next]_vars

-----------------------------------------------------------------------------
\* do_cmd splits every line it reads without touching memory outside it
\* into the command and parameters the line's words are: on every line
\* whose trim loop stays inside the buffer, do_cmd's outcome, command and
\* parameters are those of the reference RefDoCmd.
DoCmdMatchesWords ==
    last # NoCall /\ ~last.res.oobRead =>
        RefDoCmd(last.line) = [kind |-> last.res.kind, cmd |-> last.res.cmd,
                               params |-> last.res.params]

\* A quit or exit inside a batch file ends that batch file only: the
\* interactive tool ends only on a quit typed at its prompt, never on the
\* return of cmd_batch_file, whether it returns to the prompt or into the
\* batch file that ran it.
QuitOnlyFromPrompt ==
    [][stage = "interactive" /\ stage' = "exit" => frames = << >>]_vars

\* A get that reports success has written every byte of the TFS file to
\* the local file, in order from its start: fetch_file's loop sets
\* TFS_SUCCESS only on end of file or a short read, and breaks with
\* TFS_ERROR on a failed read of the TFS file or a failed ::write.
GetCopiesPrefix ==
    io.op = "get" /\ io.ok => IsPrefix(store[io.name].data, disk[io.local].data)

\* A put that reports success (save_file returned a size, so put_file_ex
\* prints the name) has stored the local file's bytes from its start, in
\* order, and nothing else: save_file writes each chunk of read_len bytes
\* at the next offset.  (Not necessarily all of them: a failed ::read ends
\* the loop as end of file does, and close commits what was sent.)
PutStoresPrefix ==
    io.op = "put" /\ io.ok => IsPrefix(store[io.name].data, disk[io.local].data)

\* The trim loop of do_cmd never reads a byte before the line it was given.
TrimStaysInBuffer == last # NoCall => ~last.res.oobRead

=============================================================================
