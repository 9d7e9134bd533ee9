------------------------------- MODULE MCTfsTool -------------------------------
EXTENDS TfsTool
CONSTANT fa, fb

\* one batch file (a file that runs itself never returns, so the nested
\* return needs the second file of the command run); QUIT checks the
\* lower-casing of the lookup
MCFiles == {fa}
MCFrags == {"QUIT", "@", fa}
\* for the command run, a second batch file fb, so that a batch file can
\* run another one that returns into it
MCCmdFiles == {fa, fb}
MCCmdFrags == MCFrags \cup {fb}
MCToLower(c) == IF c = "QUIT" THEN "quit" ELSE c

\* a batch file line quits, runs the batch file (after one or two spaces),
\* or is blank
MCScriptLines == {<<"QUIT", "\n">>, <<"@", " ", fa, "\n">>, <<"@", " ", " ", fa, "\n">>,
                  <<"\n">>}
\* for the command run: a quit, @ fa with one space and @ fb with two
\* (a blank line is still typed at the prompt)
MCCmdScriptLines == {<<"QUIT", "\n">>, <<"@", " ", fa, "\n">>, <<"@", " ", " ", fb, "\n">>}
\* an argument names the batch file, or is a command line
MCArgLines == {<<fa>>, <<"@", " ", fa>>, <<"QUIT">>}

\* a small and a large TFS name, both unwritten; a local file lf of one
\* byte (a full chunk of MAX_READ_SIZE, after which the small copy loop
\* reads again and meets end of file; one short read of the large
\* io_size) and a local path lm with no file yet
CONSTANTS ts, tl, lf, lm
MCTfsNames == {ts, tl}
MCLargeNames == {tl}
MCLocals == {lf, lm}
MCData == {"x"}
MCStoreInit == {[n \in MCTfsNames |-> [written |-> FALSE, flags |-> {}, data |-> << >>]]}
MCDiskInit == {(lf :> [exists |-> TRUE, data |-> <<"x">>])
                 @@ (lm :> [exists |-> FALSE, data |-> << >>])}
\* put of either path (with and without a name), putl, get into either
\* path, rm, undel, hide, stat
MCFileLines == {<<"put", " ", lf>>, <<"put", " ", lf, " ", ts>>, <<"putl", " ", lf>>,
                <<"put", " ", lm, " ", ts>>, <<"get", " ", ts, " ", lm>>,
                <<"get", " ", tl, " ", lf>>, <<"rm", " ", ts>>, <<"undel", " ", ts>>,
                <<"hide", " ", ts>>, <<"stat", " ", ts>>}

\* batch files nest at most MCDepth deep (a file that runs itself recurses
\* without end in the code)
MCDepth == 2
MCDepthBound == Len(frames) <= MCDepth
==============================================================================
