----------------------------- MODULE MCGitExec -----------------------------
(***************************************************************************)
(* A snapshot with a file at its root and one in a directory; a repository *)
(* at the root, in the directory, or only above the snapshot.              *)
(***************************************************************************)
EXTENDS GitExec, TLC

CONSTANTS v, w

MCRoot == <<"r">>
MCSub == <<"r", "s">>
MCA == <<"r", "a">>
MCX == <<"r", "s", "x">>

MCPaths == {MCA, MCX}
MCDirs == {<<>>, MCRoot, MCSub}
MCWords == {"a", "x", "s", "s/x", "../a", "..", "*"}
MCComponents ==
    [word \in MCWords |->
        CASE word = "s/x" -> <<"s", "x">>
          [] word = "../a" -> <<"..", "a">>
          [] OTHER -> <<word>>]

\* Each operation as it is written, with and without the separator.
MCOperation(names) ==
    {<<"add">> \o names, <<"rm", "--">> \o names,
     <<"commit", "-m", "x">> \o names,
     <<"restore", "--staged", "--">> \o names,
     <<"checkout", "HEAD">> \o names, <<"stash", "push", "--">> \o names,
     <<"clean", "-f">> \o names}

MCCall(line, cwd) == [line |-> line, cwd |-> cwd, identified |-> TRUE]

MCCalls ==
    {MCCall(line, MCRoot) : line \in
        UNION {MCOperation(names) : names \in
            {<<"a">>, <<"s">>, <<"a", "s/x">>, <<"a", "s">>}}}
    \union {MCCall(line, MCSub) : line \in MCOperation(<<"x">>)}
    \union {MCCall(<<"add", "../a">>, MCSub), MCCall(<<"rm", "..">>, MCSub),
            MCCall(<<"rm", "a">>, <<>>)}
    \union {MCCall(line, MCRoot) : line \in
            {<<"diff", "a">>, <<"log", "--", "a">>, <<"commit", "a">>,
             <<"commit", "a", "-m">>, <<"commit", "-F", "x", "a">>,
             <<"restore", "a">>, <<"checkout", "a">>, <<"clean", "a">>,
             <<"add">>, <<"add", "*">>, <<"status", "a">>}}
    \union {[line |-> <<"add", "a">>, cwd |-> MCRoot, identified |-> FALSE]}

MCEdits == {<<MCA, w>>, <<MCA, None>>}

File(content) == [p \in Paths |-> content]
MCOnlyX == [p \in Paths |-> IF p = MCX THEN v ELSE None]
Clone(tree) == [head |-> tree, index |-> tree, stash |-> <<>>]
Fresh == [head |-> Unborn, index |-> File(None), stash |-> <<>>]

MCSeeds ==
    {[repos |-> (MCRoot :> Clone(File(v))) @@ (<<>> :> Clone(File(v))),
      work |-> File(v)],
     [repos |-> (MCSub :> Clone(MCOnlyX)), work |-> MCOnlyX],
     [repos |-> (MCRoot :> Fresh), work |-> File(None)],
     [repos |-> (<<>> :> Clone(File(v))), work |-> File(v)]}
=============================================================================
