---------------------------- MODULE MCSearchAll ----------------------------
(* Small instances of SearchAll.                                           *)
EXTENDS SearchAll, TLC

\* Not synced, two files, several matches in one, an unreadable second file.
MCTrees == {<<>>, <<1, 1>>, <<0, 2>>, <<1, Bad>>}

=============================================================================
