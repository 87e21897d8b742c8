------------------------------ MODULE VcsReads ------------------------------
(***************************************************************************)
(* Reading history through the two version-control backends (mortis-vcs,   *)
(* git.rs, svn.rs, filter.rs).  The object store, the commit walk, git     *)
(* blame and the svn command line are external: they appear as the tree of *)
(* a commit (a function from paths to entries), the names that resolve, a  *)
(* sequence of commits, newest first, and the blamed ranges of a file.     *)
(***************************************************************************)
EXTENDS Integers, Sequences, FiniteSets, SequencesExt, Slices

CONSTANT Unset      \* an option left out

ASSUME UnsetIsNoNumber == Unset \notin Nat

Origin(name)    == <<"origin", name>>
RefsOrigin(name) == <<"refs", "remotes", "origin", name>>

(* resolve_commit: every name is tried, in this order.                     *)

\* Mutant: the default branch before the configured revision.
CandidatesDefaultFirst(at, specRev) ==
    LET spellings(s) == <<<<s>>, Origin(s), RefsOrigin(s)>>
    IN  IF at # Unset THEN spellings(at)
        ELSE <<Origin("HEAD"), Origin("main"), Origin("master"), <<"HEAD">>>>
             \o (IF specRev = Unset THEN <<>> ELSE spellings(specRev))

Candidates(at, specRev) ==
    LET spellings(s) == <<<<s>>, Origin(s), RefsOrigin(s)>>
    IN  IF at # Unset THEN spellings(at)
        ELSE (IF specRev = Unset THEN <<>> ELSE spellings(specRev))
             \o <<Origin("HEAD"), Origin("main"), Origin("master"), <<"HEAD">>>>

ResolveCommit(refs, at, specRev) ==
    LET names == Candidates(at, specRev)
        i     == SelectInSeq(names, LAMBDA c : c \in DOMAIN refs)
    IN  IF i = 0 THEN Unset ELSE refs[names[i]]

(* GlobFilter: no include glob keeps everything.                           *)
Matches(filter, path) ==
    /\ filter.include = {} \/ path \in filter.include
    /\ path \notin filter.exclude

(* collect_paths and materialize_tree take blobs: links and submodules are *)
(* neither listed nor written out.  svn list -R gives the files, and       *)
(* copy_filtered writes the exported ones out.                             *)
ListFiles(tree) == {p \in DOMAIN tree : tree[p].mode = "blob"}

MaterializeTree(tree, filter) ==
    [p \in {q \in ListFiles(tree) : Matches(filter, q)} |-> tree[p].data]

(* read_file looks the path up, whatever is there, and cuts a slice of it. *)
ReadFile(tree, path, range) ==
    IF path \notin DOMAIN tree THEN Unset
    ELSE SliceFileContent(tree[path].data, range)

(* commit_touches_path compares with the first parent; parents are         *)
(* positions in the walk.                                                  *)
BlobAt(commit, path) ==
    IF path \in DOMAIN commit.tree THEN commit.tree[path].data ELSE Unset

CommitTouchesPath(walk, i, path) ==
    LET here == BlobAt(walk[i], path)
    IN  IF walk[i].parents = <<>> THEN here # Unset
        ELSE here # BlobAt(walk[walk[i].parents[1]], path)

FileHistory(walk, path) ==
    LET upto[i \in 0..Len(walk)] ==
          IF i = 0 THEN <<>>
          ELSE IF path = Unset \/ CommitTouchesPath(walk, i, path)
            THEN Append(upto[i - 1], i)
            ELSE upto[i - 1]
    IN  upto[Len(walk)]

OrElse(option, default) == IF option = Unset THEN default ELSE option

Take(seq, n) == IF n < Len(seq) THEN SubSeq(seq, 1, n) ELSE seq
Skip(seq, n) == SubSeq(seq, n + 1, Len(seq))

(* The git walk pushes a commit before it compares with the limit.         *)

\* Mutant: compared before it is pushed, one more gets through.
GitHistoryPastLimit(walk, path, query) ==
    LET rest == Skip(FileHistory(walk, path), OrElse(query.skip, 0))
    IN  IF query.max = Unset THEN rest ELSE Take(rest, query.max + 1)

GitHistory(walk, path, query) ==
    LET rest == Skip(FileHistory(walk, path), OrElse(query.skip, 0))
    IN  IF query.max = Unset THEN rest
        ELSE Take(rest, IF query.max = 0 THEN 1 ELSE query.max)

(* svn log -l is asked for skip + max entries, when both are bounded.      *)
SvnHistory(walk, path, query) ==
    LET skip == OrElse(query.skip, 0)
        log  == FileHistory(walk, path)
    IN  IF query.max = Unset THEN Skip(log, skip)
        ELSE Take(Skip(Take(log, skip + query.max), skip), query.max)

(* Blamed ranges become one line each; the first line of a range is        *)
(* numbered from zero.                                                     *)
GitBlame(entries) ==
    FlattenSeq([e \in DOMAIN entries |->
        [i \in 1..Len(entries[e].lines) |->
            [line_no |-> entries[e].start + i, commit |-> entries[e].commit,
             content |-> entries[e].lines[i]]]])

(* svn blame has no text: it is fetched apart and paired by line number.   *)
SvnBlame(blamed, content) ==
    [i \in DOMAIN blamed |->
        [line_no |-> blamed[i].line_no, commit |-> blamed[i].commit,
         content |-> IF blamed[i].line_no \in DOMAIN content
                       THEN content[blamed[i].line_no] ELSE ""]]
-----------------------------------------------------------------------------
(* The ranges git blames a file in tile it.                                *)
BlameTiles(file, entries) ==
    LET past(e) == entries[e].start + Len(entries[e].lines)
    IN  /\ IF entries = <<>> THEN file = <<>>
           ELSE entries[1].start = 0 /\ past(Len(entries)) = Len(file)
        /\ \A e \in 1..(Len(entries) - 1) : entries[e + 1].start = past(e)
        /\ \A e \in DOMAIN entries :
              /\ past(e) <= Len(file)
              /\ \A i \in DOMAIN entries[e].lines : entries[e].lines[i] = file[entries[e].start + i]

(* Clients page through a history with skip and max_count: the pages, of   *)
(* one commit or more, laid end to end are the history of the path with    *)
(* nothing twice and nothing lost, and both backends cut the same pages of *)
(* a history without merges.                                               *)
PagesTileHistory(walk, path, size) ==
    LET page(k) == GitHistory(walk, path, [skip |-> (k - 1) * size, max |-> size])
        whole   == GitHistory(walk, path, [skip |-> Unset, max |-> Unset])
    IN  /\ FlattenSeq([k \in 1..Len(walk) |-> page(k)]) = whole
        /\ \A k \in 1..Len(walk) :
              page(k) = SvnHistory(walk, path,
                            [skip |-> (k - 1) * size, max |-> size])

(* What a search of a synced repository can hit can be read at its head,   *)
(* whether the head is asked for or the configured revision is named, and  *)
(* reads the same; a file at the head that no search can hit is one that   *)
(* was filtered out.                                                       *)
SnapshotIsHead(refs, trees, specRev, filter) ==
    LET head  == ResolveCommit(refs, Unset, specRev)
        named == ResolveCommit(refs, specRev, Unset)
        base  == MaterializeTree(trees[head], filter)
    IN  head # Unset =>
          /\ DOMAIN base = {p \in ListFiles(trees[head]) : Matches(filter, p)}
          /\ \A p \in DOMAIN base :
                /\ ReadFile(trees[head], p, Whole).text = base[p]
                /\ named # Unset /\ specRev # Unset =>
                      ReadFile(trees[named], p, Whole)
                        = ReadFile(trees[head], p, Whole)

(* Blame gives the file, line by line: the lines are numbered from one     *)
(* without a gap and hold the text of the revision that was blamed.  With  *)
(* svn the text is that of the revision fetched afterwards: it is the same *)
(* one when the revision was named, and may be a later one at the head.    *)
BlameIsTheFile(file, later, entries, pinned) ==
    LET git == GitBlame(entries)
        svn == SvnBlame([i \in DOMAIN git |->
                           [line_no |-> git[i].line_no, commit |-> git[i].commit]],
                        IF pinned THEN file ELSE later)
    IN  /\ Len(git) = Len(file) /\ Len(svn) = Len(file)
        /\ \A i \in DOMAIN file :
              /\ git[i].line_no = i /\ git[i].content = file[i]
              /\ svn[i].line_no = i /\ svn[i].commit = git[i].commit
              /\ pinned => svn[i].content = file[i]
              /\ ~pinned /\ i > Len(later) => svn[i].content = ""
=============================================================================
