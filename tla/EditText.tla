------------------------------ MODULE EditText ------------------------------
(***************************************************************************)
(* What a session edit does to a file, and how a session's changes are     *)
(* reported (mortis-session, lib.rs; mortis-fs, lib.rs).  For a search and *)
(* replace edit a text is a sequence of characters; for a diff it is a     *)
(* sequence of lines, each with its line end, the last one too.  A session *)
(* here is at rest: the base tree, the upper layer and the whiteouts, as   *)
(* functions of the path with Absent where there is no file.               *)
(***************************************************************************)
EXTENDS Integers, Sequences, FiniteSets, SequencesExt

CONSTANTS Absent,    \* no file at a path
          VcsPaths   \* the paths under .git, .svn or .hg

Text == Seq([chars : STRING, end : {"lf", "crlf"}])

Block == [search : Seq(STRING), replace : Seq(STRING), all : BOOLEAN]

(* A write takes its path's whiteout away, a delete the file above it.     *)
AtRest(s) ==
    /\ DOMAIN s.upper = DOMAIN s.base /\ s.deleted \subseteq DOMAIN s.base
    /\ \A p \in DOMAIN s.base : {s.base[p], s.upper[p]} \subseteq Text \union {Absent}
    /\ \A p \in s.deleted : s.upper[p] = Absent

Invalid  == [error |-> "invalid_input"]
Conflict == [error |-> "conflict"]
Changed(text, count) == [text |-> text, applied |-> count]
Accepted(result) == "text" \in DOMAIN result

(* str::matches: the leftmost occurrences that do not overlap, as the      *)
(* positions they start at.                                                *)
Occurrences(text, search) ==
    LET from[i \in 1..(Len(text) + 1)] ==
          IF i + Len(search) - 1 > Len(text) THEN <<>>
          ELSE IF SubSeq(text, i, i + Len(search) - 1) = search
                 THEN <<i>> \o from[i + Len(search)]
                 ELSE from[i + 1]
    IN  from[1]

(* str::replace at the positions given.                                    *)
Spliced(text, at, search, replace) ==
    LET resume(k) == IF k = 0 THEN 1 ELSE at[k] + Len(search)
    IN  FlattenSeq([k \in 1..Len(at) |->
                      SubSeq(text, resume(k - 1), at[k] - 1) \o replace])
          \o SubSeq(text, resume(Len(at)), Len(text))

\* Mutant: the first of several matches is taken.
ApplyBlockLoosely(result, block) ==
    LET at == Occurrences(result.text, block.search)
    IN  IF ~Accepted(result) THEN result
        ELSE IF block.search = <<>> THEN Invalid
        ELSE IF at = <<>> THEN Conflict
        ELSE LET hit == IF block.all THEN at ELSE SubSeq(at, 1, 1)
             IN  Changed(Spliced(result.text, hit, block.search, block.replace),
                         result.applied + Len(hit))

ApplyBlock(result, block) ==
    LET at == Occurrences(result.text, block.search)
    IN  IF ~Accepted(result) THEN result
        ELSE IF block.search = <<>> THEN Invalid
        ELSE IF at = <<>> \/ (~block.all /\ Len(at) > 1) THEN Conflict
        ELSE Changed(Spliced(result.text, at, block.search, block.replace),
                     result.applied + Len(at))

ApplySearchReplace(current, exists, blocks) ==
    CASE blocks = <<>> -> Invalid
      [] Len(blocks) = 1 /\ blocks[1].search = <<>> ->
           IF exists THEN Conflict ELSE Changed(blocks[1].replace, 1)
      [] OTHER -> FoldLeft(ApplyBlock, Changed(current, 0), blocks)

(* append_file_diff.  The differences are one hunk, as they are in a file  *)
(* shorter than the context of a hunk; equal texts make no hunk.           *)
FileDiff(path, change, old, new) ==
    [path |-> path, change |-> change,
     hunks |-> IF old = new THEN <<>> ELSE <<[old |-> old, new |-> new]>>]

(* str::lines drops "\r\n" as it does "\n", and join puts "\n" back.       *)
NormalizeEnds(lines) ==
    [i \in DOMAIN lines |->
       [lines[i] EXCEPT !.end = IF @ = "crlf" THEN "lf" ELSE @]]

ApplyHunk(result, hunk) ==
    IF ~Accepted(result) THEN result
    ELSE IF result.text = NormalizeEnds(hunk.old)
           THEN Changed(NormalizeEnds(hunk.new), result.applied + 1)
           ELSE Conflict

ApplyUnifiedDiff(current, diff) ==
    IF diff.hunks = <<>> THEN Invalid
    ELSE FoldLeft(ApplyHunk, Changed(current, 0), diff.hunks)

(* is_vcs_path and walk_into: metadata directories are in no view.         *)
InTree(tree, path) == path \notin VcsPaths /\ tree[path] # Absent

(* OverlayFileView: a whiteout, then the upper layer, then the base.       *)
Visible(s, path) ==
    IF path \in s.deleted THEN Absent
    ELSE IF InTree(s.upper, path) THEN s.upper[path]
    ELSE IF InTree(s.base, path) THEN s.base[path]
    ELSE Absent

(* compute_status: a write that changes nothing is not a change, nor is a  *)
(* whiteout over nothing.                                                  *)
ComputeStatus(s) ==
    LET paths == DOMAIN s.base
        Entry(path, change) == [path |-> path, change |-> change]
    IN     {Entry(p, "modified") : p \in {q \in paths :
                InTree(s.upper, q) /\ InTree(s.base, q) /\ s.upper[q] # s.base[q]}}
      \union {Entry(p, "added") : p \in {q \in paths :
                InTree(s.upper, q) /\ ~InTree(s.base, q)}}
      \union {Entry(p, "deleted") : p \in {q \in s.deleted : InTree(s.base, q)}}

ReadOrEmpty(tree, path) == IF InTree(tree, path) THEN tree[path] ELSE <<>>

(* diff of one path: it looks for the file itself, not through a view.     *)

\* Mutant: a write that changes nothing is shown.
SingleDiffNoSkip(s, path) ==
    LET old == ReadOrEmpty(s.base, path)
        change == IF InTree(s.base, path) THEN "modified" ELSE "added"
    IN  IF s.upper[path] # Absent
          THEN {FileDiff(path, change, old, s.upper[path])}
        ELSE IF path \in s.deleted /\ InTree(s.base, path)
          THEN {FileDiff(path, "deleted", old, <<>>)}
        ELSE {}

SingleDiff(s, path) ==
    LET old == ReadOrEmpty(s.base, path)
    IN  IF s.upper[path] # Absent
          THEN IF ~InTree(s.base, path)
                 THEN {FileDiff(path, "added", old, s.upper[path])}
               ELSE IF old # s.upper[path]
                 THEN {FileDiff(path, "modified", old, s.upper[path])}
               ELSE {}
        ELSE IF path \in s.deleted /\ InTree(s.base, path)
          THEN {FileDiff(path, "deleted", old, <<>>)}
        ELSE {}

(* diff of the session, which export_patch also returns.                   *)
WholeDiff(s) ==
    {FileDiff(e.path, e.change,
              IF e.change = "added" THEN <<>> ELSE s.base[e.path],
              IF e.change = "deleted" THEN <<>> ELSE s.upper[e.path])
       : e \in ComputeStatus(s)}
-----------------------------------------------------------------------------
MatchesAt(text, search) ==
    {i \in 1..(Len(text) - Len(search) + 1) :
        SubSeq(text, i, i + Len(search) - 1) = search}

(* The text with the block's replacement at place i.                       *)
ReplacedAt(text, i, block) ==
    SubSeq(text, 1, i - 1) \o block.replace
      \o SubSeq(text, i + Len(block.search), Len(text))

(* A search and replace without "all" is accepted exactly when its text    *)
(* stands somewhere and no two of the places it stands at are apart, and   *)
(* then the first of them is replaced and nothing else; with "all" it is   *)
(* accepted when the text stands anywhere.  A block that follows in the    *)
(* same list sees the text the first one left.  The comment of             *)
(* apply_search_replace says more, that the text "must occur exactly once" *)
(* so that an edit "can never silently land in the wrong place": it counts *)
(* str::matches, which passes over an occurrence that overlaps the one     *)
(* before it.                                                              *)
LandsOnFirst(text, first, second) ==
    LET one == ApplySearchReplace(text, TRUE, <<first>>)
        two == ApplySearchReplace(text, TRUE, <<first, second>>)
        at  == MatchesAt(text, first.search)
    IN  /\ Accepted(one) <=>
             /\ first.search # <<>> /\ at # {}
             /\ ~first.all => \A i, j \in at : i - j < Len(first.search)
        /\ Accepted(one) /\ ~first.all =>
             /\ one.applied = 1
             /\ \E i \in at : /\ \A j \in at : i <= j
                              /\ one.text = ReplacedAt(text, i, first)
        /\ Accepted(one) /\ second.search # <<>> =>
             LET next == ApplySearchReplace(one.text, TRUE, <<second>>)
             IN  /\ Accepted(two) <=> Accepted(next)
                 /\ Accepted(two) => two.text = next.text

LfOnly(lines) == \A i \in DOMAIN lines : lines[i].end = "lf"

(* The status, the diff of one path and the diff of the session tell the   *)
(* same story, the story of what a reader of the session sees: outside the *)
(* metadata directories a path has an entry exactly when what is visible   *)
(* differs from the base, and the patch of a text with "\n" line ends,     *)
(* applied to the base, gives what is visible.  An empty file that comes   *)
(* or goes has an entry and a patch with no hunk, which is refused.        *)
DiffsTellChanges(s) ==
    \A p \in DOMAIN s.base \ VcsPaths :
       LET single == SingleDiff(s, p)
           old == ReadOrEmpty(s.base, p)
           new == IF Visible(s, p) = Absent THEN <<>> ELSE Visible(s, p)
       IN  /\ single = {d \in WholeDiff(s) : d.path = p}
           /\ single = {} <=> Visible(s, p) = (IF InTree(s.base, p)
                                                 THEN s.base[p] ELSE Absent)
           /\ \A d \in single :
                 IF old = new
                   THEN ApplyUnifiedDiff(old, d) = Invalid
                   ELSE LfOnly(old) /\ LfOnly(new)
                          => ApplyUnifiedDiff(old, d).text = new
=============================================================================
