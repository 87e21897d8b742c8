----------------------------- MODULE SearchText -----------------------------
(***************************************************************************)
(* Searching one view for the lines that match (mortis-search, lib.rs).    *)
(* The regular expressions are external: a line matches or not, as the     *)
(* operator of the engine says.  A file is a sequence of characters of     *)
(* which line feeds, carriage returns and NULs are told apart; a view is a *)
(* sequence of files, one for each path that is listed.                    *)
(***************************************************************************)
EXTENDS Slices

CONSTANT HitSymbol      \* the character a line must hold to match

CR == "cr"
NUL == "nul"

StripCr(line) ==
    IF line # <<>> /\ line[Len(line)] = CR THEN SubSeq(line, 1, Len(line) - 1)
    ELSE line

(* A file a view lists, and what is asked of the view.                     *)
Listed == [path : STRING, bytes : Seq(STRING), vanished : BOOLEAN]
Query  == [globs : SUBSET STRING, max_results : Nat,
           context_before : Nat, context_after : Nat]

(* What the engine says of a line.                                         *)
Hit(line) == HitSymbol \in ToSet(line)

(* The searcher's lines: they end at a line feed, or with the file.        *)
RawLines(bytes) ==
    LET upto[i \in 0..Len(bytes)] ==
          IF i = 0 THEN <<>>
          ELSE IF i = 1 \/ bytes[i - 1] = Newline THEN Append(upto[i - 1], <<bytes[i]>>)
          ELSE [upto[i - 1] EXCEPT ![Len(upto[i - 1])] = Append(@, bytes[i])]
    IN  upto[Len(bytes)]

StripLf(raw) ==
    IF raw # <<>> /\ raw[Len(raw)] = Newline THEN SubSeq(raw, 1, Len(raw) - 1) ELSE raw

StripLineTerminator(raw) == StripCr(StripLf(raw))

(* split_lines_lossy: a file that ends with a line feed has a last, empty  *)
(* piece.                                                                  *)
SplitLinesLossy(bytes) ==
    LET pieces == Pieces(bytes)
    IN  [k \in DOMAIN pieces |-> StripCr(pieces[k])]

(* before and after, for the line numbered from one.                       *)
Before(lines, no, count) == SubSeq(lines, Max({no - count, 1}), no - 1)

\* Mutant: the window starts with the match.
AfterFromMatch(lines, no, count) ==
    SubSeq(lines, no, Min({no + count - 1, Len(lines)}))

After(lines, no, count) == SubSeq(lines, no + 1, Min({no + count, Len(lines)}))

Matched(path, bytes, no, query) ==
    LET lines == SplitLinesLossy(bytes)
    IN  [path |-> path, line_no |-> no,
         line |-> StripLineTerminator(RawLines(bytes)[no]),
         before |-> Before(lines, no, query.context_before),
         after |-> After(lines, no, query.context_after)]

(* A NUL makes a file binary, and no line of it is searched: files are as  *)
(* long as the searcher's buffer at most (in a longer one the lines before *)
(* the buffer with the NUL have been searched).  What has to match is a    *)
(* line without its line feed.                                             *)
FileHits(file, query) ==
    LET raw == RawLines(file.bytes)
    IN  IF NUL \in ToSet(file.bytes) THEN <<>>
        ELSE FlattenSeq([no \in DOMAIN raw |->
                IF Hit(StripLf(raw[no])) THEN <<Matched(file.path, file.bytes, no, query)>>
                ELSE <<>>])

Searched(file, query) ==
    (query.globs = {} \/ file.path \in query.globs) /\ ~file.vanished

(* search_streaming, with the sink of the trait's search, which asks to    *)
(* stop after it has taken the last hit it wanted.                         *)
SearchView(view, query) ==
    LET all == FlattenSeq([f \in DOMAIN view |->
                  IF Searched(view[f], query) THEN FileHits(view[f], query) ELSE <<>>])
    IN  SubSeq(all, 1, Min({Max({query.max_results, 1}), Len(all)}))
-----------------------------------------------------------------------------
(* A hit shows the line it names between its neighbours: the line, the     *)
(* lines before and the lines after are consecutive lines of the file, as  *)
(* many as were asked for and exist.  A window that runs past the last     *)
(* line of a file that ends with a line feed shows one empty line more.    *)
ShowsNeighbours(hit, f, query) ==
    LET bytes   == f.bytes
        raw     == RawLines(bytes)
        lines   == [k \in DOMAIN raw |-> StripLineTerminator(raw[k])]
        closed  == bytes[Len(bytes)] = Newline
        phantom == closed /\ hit.line_no + query.context_after > Len(lines)
                   /\ query.context_after > 0
        file    == IF phantom THEN Append(lines, <<>>) ELSE lines
        from    == hit.line_no - Len(hit.before)
        to      == hit.line_no + Len(hit.after)
    IN  /\ f.path = hit.path
        /\ Hit(StripLf(raw[hit.line_no]))
        /\ hit.before \o <<hit.line>> \o hit.after = SubSeq(file, from, to)
        /\ from = Max({hit.line_no - query.context_before, 1})
        /\ to = Min({hit.line_no + query.context_after, Len(file)})

HitsShowNeighbours(view, query) ==
    LET hits == SearchView(view, query)
    IN  \A h \in DOMAIN hits : \E f \in ToSet(view) : ShowsNeighbours(hits[h], f, query)
=============================================================================
