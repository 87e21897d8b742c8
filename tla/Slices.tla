------------------------------- MODULE Slices -------------------------------
(***************************************************************************)
(* Reading part of a file (mortis-core, model.rs).  A file is a sequence   *)
(* of bytes; only line ends are told apart from the others.  Every read of *)
(* the server, at a revision or through a session view, is cut here.       *)
(***************************************************************************)
EXTENDS Integers, Sequences, FiniteSets, SequencesExt, FiniteSetsExt

Newline == "newline"
Whole   == [unit |-> "whole"]

Newlines(text) == Cardinality({i \in DOMAIN text : text[i] = Newline})

(* Git's convention: a final newline ends a line, it does not start one.   *)
CountLines(text) ==
    IF text = <<>> THEN 0
    ELSE Newlines(text) + (IF text[Len(text)] = Newline THEN 0 ELSE 1)

(* str::split('\n'): one more piece than there are newlines.               *)
Pieces(text) ==
    LET upto[i \in 0..Len(text)] ==
          IF i = 0 THEN << <<>> >>
          ELSE IF text[i] = Newline THEN Append(upto[i - 1], <<>>)
          ELSE [upto[i - 1] EXCEPT ![Len(upto[i - 1])] = Append(@, text[i])]
    IN  upto[Len(text)]

(* join("\n")                                                              *)
Joined(lines) ==
    FlattenSeq([i \in DOMAIN lines |->
                  IF i = 1 THEN lines[i] ELSE <<Newline>> \o lines[i]])

Content(text, from, to, total, truncated) ==
    [text |-> text, start_line |-> from, end_line |-> to,
     total_lines |-> total, truncated |-> truncated]

LineSlice(bytes, range) ==
    LET total == CountLines(bytes)
        start == Max({range.start, 1})
        end   == Min({range.end, total})     \* no end: an end past the file
    IN  IF total = 0 \/ start > end
          THEN Content(<<>>, start, start - 1, total, total > 0)
          ELSE Content(Joined(SubSeq(Pieces(bytes), start, end)), start, end,
                       total, start > 1 \/ end < total)

\* Mutant: the line of an offset counts a line begun.
ByteSliceByCount(bytes, range) ==
    LET len   == Len(bytes)
        start == Min({range.start, len})
        end   == Max({Min({range.end, len}), start})
        text  == SubSeq(bytes, start + 1, end)
        line  == CountLines(SubSeq(bytes, 1, start)) + 1
    IN  Content(text, line, line + Max({CountLines(text) - 1, 0}),
                CountLines(bytes), start > 0 \/ end < len)

ByteSlice(bytes, range) ==
    LET len   == Len(bytes)
        start == Min({range.start, len})
        end   == Max({Min({range.end, len}), start})
        text  == SubSeq(bytes, start + 1, end)
        line  == Newlines(SubSeq(bytes, 1, start)) + 1
    IN  Content(text, line, line + Max({CountLines(text) - 1, 0}),
                CountLines(bytes), start > 0 \/ end < len)

SliceFileContent(bytes, range) ==
    CASE range.unit = "whole" ->
           Content(bytes, Min({1, CountLines(bytes)}), CountLines(bytes),
                   CountLines(bytes), FALSE)
      [] range.unit = "lines" -> LineSlice(bytes, range)
      [] range.unit = "bytes" -> ByteSlice(bytes, range)
-----------------------------------------------------------------------------
(* The line a byte of the file is on: what an editor would show.           *)
LineOf(bytes, i) == Newlines(SubSeq(bytes, 1, i - 1)) + 1

(* A client that reads page after page, each starting at the line after    *)
(* the last one it was told it got, until it is told it has the last line, *)
(* ends up with the file, whatever the page size, and every page is marked *)
(* truncated unless it is the whole of it.                                 *)
LinePagesReassemble(bytes, size) ==
    LET total    == CountLines(bytes)
        pages    == (total + size - 1) \div size
        Page(k)  == SliceFileContent(bytes,
                       [unit |-> "lines", start |-> (k - 1) * size + 1,
                        end |-> k * size])
        text     == Joined([k \in 1..pages |-> Page(k).text])
        closed   == bytes # <<>> /\ bytes[Len(bytes)] = Newline
    IN  /\ bytes = IF closed THEN Append(text, Newline) ELSE text
        /\ \A k \in 1..pages :
              /\ Page(k).start_line = (k - 1) * size + 1
              /\ k < pages => Page(k).end_line + 1 = Page(k + 1).start_line
              /\ Page(k).truncated <=> pages > 1
        /\ pages > 0 => Page(pages).end_line = total

(* Two byte reads that meet give the same text as one, and a read that     *)
(* returns anything names the lines its first and last byte are on.  The   *)
(* comment of FileContent.start_line says "1 when whole file or byte       *)
(* range", which is true of neither: slice_file_content counts the line    *)
(* ends before the cut, as its own comment there explains, and gives 0 for *)
(* the whole of an empty file.                                             *)
BytePagesReassemble(bytes, start, mid, end) ==
    LET Cut(from, to) == SliceFileContent(bytes,
                            [unit |-> "bytes", start |-> from, end |-> to])
        got  == Cut(start, end)
        from == Min({start, Len(bytes)})
    IN  /\ start <= mid /\ mid <= end =>
              Cut(start, mid).text \o Cut(mid, end).text = got.text
        /\ got.text # <<>> =>
              /\ got.start_line = LineOf(bytes, from + 1)
              /\ got.end_line = LineOf(bytes, from + Len(got.text))
        /\ ~got.truncated <=> got.text = bytes
=============================================================================
