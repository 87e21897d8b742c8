---------------------------- MODULE MCAlgorithms ----------------------------
EXTENDS Algorithms

Seqs(S, n) == UNION {[1..k -> S] : k \in 0..n}
-----------------------------------------------------------------------------
MCPages == [kind : {"page"}, bytes : Seqs({Newline, "x"}, 6), size : 1..3]
MCCuts  == [kind : {"cut"}, bytes : Seqs({Newline, "x"}, 4),
            start : 0..5, mid : 0..5, end : 0..5]

MCSearches ==
    {[kind |-> "search",
      view |-> <<[path |-> "f", bytes |-> b, vanished |-> v],
                 [path |-> "g", bytes |-> <<HitSymbol, CR, Newline>>, vanished |-> FALSE]>>,
      query |-> [context_before |-> i, context_after |-> j, max_results |-> m,
                 globs |-> g]]
       : b \in Seqs({Newline, CR, HitSymbol}, 5) \union Seqs({Newline, NUL, HitSymbol}, 3),
         v \in {FALSE}, i \in 0..2, j \in 0..2, m \in {1, 9}, g \in {{}}}
    \union
    {[kind |-> "search",
      view |-> <<[path |-> "f", bytes |-> <<HitSymbol>>, vanished |-> v],
                 [path |-> "g", bytes |-> <<HitSymbol, Newline>>, vanished |-> FALSE]>>,
      query |-> [context_before |-> 1, context_after |-> 1, max_results |-> m,
                 globs |-> g]]
       : v \in BOOLEAN, m \in 0..2, g \in {{}, {"f"}, {"g"}}}

Blocks(s, r) == [search : Seqs({"a", "b"}, s), replace : Seqs({"a", "b"}, r),
                 all : BOOLEAN]
MCEdits == [kind : {"edit"}, text : Seqs({"a", "b"}, 4), first : Blocks(2, 1),
            second : Blocks(1, 1)]

Line(c, e) == [chars |-> c, end |-> e]
Texts == Seqs({Line("a", "lf"), Line("b", "lf"), Line("a", "crlf")}, 2)
Tree(atP, atV) == ("p" :> atP @@ "v" :> atV)
MCSessions ==
    {[kind |-> "session", session |-> s] : s \in
       {t \in {[base |-> Tree(b, c), upper |-> Tree(u, w), deleted |-> d]
                 : b \in Texts \union {Absent}, c \in {<<>>, Absent},
                   u \in Texts \union {Absent}, w \in {<<>>, Absent},
                   d \in SUBSET {"p", "v"}}
          : \A p \in t.deleted : t.upper[p] = Absent}}

Commit(f, g, parents) ==
    [tree |-> [p \in (IF f = 0 THEN {} ELSE {"f"}) \union (IF g = 0 THEN {} ELSE {"g"})
                 |-> [mode |-> "blob", data |-> IF p = "f" THEN f ELSE g]],
     parents |-> parents]
MCHistories ==
    {[kind |-> "history", walk |-> w, path |-> p, size |-> n]
       : w \in {<<Commit(f[1], 1, a), Commit(f[2], 1, <<3>>), Commit(f[3], 0, <<>>)>>
                  : f \in [1..3 -> 0..2], a \in {<<2>>, <<2, 3>>, <<3, 2>>}}
               \union {<<Commit(1, 0, <<>>)>>},
         p \in {"f", "g", Unset}, n \in 1..3}

Entry(mode, data) == [mode |-> mode, data |-> data]
MCTrees == {"f" :> Entry("blob", <<"x">>),
            "f" :> Entry("blob", <<"x", Newline>>) @@ "g" :> Entry("link", <<"f">>),
            "f" :> Entry("link", <<"g">>) @@ "g" :> Entry("blob", <<>>)}
MCSyncs ==
    {[kind |-> "sync", refs |-> [n \in names |-> c[n]], trees |-> t, specRev |-> s,
      filter |-> [include |-> i, exclude |-> e]]
       : c \in [{Origin("HEAD"), Origin("main"), <<"v1">>, Origin("v1")} -> 1..2],
         names \in SUBSET {Origin("HEAD"), Origin("main"), <<"v1">>, Origin("v1")},
         t \in [1..2 -> MCTrees], s \in {Unset, "v1"},
         i \in {{}, {"f"}}, e \in {{}, {"g"}}}

Blamed(lines, cut) ==
    <<[start |-> 0, commit |-> "c1", lines |-> SubSeq(lines, 1, cut)],
      [start |-> cut, commit |-> "c2", lines |-> SubSeq(lines, cut + 1, Len(lines))]>>
MCBlames ==
    UNION {[kind : {"blame"}, file : {f}, later : Seqs({"x", "w"}, 4),
            pinned : BOOLEAN, entries : {Blamed(f, k) : k \in 0..Len(f)}]
             : f \in Seqs({"x", "y"}, 3)}

Stores == {NoBytes, [offset |-> 0, size |-> 2], [offset |-> 1, size |-> 4]}
Ranges == [addr : {0, 2, 6}, size : {0, 2, 4}, stored : Stores]
Object(secs, segs, n) == [sections |-> secs, segments |-> segs, bytes |-> n]
Thin(object) == [kind |-> "elf64", object |-> object, arches |-> <<>>]
Fat(names) ==
    [kind |-> "fat64", object |-> NoBytes,
     arches |-> [i \in DOMAIN names |->
        [arch |-> names[i],
         object |-> Object(<<>>, <<[addr |-> 0, size |-> i,
                                   stored |-> [offset |-> 0, size |-> i]]>>, 3)]]]
MCCode ==
    [kind : {"code"},
     file : {Thin(Object(a, b, n)) : a \in Seqs(Ranges, 2), n \in {4, 6},
                b \in {<<>>, <<[addr |-> 0, size |-> 6,
                               stored |-> [offset |-> 0, size |-> 4]]>>}}
            \union {Fat(a) : a \in Seqs({"aarch64", "x86_64", "arm"}, 3)}
            \union {[Thin(NoBytes) EXCEPT !.kind = "wasm"]},
     va : {0, 1, 3, 6, 7}, len : {0, 1, 3}]

Symbols == [addr : {1, 3, 6}, size : {0, 2, 4}, kind : {"text", "data"}, name : {"f"}]
MCSymbols ==
    [kind : {"symbol"},
     object : [symbols : Seqs(Symbols, 2) \union
                  [1..3 -> [addr : {1, 3}, size : {0, 2, 4}, kind : {"text"},
                            name : {"f", "g", ""}]]],
     address : {0, 1, 2, 3, 4, 6, 7}]

NoRequest == [op |-> "list_repos", repo |-> Missing, session |-> Missing,
              path |-> Missing, rev |-> Missing, start |-> Missing, end |-> Missing,
              limit |-> Missing, skip |-> Missing, case |-> Missing, diff |-> Missing,
              edits |-> Missing, url |-> Missing, asm |-> Missing,
              address |-> [digits |-> "ok", value |-> 1], len |-> Missing]
Requests ==
    {[NoRequest EXCEPT !.op = o, !.repo = r, !.session = s, !.path = p, !.limit = l,
                       !.address.digits = d]
       : o \in RepoOps \union SessionOps \union AsmOps, r \in {Missing, "r"},
         s \in {Missing, "s"}, p \in {Missing, "p"}, l \in {Missing, 1},
         d \in {"ok", "bad"}}
    \union
    {[NoRequest EXCEPT !.op = "search_code", !.repo = r, !.session = s, !.case = c]
       : r \in {Missing, "r"}, s \in {Missing, "s"},
         c \in {Missing, "smart", "sensitive", "insensitive", "Smart"}}
    \union
    {[NoRequest EXCEPT !.op = "read_file", !.repo = r, !.session = s, !.rev = v,
                       !.start = a, !.end = b]
       : r \in {Missing, "r"}, s \in {Missing, "s"}, v \in {Missing, "", "HEAD", "v1"},
         a \in {Missing, 2}, b \in {Missing, 3}}
    \union
    {[NoRequest EXCEPT !.op = "edit_file", !.session = "s", !.diff = d, !.edits = e]
       : d \in {Missing, "d"}, e \in {Missing, "e"}}
MCRequests ==
    [kind : {"request"},
     tokens : Seqs([token : {"t1", "t2"}, principal : {"alice", "bob"}], 2),
     presented : {"t1", Missing}, req : Requests]
MCErrors ==
    [kind : {"error"}, error : {"not_found", "invalid_input", "unauthorized",
                                "forbidden", "conflict", "vcs", "io", "other"}]
=============================================================================
