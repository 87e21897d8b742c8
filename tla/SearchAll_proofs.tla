-------------------------- MODULE SearchAll_proofs --------------------------
(***************************************************************************)
(* Proofs about SearchAll, for every number of repositories, every trees,  *)
(* cap and fan-out.                                                        *)
(***************************************************************************)
EXTENDS SearchAll, SequenceTheorems, TLAPS

LocalsOK ==
    /\ tree \in [Repos -> Seq(Nat \cup {Bad})]
    /\ file \in [Repos -> Nat] /\ late \in [Repos -> Nat]
    /\ \A r \in Repos : walk[r] = "reading" => file[r] < Len(tree[r])

\* While the search runs, a walk under way has its future, and so its lease.
Bracketed == outcome = None => \A r \in Walking : fut[r] = "walking"

\* The stream is done with the repositories before head.
Yielded == \A r \in Repos : r < head => fut[r] = "dropped"

\* A walk that has read a file too late does not read another.
LateOnce ==
    \A r \in Repos : late[r] # 0 => late[r] = 1 /\ r \in cancelled /\ walk[r] # "reading"

IInv == TypeOK /\ LocalsOK /\ LeasesBracketSearch /\ Bracketed /\ Yielded /\ LateOnce

LEMMA InitIInv == Init => IInv
BY Bounds, TreesAreFiles, NoneIsNothing
   DEF Init, IInv, TypeOK, LocalsOK, LeasesBracketSearch, Bracketed, Yielded, LateOnce, Walking, Repos

-----------------------------------------------------------------------------
(* The futures.                                                            *)

LEMMA StartStep ==
    ASSUME IInv, NEW r \in Repos, Start(r)
    PROVE  IInv'
<1> USE NoneIsNothing DEF IInv, Start
<1>1. TypeOK'
  BY DEF TypeOK
<1>2. LocalsOK' /\ LateOnce'
  BY DEF TypeOK, LocalsOK, LateOnce
<1>3. LeasesBracketSearch' /\ Bracketed'
  BY DEF TypeOK, LeasesBracketSearch, Bracketed, Walking
<1>4. Yielded'
  BY Bounds DEF TypeOK, Yielded, Repos
<1> QED BY <1>1, <1>2, <1>3, <1>4

LEMMA FinishStep ==
    ASSUME IInv, NEW r \in Repos, Finish(r)
    PROVE  IInv'
<1> USE NoneIsNothing DEF IInv, Finish, walkVars
<1>1. TypeOK'
  BY DEF TypeOK
<1>2. LocalsOK' /\ LateOnce'
  BY DEF LocalsOK, LateOnce
<1>3. LeasesBracketSearch' /\ Bracketed'
  BY DEF TypeOK, LeasesBracketSearch, Bracketed, Walking
<1>4. Yielded'
  BY Bounds DEF TypeOK, Yielded, Repos
<1> QED BY <1>1, <1>2, <1>3, <1>4

LEMMA YieldStep ==
    ASSUME IInv, Yield
    PROVE  IInv'
<1> USE NoneIsNothing DEF IInv, Yield, walkVars
<1>1. TypeOK'
  BY DEF TypeOK
<1>2. LocalsOK' /\ LateOnce'
  BY DEF LocalsOK, LateOnce
<1>3. LeasesBracketSearch' /\ Bracketed'
  BY DEF TypeOK, LeasesBracketSearch, Bracketed, Walking
<1>4. Yielded'
  BY Bounds DEF TypeOK, Yielded, Repos
<1> QED BY <1>1, <1>2, <1>3, <1>4

\* Whatever ends the search drops every future and releases every lease.
LEMMA DropStep ==
    ASSUME IInv, NEW result \in {"ok", "error", "dropped"}, DropAll(result),
           UNCHANGED <<tree, head, walkVars>>
    PROVE  IInv'
<1> USE NoneIsNothing DEF IInv, DropAll, walkVars
<1>1. TypeOK'
  BY DEF TypeOK
<1>2. LocalsOK' /\ LateOnce'
  BY DEF LocalsOK, LateOnce
<1>3. LeasesBracketSearch' /\ Bracketed' /\ Yielded'
  BY DEF LeasesBracketSearch, Bracketed, Yielded
<1> QED BY <1>1, <1>2, <1>3

-----------------------------------------------------------------------------
(* The walks, and GC.                                                      *)

LEMMA PollStep ==
    ASSUME IInv, NEW r \in Repos, Poll(r)
    PROVE  IInv'
<1> USE NoneIsNothing DEF IInv, Poll, WalkGoto, WalkRest, futVars
<1>1. TypeOK'
  BY DEF TypeOK
<1>2. LocalsOK'
  BY DEF TypeOK, LocalsOK
<1>3. LateOnce'
  BY DEF TypeOK, LateOnce
<1>4. LeasesBracketSearch' /\ Bracketed' /\ Yielded'
  BY DEF TypeOK, LeasesBracketSearch, Bracketed, Yielded, Walking
<1> QED BY <1>1, <1>2, <1>3, <1>4

LEMMA ReadFileStep ==
    ASSUME IInv, NEW r \in Repos, ReadFile(r)
    PROVE  IInv'
<1> USE NoneIsNothing DEF IInv, WalkRest, futVars
<1>1. /\ walk[r] = "reading"
      /\ file' = [file EXCEPT ![r] = file[r] + 1]
      /\ \E l \in {"error", "ok", "polling"} : walk' = [walk EXCEPT ![r] = l]
      /\ late' = [late EXCEPT ![r] = IF r \in cancelled THEN @ + 1 ELSE @]
      /\ UNCHANGED <<WalkRest>>
  BY DEF ReadFile, WalkGoto
<1>2. TypeOK'
  BY <1>1 DEF TypeOK, LocalsOK
<1>3. LocalsOK'
  BY <1>1 DEF TypeOK, LocalsOK
<1>4. LateOnce'
  BY <1>1 DEF TypeOK, LocalsOK, LateOnce
<1>5. LeasesBracketSearch' /\ Bracketed' /\ Yielded'
  BY <1>1 DEF TypeOK, LeasesBracketSearch, Bracketed, Yielded, Walking
<1> QED BY <1>2, <1>3, <1>4, <1>5

\* What a collector takes is of a file that the walk has yet to read.
LEMMA TreeTaken ==
    ASSUME TypeOK, LocalsOK, NEW r \in Repos, NEW f \in file[r] + 1 .. Len(tree[r]), Reclaim(r, f)
    PROVE  /\ tree' \in [Repos -> Seq(Nat \cup {Bad})] /\ f \in 1 .. Len(tree[r])
           /\ \A q \in Repos : Len(tree'[q]) = Len(tree[q])
           /\ \A q \in Repos \ {r} : tree'[q] = tree[q]
           /\ tree'[r][f] \in {0, Bad}
           /\ \A g \in 1 .. Len(tree[r]) : g # f => tree'[r][g] = tree[r][g]
<1>1. PICK gone \in {0, Bad} : tree' = [tree EXCEPT ![r][f] = gone]
  BY DEF Reclaim
<1>2. tree \in [Repos -> Seq(Nat \cup {Bad})] /\ file[r] \in Nat
  BY DEF LocalsOK
<1> DEFINE s == tree[r]
           t == [s EXCEPT ![f] = gone]
<1>3. s \in Seq(Nat \cup {Bad}) /\ Len(s) \in Nat /\ DOMAIN s = 1 .. Len(s)
  BY <1>2
<1>4. f \in 1 .. Len(s) /\ gone \in Nat \cup {Bad}
  BY <1>2, <1>3
<1>5. t \in Seq(Nat \cup {Bad}) /\ Len(t) = Len(s) /\ t[f] = gone
      /\ \A g \in 1 .. Len(s) : g # f => t[g] = s[g]
  <2> HIDE DEF s
  <2> QED BY <1>3, <1>4
<1>6. tree' = [tree EXCEPT ![r] = t]
  BY <1>1
<1> HIDE DEF t
<1> QED BY <1>2, <1>4, <1>5, <1>6

LEMMA ReclaimStep ==
    ASSUME IInv, NEW r \in Repos, NEW f \in 1 .. Len(tree[r]), Reclaim(r, f)
    PROVE  IInv'
<1> USE DEF IInv, futVars, walkVars
<1>1. \A q \in Repos : Len(tree'[q]) = Len(tree[q])
  BY TreeTaken DEF Reclaim
<1>2. tree' \in [Repos -> Seq(Nat \cup {Bad})]
  BY TreeTaken DEF Reclaim
<1>3. UNCHANGED <<head, fut, leased, cancelled, walk, file, late, outcome>>
  BY DEF Reclaim
<1>4. TypeOK'
  BY <1>1, <1>3 DEF TypeOK
<1>5. LocalsOK' /\ LateOnce'
  BY <1>1, <1>2, <1>3 DEF LocalsOK, LateOnce
<1>6. LeasesBracketSearch' /\ Bracketed' /\ Yielded'
  BY <1>3 DEF LeasesBracketSearch, Bracketed, Yielded, Walking
<1> QED BY <1>4, <1>5, <1>6

-----------------------------------------------------------------------------
LEMMA NextIInv == IInv /\ [Next]_vars => IInv'
<1> SUFFICES ASSUME IInv, [Next]_vars PROVE IInv'
  OBVIOUS
<1>1. ASSUME NEW r \in Repos, Start(r) \/ Finish(r) PROVE IInv'
  BY <1>1, StartStep, FinishStep
<1>2. CASE Yield
  BY <1>2, YieldStep
<1>3. CASE YieldLast \/ YieldError \/ Exhausted \/ HangUp
  BY <1>3, DropStep DEF YieldLast, YieldError, Exhausted, HangUp
<1>4. ASSUME NEW r \in Repos, WalkStep(r) \/ \E f \in 1 .. Len(tree[r]) : Reclaim(r, f)
      PROVE  IInv'
  BY <1>4, PollStep, ReadFileStep, ReclaimStep DEF WalkStep
<1>5. CASE UNCHANGED vars
  BY <1>5 DEF IInv, TypeOK, LocalsOK, LeasesBracketSearch, Bracketed, Yielded, LateOnce, Walking, vars,
              futVars, walkVars
<1> QED BY <1>1, <1>2, <1>3, <1>4, <1>5 DEF Next, SearchStep

\* The inductive invariant of this module holds in every reachable state.
THEOREM Invariance == Spec => []IInv
BY InitIInv, NextIInv, PTL DEF Spec

\* Every variable keeps its type, and no walk reads past its list of files.
THEOREM TypeCorrect == Spec => []TypeOK
BY Invariance, PTL DEF IInv

\* While the search runs every walk of its is under a lease; once it ends it keeps none.
THEOREM LeasesHeld == Spec => []LeasesBracketSearch
BY Invariance, PTL DEF IInv

\* A walk whose search is over reads one more file at most.
THEOREM LateReads == Spec => []LateReadsBounded
<1>1. IInv => LateReadsBounded
  <2> SUFFICES ASSUME IInv, NEW r \in Repos PROVE late[r] <= 1
    BY DEF LateReadsBounded
  <2>1. late[r] = 0 \/ late[r] = 1
    BY DEF IInv, LateOnce
  <2> QED BY <2>1
<1> QED BY <1>1, Invariance, PTL

-----------------------------------------------------------------------------
(* Sequences of matches.                                                   *)

Places == Nat \X Nat \X Nat
Sorted(s) == \A i, j \in DOMAIN s : i < j => Before(s[i], s[j])

\* Every match that is not in the sequence comes after all those that are.
StartOf(s, matches) ==
    /\ ToSet(s) \subseteq matches
    /\ \A m \in matches \ ToSet(s), n \in ToSet(s) : Before(n, m)

LEMMA BeforeIsTransitive ==
    ASSUME NEW a \in Places, NEW b \in Places, NEW c \in Places, Before(a, b), Before(b, c)
    PROVE  Before(a, c)
BY DEF Places, Before

LEMMA InSet ==
    ASSUME NEW S, NEW s \in Seq(S)
    PROVE  /\ Len(s) \in Nat /\ DOMAIN s = 1 .. Len(s)
           /\ \A i \in 1 .. Len(s) : s[i] \in ToSet(s)
           /\ \A x \in ToSet(s) : x \in S /\ \E i \in 1 .. Len(s) : s[i] = x
BY DEF ToSet

\* One sequence after another.
LEMMA Joined ==
    ASSUME NEW s \in Seq(Places), NEW t \in Seq(Places)
    PROVE  /\ s \o t \in Seq(Places) /\ Len(s \o t) = Len(s) + Len(t)
           /\ ToSet(s \o t) = ToSet(s) \cup ToSet(t)
           /\ Sorted(s) /\ Sorted(t) /\ (\A m \in ToSet(s), n \in ToSet(t) : Before(m, n))
              => Sorted(s \o t)
<1> DEFINE q == s \o t
<1>a. q \in Seq(Places)
  BY ConcatProperties
<1>b. Len(q) = Len(s) + Len(t)
  BY ConcatProperties
<1>c. \A i \in 1 .. Len(s) + Len(t) : q[i] = IF i <= Len(s) THEN s[i] ELSE t[i - Len(s)]
  BY ConcatProperties
<1> HIDE DEF q
<1>1. /\ q \in Seq(Places) /\ Len(q) = Len(s) + Len(t)
      /\ \A i \in 1 .. Len(s) + Len(t) : q[i] = IF i <= Len(s) THEN s[i] ELSE t[i - Len(s)]
  BY <1>a, <1>b, <1>c
<1>2. /\ Len(s) \in Nat /\ Len(t) \in Nat /\ DOMAIN s = 1 .. Len(s) /\ DOMAIN t = 1 .. Len(t)
      /\ DOMAIN q = 1 .. Len(s) + Len(t)
  BY <1>1, InSet
<1>3. \A i \in 1 .. Len(s) : q[i] = s[i] /\ i \in DOMAIN q
  BY <1>1, <1>2
<1>4. \A i \in 1 .. Len(t) : q[Len(s) + i] = t[i] /\ Len(s) + i \in DOMAIN q
  BY <1>1, <1>2
<1>5. \A i \in DOMAIN q : \/ i \in 1 .. Len(s)
                          \/ i - Len(s) \in 1 .. Len(t) /\ q[i] = t[i - Len(s)] /\ i > Len(s)
  BY <1>1, <1>2
<1>6. ToSet(q) = ToSet(s) \cup ToSet(t)
  <2>1. \A x \in ToSet(q) : x \in ToSet(s) \cup ToSet(t)
    BY <1>2, <1>3, <1>5 DEF ToSet
  <2>2. \A x \in ToSet(s) : x \in ToSet(q)
    BY <1>2, <1>3 DEF ToSet
  <2>3. \A x \in ToSet(t) : x \in ToSet(q)
    BY <1>2, <1>4 DEF ToSet
  <2> QED BY <2>1, <2>2, <2>3
<1>7. ASSUME Sorted(s), Sorted(t), \A m \in ToSet(s), n \in ToSet(t) : Before(m, n)
      PROVE  Sorted(q)
  <2> SUFFICES ASSUME NEW i \in DOMAIN q, NEW j \in DOMAIN q, i < j PROVE Before(q[i], q[j])
    BY DEF Sorted
  <2>1. CASE j \in 1 .. Len(s)
    BY <1>2, <1>3, <1>5, <1>7, <2>1 DEF Sorted
  <2>2. CASE i \in 1 .. Len(s) /\ j \notin 1 .. Len(s)
    BY <1>2, <1>3, <1>5, <1>7, <2>2 DEF ToSet
  <2>3. CASE i \notin 1 .. Len(s)
    <3>1. /\ i - Len(s) \in 1 .. Len(t) /\ q[i] = t[i - Len(s)]
          /\ j - Len(s) \in 1 .. Len(t) /\ q[j] = t[j - Len(s)]
          /\ i - Len(s) < j - Len(s)
      BY <1>2, <1>5, <2>3
    <3> QED BY <1>2, <1>7, <3>1 DEF Sorted
  <2> QED BY <2>1, <2>2, <2>3
<1> QED BY <1>1, <1>6, <1>7 DEF q

\* A sequence cut at a cap it reaches.
LEMMA Truncated ==
    ASSUME NEW s \in Seq(Places), NEW matches, NEW c \in Nat, c <= Len(s),
           Sorted(s), StartOf(s, matches)
    PROVE  /\ SubSeq(s, 1, c) \in Seq(Places) /\ Len(SubSeq(s, 1, c)) = c
           /\ Sorted(SubSeq(s, 1, c)) /\ StartOf(SubSeq(s, 1, c), matches)
<1>1. Len(s) \in Nat /\ DOMAIN s = 1 .. Len(s) /\ \A i \in 1 .. Len(s) : s[i] \in Places
  BY InSet, ElementOfSeq
<1>2. 1 \in Int /\ c \in Int /\ \A i \in 1 .. c : s[i] \in Places
  BY <1>1
<1>3. PICK q \in Seq(Places) : q = SubSeq(s, 1, c)
  BY <1>2, SubSeqProperties
<1>4. Len(q) = c
  BY <1>2, <1>3, SubSeqProperties
<1>5. \A i \in 1 .. c : q[i] = s[i]
  BY <1>2, <1>3, SubSeqProperties
<1>6. DOMAIN q = 1 .. c
  BY <1>4, InSet
<1>7. Sorted(q)
  BY <1>1, <1>5, <1>6 DEF Sorted
<1>8. StartOf(q, matches)
  <2>1. ToSet(q) \subseteq ToSet(s)
    BY <1>1, <1>5, <1>6 DEF ToSet
  <2>2. ASSUME NEW m \in matches \ ToSet(q), NEW n \in ToSet(q) PROVE Before(n, m)
    <3>1. CASE m \notin ToSet(s)
      BY <2>1, <3>1 DEF StartOf
    <3>2. CASE m \in ToSet(s)
      <4>1. PICK j \in 1 .. Len(s) : s[j] = m
        BY <3>2, <1>1 DEF ToSet
      <4>2. PICK i \in 1 .. c : q[i] = n
        BY <1>6 DEF ToSet
      <4>3. j \notin 1 .. c
        BY <1>5, <1>6, <4>1 DEF ToSet
      <4>4. i < j /\ i \in 1 .. Len(s) /\ s[i] = n
        BY <1>1, <1>5, <4>2, <4>3
      <4> QED BY <1>1, <4>1, <4>4 DEF Sorted
    <3> QED BY <3>1, <3>2
  <2> QED BY <2>1, <2>2 DEF StartOf
<1> QED BY <1>3, <1>4, <1>7, <1>8

-----------------------------------------------------------------------------
(* The answer.                                                             *)

ReadTo(r, n) == UNION {FileMatches(r, f) : f \in 1 .. n}
RepoMatches(r) == ReadTo(r, Len(tree[r]))
Earlier(h) == UNION {RepoMatches(r) : r \in 1 .. h - 1}

\* A walk under way has every match of the files it has read, and is below the cap;
\* one that has ended has all there are, or the first as far as the cap.
HitsFit(r, w, n, s) ==
    /\ s \in Seq(Places) /\ Sorted(s)
    /\ w \in {None, "polling", "reading"} =>
           /\ ToSet(s) = ReadTo(r, n)
           /\ max # None => Len(s) < Limit
    /\ w = "ok" =>
           /\ StartOf(s, RepoMatches(r))
           /\ ToSet(s) = RepoMatches(r) \/ (max # None /\ Len(s) = Limit)

HitsOK(r) == HitsFit(r, walk[r], file[r], hits[r])

\* The answer so far is every match of the repositories before head.
AllFit(h, s) ==
    /\ h <= N + 1
    /\ s \in Seq(Places) /\ Sorted(s) /\ ToSet(s) = Earlier(h)
    /\ max # None => Len(s) <= max

AllOK == AllFit(head, all)

Running ==
    /\ DOMAIN hits = Repos
    /\ \A r \in Repos : fut[r] = "queued" => walk[r] = None
    /\ \A r \in cancelled : walk[r] \in {"ok", "error"}
    /\ \A r \in Repos : HitsOK(r)
    /\ AllOK

\* The walks whose matches are in the answer have ended.
AnswerSettled == outcome = "ok" => \A m \in ToSet(all) : m[1] \notin Walking

AInv == max \in Caps /\ (outcome = None => Running) /\ AnswerIsFirstMatches /\ AnswerSettled

LEMMA CapIsNumber == max \in Caps /\ max # None => max \in Nat /\ Limit \in Nat \ {0} /\ max <= Limit
BY CapsAreNumbers DEF Limit

LEMMA FileMatch ==
    ASSUME TypeOK, LocalsOK, NEW r \in Repos, NEW f \in 1 .. Len(tree[r]),
           NEW m \in FileMatches(r, f)
    PROVE  m \in Places /\ m[1] = r /\ m[2] = f
<1>1. tree[r] \in Seq(Nat \cup {Bad})
  BY DEF LocalsOK
<1>2. tree[r][f] \in Nat \cup {Bad}
  BY <1>1, ElementOfSeq
<1>3. PICK k \in Nat : m = <<r, f, k>>
  BY <1>2 DEF FileMatches
<1>4. r \in Nat /\ f \in Nat
  BY <1>1, Bounds DEF Repos
<1> QED BY <1>3, <1>4 DEF Places

\* The matches of one file, in order.
LEMMA MatchesInOrder ==
    ASSUME TypeOK, LocalsOK, NEW r \in Repos, NEW f \in 1 .. Len(tree[r])
    PROVE  /\ Matches(r, f) \in Seq(Places) /\ Sorted(Matches(r, f))
           /\ ToSet(Matches(r, f)) = FileMatches(r, f)
<1>1. tree[r] \in Seq(Nat \cup {Bad})
  BY DEF LocalsOK
<1>2. tree[r][f] \in Nat \cup {Bad} /\ r \in Nat /\ f \in Nat
  BY <1>1, ElementOfSeq, Bounds DEF Repos
<1>3. CASE tree[r][f] = Bad
  BY <1>3 DEF Matches, FileMatches, Sorted, ToSet
<1>4. CASE tree[r][f] # Bad
  <2> DEFINE n == tree[r][f]
             s == [k \in 1 .. n |-> <<r, f, k>>]
  <2>1. n \in Nat /\ Matches(r, f) = s /\ FileMatches(r, f) = {<<r, f, k>> : k \in 1 .. n}
    BY <1>2, <1>4 DEF Matches, FileMatches
  <2> HIDE DEF n
  <2>2. s \in Seq(Places)
    BY <1>2, <2>1 DEF Places
  <2>3. DOMAIN s = 1 .. n /\ \A k \in 1 .. n : s[k] = <<r, f, k>>
    OBVIOUS
  <2> HIDE DEF s
  <2>4. Sorted(s)
    BY <2>1, <2>3 DEF Sorted, Before
  <2>5. ToSet(s) = {<<r, f, k>> : k \in 1 .. n}
    BY <2>3 DEF ToSet
  <2> QED BY <2>1, <2>2, <2>4, <2>5
<1> QED BY <1>3, <1>4

\* One more file.
LEMMA OneFileMore ==
    ASSUME TypeOK, LocalsOK, NEW r \in Repos, file[r] < Len(tree[r])
    PROVE  /\ file[r] + 1 \in 1 .. Len(tree[r])
           /\ ReadTo(r, file[r] + 1) = ReadTo(r, file[r]) \cup FileMatches(r, file[r] + 1)
           /\ \A m \in ReadTo(r, file[r]), n \in FileMatches(r, file[r] + 1) : Before(m, n)
<1>1. tree[r] \in Seq(Nat \cup {Bad}) /\ Len(tree[r]) \in Nat /\ file[r] \in Nat
  BY DEF LocalsOK
<1>2. file[r] + 1 \in 1 .. Len(tree[r])
  BY <1>1
<1>3. 1 .. file[r] + 1 = (1 .. file[r]) \cup {file[r] + 1}
  BY <1>1
<1>4. ReadTo(r, file[r] + 1) = ReadTo(r, file[r]) \cup FileMatches(r, file[r] + 1)
  BY <1>3 DEF ReadTo
<1>5. ASSUME NEW m \in ReadTo(r, file[r]), NEW n \in FileMatches(r, file[r] + 1)
      PROVE  Before(m, n)
  <2>1. PICK f \in 1 .. file[r] : m \in FileMatches(r, f)
    BY DEF ReadTo
  <2>2. f \in 1 .. Len(tree[r]) /\ f < file[r] + 1
    BY <1>1
  <2>3. m[1] = r /\ m[2] = f /\ n[1] = r /\ n[2] = file[r] + 1
    BY <1>2, <2>1, <2>2, FileMatch
  <2> QED BY <2>2, <2>3 DEF Before
<1> QED BY <1>2, <1>4, <1>5

\* What a walk has read is the start of what its repository has.
LEMMA ReadIsStart ==
    ASSUME TypeOK, LocalsOK, NEW r \in Repos, NEW s, NEW n \in 0 .. Len(tree[r]),
           ToSet(s) = ReadTo(r, n)
    PROVE  StartOf(s, RepoMatches(r))
<1>1. tree[r] \in Seq(Nat \cup {Bad}) /\ Len(tree[r]) \in Nat
  BY DEF LocalsOK
<1>2. ToSet(s) \subseteq RepoMatches(r)
  BY <1>1 DEF RepoMatches, ReadTo
<1>3. ASSUME NEW m \in RepoMatches(r) \ ToSet(s), NEW k \in ToSet(s) PROVE Before(k, m)
  <2>1. PICK f \in 1 .. Len(tree[r]) : m \in FileMatches(r, f)
    BY DEF RepoMatches, ReadTo
  <2>2. PICK g \in 1 .. n : k \in FileMatches(r, g)
    BY DEF ReadTo
  <2>3. ~ (f \in 1 .. n)
    BY <2>1 DEF ReadTo
  <2>4. g < f /\ g \in 1 .. Len(tree[r])
    BY <1>1, <2>3
  <2>5. m[1] = r /\ m[2] = f /\ k[1] = r /\ k[2] = g
    BY <2>1, <2>2, <2>4, FileMatch
  <2> QED BY <2>4, <2>5 DEF Before
<1> QED BY <1>2, <1>3 DEF StartOf

LEMMA RepoMatch ==
    ASSUME TypeOK, LocalsOK, NEW r \in Repos, NEW m \in RepoMatches(r)
    PROVE  m \in Places /\ m[1] = r
BY FileMatch DEF RepoMatches, ReadTo

\* The repositories before head come before the rest.
LEMMA RepoOrder ==
    ASSUME TypeOK, LocalsOK, NEW h \in Repos,
           NEW m \in Earlier(h), NEW r \in Repos, h <= r, NEW n \in RepoMatches(r)
    PROVE  Before(m, n)
<1>1. PICK q \in 1 .. h - 1 : m \in RepoMatches(q)
  BY DEF Earlier
<1>2. q \in Repos /\ q < r
  BY Bounds DEF Repos
<1>3. m[1] = q /\ n[1] = r
  BY <1>1, <1>2, RepoMatch
<1> QED BY <1>2, <1>3 DEF Before

LEMMA OneRepoMore ==
    ASSUME NEW h \in Repos
    PROVE  Earlier(h + 1) = Earlier(h) \cup RepoMatches(h)
<1>1. 1 .. (h + 1) - 1 = (1 .. h - 1) \cup {h}
  BY Bounds DEF Repos
<1> QED BY <1>1 DEF Earlier

LEMMA AllIsEarlier == AllMatches = Earlier(N + 1)
<1>1. 1 .. (N + 1) - 1 = Repos
  BY Bounds DEF Repos
<1> QED BY <1>1 DEF AllMatches, Earlier, RepoMatches, ReadTo

\* tree and max do not change, so neither does what there is to find.
LEMMA Fixed ==
    ASSUME UNCHANGED <<tree, max>>
    PROVE  /\ \A r \in Repos : HitsOK(r)' <=> HitsFit(r, walk'[r], file'[r], hits'[r])
           /\ AllOK' <=> AllFit(head', all')
           /\ AnswerIsFirstMatches' <=> (outcome' = "ok" => FirstOf(all', AllMatches, max))
<1>1. \A r \in Repos : HitsOK(r)' <=> HitsFit(r, walk'[r], file'[r], hits'[r])
  BY DEF HitsOK, HitsFit, Limit, RepoMatches, ReadTo, FileMatches
<1>2. AllOK' <=> AllFit(head', all')
  BY DEF AllOK, AllFit, Earlier, RepoMatches, ReadTo, FileMatches
<1>3. AnswerIsFirstMatches' <=> (outcome' = "ok" => FirstOf(all', AllMatches, max))
  BY DEF AnswerIsFirstMatches, FirstOf, AllMatches, FileMatches
<1> QED BY <1>1, <1>2, <1>3

\* What the sink keeps of one more file.
LEMMA KeptInOrder ==
    ASSUME IInv, max \in Caps, NEW r \in Repos, file[r] < Len(tree[r]),
           HitsFit(r, "reading", file[r], hits[r]),
           NEW found, found = Kept(hits[r], Matches(r, file[r] + 1))
    PROVE  /\ Capped(Len(found)) /\ found # hits[r] => HitsFit(r, "ok", file[r] + 1, found)
           /\ ~ (Capped(Len(found)) /\ found # hits[r]) => HitsFit(r, "polling", file[r] + 1, found)
<1> DEFINE f == file[r] + 1
           new == Matches(r, f)
           both == hits[r] \o new
<1> USE NoneIsNothing
<1>1. TypeOK /\ LocalsOK /\ f \in 1 .. Len(tree[r]) /\ f \in 0 .. Len(tree[r])
  BY OneFileMore DEF IInv
<1>2. /\ hits[r] \in Seq(Places) /\ Sorted(hits[r]) /\ ToSet(hits[r]) = ReadTo(r, file[r])
      /\ max # None => Len(hits[r]) < Limit
  BY DEF HitsFit
<1>3. new \in Seq(Places) /\ Sorted(new) /\ ToSet(new) = FileMatches(r, f)
  BY <1>1, MatchesInOrder
<1>4. /\ ReadTo(r, f) = ReadTo(r, file[r]) \cup FileMatches(r, f)
      /\ \A m \in ReadTo(r, file[r]), n \in FileMatches(r, f) : Before(m, n)
  BY <1>1, OneFileMore
<1>5. found = IF max = None \/ Len(both) <= Limit THEN both ELSE SubSeq(both, 1, Limit)
  BY DEF Kept, Limit
<1> HIDE DEF new
<1>6. both \in Seq(Places) /\ Sorted(both) /\ ToSet(both) = ReadTo(r, f)
  BY <1>2, <1>3, <1>4, Joined
<1>7. Len(both) = Len(hits[r]) + Len(new) /\ Len(hits[r]) \in Nat /\ Len(new) \in Nat
  BY <1>2, <1>3, Joined
<1> HIDE DEF f
<1>8. StartOf(both, RepoMatches(r))
  BY <1>1, <1>6, ReadIsStart
<1>9. max # None => max \in Nat /\ Limit \in Nat \ {0} /\ max <= Limit
  BY CapIsNumber
<1>10. CASE max = None \/ Len(both) <= Limit
  <2>1. found = both
    BY <1>5, <1>10
  <2>2. ASSUME Capped(Len(found)), found # hits[r] PROVE HitsFit(r, "ok", f, found)
    <3>1. max # None /\ Len(both) >= max /\ Len(both) <= Limit
      BY <1>10, <2>1, <2>2 DEF Capped
    <3>2. Len(both) = Limit
      <4>1. CASE max = 0
        <5>1. Limit = 1 /\ Len(hits[r]) = 0
          BY <1>2, <1>7, <3>1, <4>1 DEF Limit
        <5>2. Len(both) # 0
          BY <1>2, <1>6, <2>1, <2>2, <5>1, EmptySeq
        <5>3. Len(both) \in Nat
          BY <1>7
        <5>4. Len(both) <= 1
          BY <3>1, <5>1
        <5> HIDE DEF both
        <5>5. \A k \in Nat : k <= 1 /\ k # 0 => k = 1
          OBVIOUS
        <5> QED BY <5>1, <5>2, <5>3, <5>4, <5>5
      <4>2. CASE max # 0
        BY <1>7, <1>9, <3>1, <4>2 DEF Limit
      <4> QED BY <4>1, <4>2
    <3> QED BY <1>6, <1>8, <2>1, <3>1, <3>2 DEF HitsFit
  <2>3. ASSUME ~ (Capped(Len(found)) /\ found # hits[r]) PROVE HitsFit(r, "polling", f, found)
    <3>1. max # None => Len(both) < Limit
      <4>1. CASE found = hits[r]
        BY <1>2, <2>1, <4>1
      <4>2. CASE ~ Capped(Len(found))
        BY <1>7, <1>9, <2>1, <4>2 DEF Capped
      <4> QED BY <2>3, <4>1, <4>2
    <3> QED BY <1>6, <2>1, <3>1 DEF HitsFit
  <2> QED BY <2>2, <2>3 DEF f
<1>11. CASE max # None /\ ~ (Len(both) <= Limit)
  <2>1. found = SubSeq(both, 1, Limit) /\ Limit \in Nat /\ Limit <= Len(both)
    BY <1>5, <1>7, <1>9, <1>11
  <2> HIDE DEF both
  <2>2. /\ found \in Seq(Places) /\ Len(found) = Limit /\ Sorted(found)
        /\ StartOf(found, RepoMatches(r))
    BY <1>6, <1>8, <2>1, Truncated
  <2>3. Capped(Len(found)) /\ found # hits[r]
    BY <1>2, <1>7, <1>9, <1>11, <2>2 DEF Capped
  <2> QED BY <1>11, <2>2, <2>3 DEF HitsFit
<1> QED BY <1>10, <1>11

-----------------------------------------------------------------------------
LEMMA InitAInv == Init => AInv
<1> SUFFICES ASSUME Init PROVE AInv
  OBVIOUS
<1>1. max \in Caps /\ (outcome # "ok")
  BY NoneIsNothing DEF Init
<1>2. <<>> \in Seq(Places) /\ Len(<<>>) = 0 /\ Sorted(<<>>) /\ ToSet(<<>>) = {}
  BY DEF Sorted, ToSet
<1>3. max # None => max \in Nat /\ Limit \in Nat \ {0}
  BY <1>1, CapIsNumber
<1>4. ASSUME NEW r \in Repos PROVE HitsOK(r)
  <2>1. hits[r] = <<>> /\ file[r] = 0 /\ walk[r] # "ok"
    BY NoneIsNothing DEF Init
  <2>2. ReadTo(r, 0) = {}
    BY DEF ReadTo
  <2>3. hits[r] \in Seq(Places) /\ Sorted(hits[r]) /\ ToSet(hits[r]) = ReadTo(r, file[r])
    BY <1>2, <2>1, <2>2
  <2>4. max # None => Len(hits[r]) < Limit
    BY <1>2, <1>3, <2>1
  <2> QED BY <2>1, <2>3, <2>4 DEF HitsOK, HitsFit
<1>5. AllOK
  <2>1. Earlier(1) = {}
    BY DEF Earlier
  <2>2. all = <<>> /\ head = 1 /\ head <= N + 1
    BY Bounds DEF Init
  <2>3. max # None => Len(all) <= max
    BY <1>2, <1>3, <2>2
  <2>4. all \in Seq(Places) /\ Sorted(all) /\ ToSet(all) = Earlier(head)
    BY <1>2, <2>1, <2>2
  <2> QED BY <2>2, <2>3, <2>4 DEF AllOK, AllFit
<1>6. Running
  BY <1>4, <1>5 DEF Running, Init
<1> QED BY <1>1, <1>6 DEF AInv, AnswerIsFirstMatches, AnswerSettled

-----------------------------------------------------------------------------
(* While the search runs, a step keeps what the walks and the answer have. *)

LEMMA KeepsRunning ==
    ASSUME UNCHANGED <<tree, max>>, max \in Caps, outcome' = None, DOMAIN hits' = Repos,
           \A r \in Repos : fut'[r] = "queued" => walk'[r] = None,
           \A r \in cancelled' : walk'[r] \in {"ok", "error"},
           \A r \in Repos : HitsFit(r, walk'[r], file'[r], hits'[r]),
           AllFit(head', all')
    PROVE  AInv'
<1>1. Running'
  BY Fixed DEF Running
<1>2. AnswerIsFirstMatches' /\ AnswerSettled'
  BY NoneIsNothing, Fixed DEF AnswerSettled
<1> QED BY <1>1, <1>2 DEF AInv

LEMMA StartAInv ==
    ASSUME IInv, AInv, NEW r \in Repos, Start(r)
    PROVE  AInv'
<1> USE NoneIsNothing
<1>1. /\ UNCHANGED <<tree, max, head, cancelled, file, hits, all, outcome>> /\ outcome = None
      /\ fut[r] = "queued" /\ fut' = [fut EXCEPT ![r] = "walking"]
      /\ walk' = [walk EXCEPT ![r] = "polling"]
  BY DEF Start
<1>2. TypeOK /\ max \in Caps /\ Running
  BY <1>1 DEF IInv, AInv
<1>3. walk[r] = None
  BY <1>1, <1>2 DEF Running
<1>4. \A q \in Repos : fut'[q] = "queued" => walk'[q] = None
  BY <1>1, <1>2 DEF TypeOK, Running
<1>5. \A q \in cancelled' : walk'[q] \in {"ok", "error"}
  BY <1>1, <1>2, <1>3 DEF TypeOK, Running
<1>6. ASSUME NEW q \in Repos PROVE HitsFit(q, walk'[q], file'[q], hits'[q])
  <2>1. HitsFit(q, walk[q], file[q], hits[q])
    BY <1>2 DEF Running, HitsOK
  <2>2. CASE q = r
    <3>1. walk'[q] = "polling" /\ walk[q] = None
      BY <1>1, <1>2, <1>3, <2>2 DEF TypeOK
    <3> QED BY <1>1, <2>1, <3>1 DEF HitsFit
  <2>3. CASE q # r
    <3>1. walk'[q] = walk[q]
      BY <1>1, <1>2, <2>3 DEF TypeOK
    <3> QED BY <1>1, <2>1, <3>1
  <2> QED BY <2>2, <2>3
<1>7. AllFit(head', all') /\ DOMAIN hits' = Repos
  BY <1>1, <1>2 DEF Running, AllOK
<1> QED BY <1>1, <1>2, <1>4, <1>5, <1>6, <1>7, KeepsRunning

LEMMA FinishAInv ==
    ASSUME IInv, AInv, NEW r \in Repos, Finish(r)
    PROVE  AInv'
<1> USE NoneIsNothing
<1>1. /\ UNCHANGED <<tree, max, head, walk, file, hits, all, outcome>> /\ outcome = None
      /\ walk[r] \in {"ok", "error"}
      /\ fut' = [fut EXCEPT ![r] = "ready"] /\ cancelled' = cancelled \cup {r}
  BY DEF Finish, walkVars
<1>2. TypeOK /\ max \in Caps /\ Running
  BY <1>1 DEF IInv, AInv
<1>3. \A q \in Repos : fut'[q] = "queued" => walk'[q] = None
  BY <1>1, <1>2 DEF TypeOK, Running
<1>4. \A q \in cancelled' : walk'[q] \in {"ok", "error"}
  BY <1>1, <1>2 DEF Running
<1>5. /\ \A q \in Repos : HitsFit(q, walk'[q], file'[q], hits'[q])
      /\ AllFit(head', all') /\ DOMAIN hits' = Repos
  BY <1>1, <1>2 DEF Running, HitsOK, AllOK
<1> QED BY <1>1, <1>2, <1>3, <1>4, <1>5, KeepsRunning

\* A walk's step, once its hits are known to fit.
LEMMA WalkAInv ==
    ASSUME IInv, AInv, outcome = None, NEW r \in Repos, walk[r] \in {"polling", "reading"},
           UNCHANGED <<tree, max, futVars, cancelled, all, outcome>>, DOMAIN hits' = Repos,
           NEW l \in {"polling", "reading", "ok", "error"}, walk' = [walk EXCEPT ![r] = l],
           HitsFit(r, l, file'[r], hits'[r]),
           \A q \in Repos \ {r} : file'[q] = file[q] /\ hits'[q] = hits[q]
    PROVE  AInv'
<1> USE NoneIsNothing
<1>1. TypeOK /\ max \in Caps /\ Running /\ fut[r] = "walking"
  BY DEF IInv, AInv, Bracketed, Walking
<1>2. \A q \in Repos : walk'[q] = IF q = r THEN l ELSE walk[q]
  BY <1>1 DEF TypeOK
<1>3. \A q \in Repos : fut'[q] = "queued" => walk'[q] = None
  BY <1>1, <1>2 DEF Running, futVars
<1>4. \A q \in cancelled' : walk'[q] \in {"ok", "error"}
  BY <1>1, <1>2 DEF TypeOK, Running
<1>5. ASSUME NEW q \in Repos PROVE HitsFit(q, walk'[q], file'[q], hits'[q])
  <2>1. HitsFit(q, walk[q], file[q], hits[q])
    BY <1>1 DEF Running, HitsOK
  <2>2. CASE q = r
    BY <1>2, <2>2
  <2>3. CASE q # r
    BY <1>2, <2>1, <2>3
  <2> QED BY <2>2, <2>3
<1>6. AllFit(head', all')
  BY <1>1 DEF Running, AllOK, futVars
<1> QED BY <1>1, <1>3, <1>4, <1>5, <1>6, KeepsRunning

LEMMA PollAInv ==
    ASSUME IInv, AInv, outcome = None, NEW r \in Repos, Poll(r)
    PROVE  AInv'
<1> USE NoneIsNothing
<1>1. /\ walk[r] = "polling" /\ UNCHANGED <<tree, max, futVars, cancelled, all, outcome, file, hits>>
      /\ walk' = [walk EXCEPT ![r] = IF file[r] = Len(tree[r]) \/ r \in cancelled
                                     THEN "ok" ELSE "reading"]
  BY DEF Poll, WalkGoto, WalkRest
<1>2. TypeOK /\ LocalsOK /\ max \in Caps /\ Running
  BY DEF IInv, AInv
<1>3. r \notin cancelled /\ DOMAIN hits' = Repos
  BY <1>1, <1>2 DEF Running
<1>4. HitsFit(r, "polling", file[r], hits[r])
  BY <1>1, <1>2 DEF Running, HitsOK
<1>5. CASE file[r] = Len(tree[r])
  <2>1. ToSet(hits[r]) = RepoMatches(r)
    BY <1>4, <1>5 DEF HitsFit, RepoMatches
  <2>2. StartOf(hits[r], RepoMatches(r))
    BY <2>1 DEF StartOf
  <2>3. HitsFit(r, "ok", file[r], hits[r])
    BY <1>4, <2>1, <2>2 DEF HitsFit
  <2>4. walk' = [walk EXCEPT ![r] = "ok"]
    BY <1>1, <1>5
  <2> QED BY <1>1, <1>3, <2>3, <2>4, WalkAInv
<1>6. CASE file[r] # Len(tree[r])
  <2>1. HitsFit(r, "reading", file[r], hits[r])
    BY <1>4 DEF HitsFit
  <2>2. walk' = [walk EXCEPT ![r] = "reading"]
    BY <1>1, <1>3, <1>6
  <2> QED BY <1>1, <1>3, <2>1, <2>2, WalkAInv
<1> QED BY <1>5, <1>6

LEMMA ReadFileAInv ==
    ASSUME IInv, AInv, outcome = None, NEW r \in Repos, ReadFile(r)
    PROVE  AInv'
<1> USE NoneIsNothing
<1> DEFINE found == Kept(hits[r], Matches(r, file[r] + 1))
           full == Capped(Len(found)) /\ found # hits[r]
<1>1. /\ walk[r] = "reading" /\ UNCHANGED <<tree, max, futVars, cancelled, all, outcome>>
      /\ file' = [file EXCEPT ![r] = @ + 1]
      /\ \/ /\ hits' = [hits EXCEPT ![r] = found]
            /\ walk' = [walk EXCEPT ![r] = IF full THEN "ok" ELSE "polling"]
         \/ hits' = hits /\ walk' = [walk EXCEPT ![r] = "error"]
  BY DEF ReadFile, WalkGoto, WalkRest
<1>2. /\ TypeOK /\ LocalsOK /\ max \in Caps /\ Running
      /\ file[r] < Len(tree[r])
  BY <1>1 DEF IInv, AInv, LocalsOK
<1>3. HitsFit(r, "reading", file[r], hits[r])
  BY <1>1, <1>2 DEF Running, HitsOK
<1>4. /\ full => HitsFit(r, "ok", file[r] + 1, found)
      /\ ~ full => HitsFit(r, "polling", file[r] + 1, found)
  BY <1>2, <1>3, KeptInOrder
<1>5. DOMAIN hits = Repos /\ file'[r] = file[r] + 1 /\ \A q \in Repos \ {r} : file'[q] = file[q]
  BY <1>1, <1>2 DEF LocalsOK, Running
<1> HIDE DEF found
<1>6. CASE hits' = [hits EXCEPT ![r] = found] /\ walk' = [walk EXCEPT ![r] = IF full THEN "ok" ELSE "polling"]
  <2>1. /\ DOMAIN hits' = Repos /\ hits'[r] = found
        /\ \A q \in Repos \ {r} : hits'[q] = hits[q]
    BY <1>5, <1>6
  <2> HIDE DEF full
  <2>2. CASE full
    BY <1>1, <1>4, <1>5, <1>6, <2>1, <2>2, WalkAInv
  <2>3. CASE ~ full
    BY <1>1, <1>4, <1>5, <1>6, <2>1, <2>3, WalkAInv
  <2> QED BY <2>2, <2>3
<1>7. CASE hits' = hits /\ walk' = [walk EXCEPT ![r] = "error"]
  <2>1. HitsFit(r, "error", file[r] + 1, hits[r])
    BY <1>3 DEF HitsFit
  <2> QED BY <1>1, <1>5, <1>7, <2>1, WalkAInv
<1> QED BY <1>1, <1>2, <1>6, <1>7

-----------------------------------------------------------------------------
(* The stream.                                                             *)

\* The next repository's matches after those of the ones before it.
LEMMA NextInOrder ==
    ASSUME IInv, AInv, outcome = None, head \in Repos, walk[head] = "ok",
           NEW both, both = all \o hits[head]
    PROVE  /\ both \in Seq(Places) /\ Sorted(both) /\ Len(both) = Len(all) + Len(hits[head])
           /\ Len(all) \in Nat /\ Len(hits[head]) \in Nat
           /\ ToSet(both) = Earlier(head) \cup ToSet(hits[head])
           /\ ToSet(hits[head]) \subseteq RepoMatches(head)
<1>1. TypeOK /\ LocalsOK /\ Running
  BY DEF IInv, AInv
<1>2. /\ hits[head] \in Seq(Places) /\ Sorted(hits[head])
      /\ ToSet(hits[head]) \subseteq RepoMatches(head)
  BY <1>1 DEF Running, HitsOK, HitsFit, StartOf
<1>3. all \in Seq(Places) /\ Sorted(all) /\ ToSet(all) = Earlier(head)
  BY <1>1 DEF Running, AllOK, AllFit
<1>4. head <= head /\ head \in Nat
  BY Bounds DEF Repos
<1>5. \A m \in ToSet(all), n \in ToSet(hits[head]) : Before(m, n)
  BY <1>1, <1>2, <1>3, <1>4, RepoOrder
<1>6. Len(all) \in Nat /\ Len(hits[head]) \in Nat
  BY <1>2, <1>3
<1> QED BY <1>2, <1>3, <1>5, <1>6, Joined

LEMMA YieldAInv ==
    ASSUME IInv, AInv, Yield
    PROVE  AInv'
<1> USE NoneIsNothing
<1> DEFINE both == all \o hits[head]
<1>1. /\ UNCHANGED <<tree, max, cancelled, walk, file, hits, outcome>>
      /\ outcome = None /\ head \in Repos /\ walk[head] = "ok" /\ ~ Capped(Len(both))
      /\ all' = both /\ head' = head + 1 /\ fut' = [fut EXCEPT ![head] = "dropped"]
  BY DEF Yield, walkVars
<1>2. TypeOK /\ max \in Caps /\ Running
  BY <1>1 DEF IInv, AInv
<1>3. /\ both \in Seq(Places) /\ Sorted(both) /\ Len(both) = Len(all) + Len(hits[head])
      /\ Len(all) \in Nat /\ Len(hits[head]) \in Nat
      /\ ToSet(both) = Earlier(head) \cup ToSet(hits[head])
  BY <1>1, NextInOrder
<1> HIDE DEF both
<1>4. max # None => max \in Nat /\ Limit \in Nat /\ max <= Limit /\ Len(both) < max
  BY <1>1, <1>2, <1>3, CapIsNumber DEF Capped
<1>5. ToSet(hits[head]) = RepoMatches(head)
  <2>1. ~ (max # None /\ Len(hits[head]) = Limit)
    BY <1>3, <1>4
  <2> QED BY <1>1, <1>2, <2>1 DEF Running, HitsOK, HitsFit
<1>6. AllFit(head', all')
  <2>1. ToSet(both) = Earlier(head + 1)
    BY <1>1, <1>3, <1>5, OneRepoMore
  <2>2. head + 1 <= N + 1
    BY <1>1, Bounds DEF Repos
  <2>3. max # None => Len(both) <= max
    BY <1>3, <1>4
  <2> QED BY <1>1, <1>3, <2>1, <2>2, <2>3 DEF AllFit
<1>7. \A q \in Repos : fut'[q] = "queued" => walk'[q] = None
  BY <1>1, <1>2 DEF TypeOK, Running
<1>8. /\ \A q \in cancelled' : walk'[q] \in {"ok", "error"}
      /\ \A q \in Repos : HitsFit(q, walk'[q], file'[q], hits'[q])
      /\ DOMAIN hits' = Repos
  BY <1>1, <1>2 DEF Running, HitsOK
<1> QED BY <1>1, <1>2, <1>6, <1>7, <1>8, KeepsRunning

\* The walks of the repositories before head have ended.
LEMMA EarlierSettled ==
    ASSUME IInv, outcome = None, head \in 1 .. N + 1, NEW m \in Earlier(head)
    PROVE  m[1] \notin Walking
<1>1. PICK q \in 1 .. head - 1 : m \in RepoMatches(q)
  BY DEF Earlier
<1>2. q \in Repos /\ q < head
  BY Bounds DEF Repos
<1>3. m[1] = q
  BY <1>1, <1>2, RepoMatch DEF IInv
<1>4. fut[q] = "dropped"
  BY <1>2 DEF IInv, Yielded
<1> QED BY <1>3, <1>4 DEF IInv, Bracketed

\* A walk that stopped at the cap left out nothing that comes before what it kept, so
\* cutting the answer leaves out only what comes after it.
LEMMA YieldLastAInv ==
    ASSUME IInv, AInv, YieldLast
    PROVE  AInv'
<1> USE NoneIsNothing
<1> DEFINE both == all \o hits[head]
<1>1. /\ UNCHANGED <<tree, max, walk>>
      /\ outcome = None /\ head \in Repos /\ walk[head] = "ok" /\ Capped(Len(both))
      /\ all' = SubSeq(both, 1, max) /\ outcome' = "ok"
  BY DEF YieldLast, DropAll, walkVars
<1>2. TypeOK /\ LocalsOK /\ max \in Caps /\ Running
  BY <1>1 DEF IInv, AInv
<1>3. /\ both \in Seq(Places) /\ Sorted(both) /\ Len(both) = Len(all) + Len(hits[head])
      /\ Len(all) \in Nat /\ Len(hits[head]) \in Nat
      /\ ToSet(both) = Earlier(head) \cup ToSet(hits[head])
      /\ ToSet(hits[head]) \subseteq RepoMatches(head)
  BY <1>1, NextInOrder
<1> HIDE DEF both
<1>4. max # None /\ max \in Nat /\ max <= Len(both)
  BY <1>1, <1>2, <1>3, CapIsNumber DEF Capped
<1>5. StartOf(both, AllMatches)
  <2>1. ToSet(both) \subseteq AllMatches
    <3>1. 1 .. head - 1 \subseteq Repos
      BY <1>1, Bounds DEF Repos
    <3>2. \A r \in Repos : RepoMatches(r) \subseteq AllMatches
      BY DEF AllMatches, RepoMatches, ReadTo
    <3> QED BY <1>1, <1>3, <3>1, <3>2 DEF Earlier
  <2>2. ASSUME NEW m \in AllMatches \ ToSet(both), NEW n \in ToSet(both) PROVE Before(n, m)
    <3>1. PICK r \in Repos : m \in RepoMatches(r)
      BY DEF AllMatches, RepoMatches, ReadTo
    <3>2. ~ (r \in 1 .. head - 1)
      BY <1>3, <3>1 DEF Earlier
    <3>3. head <= r
      BY <1>1, <3>2, Bounds DEF Repos
    <3>4. CASE n \in Earlier(head)
      BY <1>1, <1>2, <3>1, <3>3, <3>4, RepoOrder
    <3>5. CASE n \in ToSet(hits[head]) /\ r # head
      <4>1. n[1] = head /\ m[1] = r
        BY <1>1, <1>2, <1>3, <3>1, <3>5, RepoMatch
      <4>2. head < r
        BY <1>1, <3>3, <3>5, Bounds DEF Repos
      <4> QED BY <4>1, <4>2 DEF Before
    <3>6. CASE n \in ToSet(hits[head]) /\ r = head
      <4>1. StartOf(hits[head], RepoMatches(head))
        BY <1>1, <1>2 DEF Running, HitsOK, HitsFit
      <4> QED BY <1>3, <3>1, <3>6, <4>1 DEF StartOf
    <3> QED BY <1>3, <3>4, <3>5, <3>6
  <2> QED BY <2>1, <2>2 DEF StartOf
<1>6. /\ Len(all') = max /\ Sorted(all') /\ StartOf(all', AllMatches)
  BY <1>1, <1>3, <1>4, <1>5, Truncated
<1>7. FirstOf(all', AllMatches, max)
  BY <1>4, <1>6 DEF FirstOf, Sorted, StartOf
<1>8. AnswerSettled'
  <2> SUFFICES ASSUME NEW m \in ToSet(all') PROVE m[1] \notin Walking
    BY <1>1 DEF AnswerSettled, Walking
  <2>1. m \in ToSet(both)
    <3>1. StartOf(both, ToSet(both))
      BY DEF StartOf
    <3>2. StartOf(all', ToSet(both))
      BY <1>1, <1>3, <1>4, <3>1, Truncated
    <3> QED BY <3>2 DEF StartOf
  <2>2. CASE m \in Earlier(head)
    <3>1. head \in 1 .. N + 1
      BY <1>1, Bounds DEF Repos
    <3> QED BY <1>1, <2>2, <3>1, EarlierSettled
  <2>3. CASE m \in RepoMatches(head)
    <3>1. m[1] = head
      BY <1>1, <1>2, <2>3, RepoMatch
    <3> QED BY <1>1, <3>1 DEF Walking
  <2> QED BY <1>3, <2>1, <2>2, <2>3
<1> QED BY <1>1, <1>2, <1>7, <1>8, Fixed DEF AInv

LEMMA ExhaustedAInv ==
    ASSUME IInv, AInv, Exhausted
    PROVE  AInv'
<1> USE NoneIsNothing
<1>1. /\ UNCHANGED <<tree, max, all, walk>>
      /\ outcome = None /\ head \notin Repos /\ outcome' = "ok"
  BY DEF Exhausted, DropAll, walkVars
<1>2. TypeOK /\ max \in Caps /\ Running
  BY <1>1 DEF IInv, AInv
<1>3. head = N + 1
  BY <1>1, <1>2, Bounds DEF TypeOK, Running, AllOK, AllFit, Repos
<1>4. ToSet(all) = AllMatches /\ Sorted(all) /\ (max # None => Len(all) <= max)
  BY <1>2, <1>3, AllIsEarlier DEF Running, AllOK, AllFit
<1>5. FirstOf(all, AllMatches, max)
  BY <1>4 DEF FirstOf, Sorted
<1>6. AnswerSettled'
  <2>1. \A m \in Earlier(head) : m[1] \notin Walking
    BY <1>1, <1>3, EarlierSettled, Bounds
  <2> QED BY <1>1, <1>2, <2>1 DEF AnswerSettled, Walking, Running, AllOK, AllFit
<1> QED BY <1>1, <1>2, <1>5, <1>6, Fixed DEF AInv

-----------------------------------------------------------------------------
\* Once the search has ended, nothing touches the answer.
LEMMA EndedAInv ==
    ASSUME AInv, outcome' # None, UNCHANGED <<tree, max, all>>, Walking' \subseteq Walking,
           outcome' = "ok" => outcome = "ok"
    PROVE  AInv'
BY Fixed DEF AInv, AnswerIsFirstMatches, AnswerSettled

\* A file that is taken changes neither what its walk has read nor what is in the answer.
LEMMA ReclaimAInv ==
    ASSUME IInv, AInv, NEW r \in Repos, NEW f \in 1 .. Len(tree[r]), Reclaim(r, f)
    PROVE  AInv'
<1> USE NoneIsNothing
<1>1. /\ UNCHANGED <<max, head, fut, cancelled, walk, file, hits, all, outcome>>
      /\ r \in Walking /\ f \in file[r] + 1 .. Len(tree[r])
  BY DEF Reclaim, futVars, walkVars
<1>2. /\ \A q \in Repos : Len(tree'[q]) = Len(tree[q])
      /\ \A q \in Repos \ {r} : tree'[q] = tree[q]
      /\ tree'[r][f] \in {0, Bad}
      /\ \A g \in 1 .. Len(tree[r]) : g # f => tree'[r][g] = tree[r][g]
  BY <1>1, TreeTaken DEF IInv
<1>3. /\ TypeOK /\ LocalsOK /\ max \in Caps /\ (outcome = None => Running)
      /\ file[r] \in Nat /\ Len(tree[r]) \in Nat /\ file[r] <= Len(tree[r])
  BY DEF IInv, AInv, TypeOK, LocalsOK
<1>4. ASSUME NEW q \in Repos \ {r} PROVE RepoMatches(q)' = RepoMatches(q)
  BY <1>2 DEF RepoMatches, ReadTo, FileMatches
<1>5. ASSUME NEW q \in Repos \ {r}, NEW n PROVE ReadTo(q, n)' = ReadTo(q, n)
  BY <1>2 DEF ReadTo, FileMatches
<1>6. ReadTo(r, file[r])' = ReadTo(r, file[r])
  <2>1. \A g \in 1 .. file[r] : g # f /\ g \in 1 .. Len(tree[r])
    BY <1>1, <1>3
  <2>2. \A g \in 1 .. file[r] : tree'[r][g] = tree[r][g]
    BY <1>2, <2>1
  <2> QED BY <1>1, <2>2 DEF ReadTo, FileMatches
<1>7. CASE outcome = None
  <2>1. Running /\ fut[r] = "walking"
    BY <1>1, <1>3, <1>7 DEF IInv, Bracketed
  <2>2. ASSUME NEW q \in Repos PROVE HitsOK(q)'
    <3>1. HitsFit(q, walk[q], file[q], hits[q])
      BY <2>1 DEF Running, HitsOK
    <3>2. CASE q = r
      BY <1>1, <1>6, <3>1, <3>2 DEF HitsOK, HitsFit, Walking, Limit
    <3>3. CASE q # r
      BY <1>1, <1>4, <1>5, <3>1, <3>3 DEF HitsOK, HitsFit, Limit
    <3> QED BY <3>2, <3>3
  <2>3. AllOK'
    <3>1. AllFit(head, all)
      BY <2>1 DEF Running, AllOK
    <3>2. \A q \in 1 .. head - 1 : q \in Repos \ {r}
      <4>1. ~ (r < head)
        BY <2>1 DEF IInv, Yielded
      <4> QED BY <1>3, <3>1, <4>1, Bounds DEF AllFit, TypeOK, Repos
    <3>3. Earlier(head)' = Earlier(head)
      BY <1>1, <1>4, <3>2 DEF Earlier
    <3> QED BY <1>1, <3>1, <3>3 DEF AllOK, AllFit
  <2>4. Running'
    BY <1>1, <2>1, <2>2, <2>3 DEF Running
  <2> QED BY <1>1, <1>3, <1>7, <2>4 DEF AInv, AnswerIsFirstMatches, AnswerSettled
<1>8. CASE outcome = "ok"
  <2>1. FirstOf(all, AllMatches, max) /\ \A m \in ToSet(all) : m[1] # r
    BY <1>1, <1>8 DEF AInv, AnswerIsFirstMatches, AnswerSettled
  <2>2. ToSet(all) \subseteq AllMatches'
    <3> SUFFICES ASSUME NEW m \in ToSet(all) PROVE m \in AllMatches'
      OBVIOUS
    <3>1. PICK q \in Repos : m \in RepoMatches(q)
      BY <2>1 DEF FirstOf, AllMatches, RepoMatches, ReadTo
    <3>2. q # r
      BY <1>3, <2>1, <3>1, RepoMatch
    <3>3. m \in RepoMatches(q)'
      BY <1>4, <3>1, <3>2
    <3> QED BY <3>3 DEF AllMatches, RepoMatches, ReadTo
  <2>3. AllMatches' \subseteq AllMatches
    <3>1. \A q \in Repos : \A g \in 1 .. Len(tree[q]) :
              tree'[q][g] = tree[q][g] \/ (q = r /\ g = f /\ tree'[q][g] \in {0, Bad})
      BY <1>2
    <3>2. \A q \in Repos : \A g \in 1 .. Len(tree[q]) : FileMatches(q, g)' \subseteq FileMatches(q, g)
      BY <3>1 DEF FileMatches
    <3> QED BY <1>2, <3>2 DEF AllMatches
  <2>4. FirstOf(all, AllMatches', max)
    BY <2>1, <2>2, <2>3 DEF FirstOf
  <2>5. AnswerIsFirstMatches'
    BY <1>1, <2>4 DEF AnswerIsFirstMatches, FirstOf
  <2> QED BY <1>1, <1>3, <1>8, <2>1, <2>5 DEF AInv, AnswerSettled, Walking
<1>9. CASE outcome \notin {None, "ok"}
  BY <1>1, <1>3, <1>9 DEF AInv, AnswerIsFirstMatches, AnswerSettled
<1> QED BY <1>7, <1>8, <1>9

LEMMA NextAInv == IInv /\ AInv /\ [Next]_vars => AInv'
<1> SUFFICES ASSUME IInv, AInv, [Next]_vars PROVE AInv'
  OBVIOUS
<1>1. ASSUME NEW r \in Repos, Start(r) \/ Finish(r) PROVE AInv'
  BY <1>1, StartAInv, FinishAInv
<1>2. CASE Yield
  BY <1>2, YieldAInv
<1>3. CASE YieldLast
  BY <1>3, YieldLastAInv
<1>4. CASE Exhausted
  BY <1>4, ExhaustedAInv
<1>5. CASE YieldError \/ HangUp
  BY <1>5, EndedAInv, NoneIsNothing DEF YieldError, HangUp, DropAll, walkVars, Walking
<1>6. ASSUME NEW r \in Repos, WalkStep(r), outcome = None PROVE AInv'
  BY <1>6, PollAInv, ReadFileAInv DEF WalkStep
<1>7. ASSUME NEW r \in Repos, WalkStep(r), outcome # None PROVE AInv'
  <2>1. UNCHANGED <<tree, max, all, outcome>>
    BY <1>7 DEF WalkStep, Poll, ReadFile, WalkRest
  <2>2. r \in Walking /\ \E l : walk' = [walk EXCEPT ![r] = l]
    BY <1>7 DEF WalkStep, Poll, ReadFile, WalkGoto, Walking
  <2>3. Walking' \subseteq Walking
    BY <2>2 DEF Walking, IInv, TypeOK
  <2> QED BY <1>7, <2>1, <2>3, EndedAInv
<1>8. ASSUME NEW r \in Repos, NEW f \in 1 .. Len(tree[r]), Reclaim(r, f) PROVE AInv'
  BY <1>8, ReclaimAInv
<1>9. CASE UNCHANGED vars
  BY <1>9 DEF AInv, Running, HitsOK, HitsFit, AllOK, AllFit, AnswerIsFirstMatches, FirstOf,
              AllMatches, AnswerSettled, Walking, StartOf, RepoMatches, ReadTo, Earlier,
              FileMatches, Limit, vars, futVars, walkVars
<1> QED BY <1>1, <1>2, <1>3, <1>4, <1>5, <1>6, <1>7, <1>8, <1>9 DEF Next, SearchStep

\* While a search runs, every walk and the answer hold the first matches of what they
\* have looked at.
THEOREM MatchesInvariance == Spec => []AInv
BY Invariance, InitAInv, NextAInv, PTL DEF Spec

\* The answer of a search is the first matches of every repository in id order, as many
\* as the cap allows, whatever order the walks run and end in.
THEOREM FirstMatchesAnswered == Spec => []AnswerIsFirstMatches
BY MatchesInvariance, PTL DEF AInv

=============================================================================
