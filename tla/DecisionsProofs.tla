---------------------------- MODULE DecisionsProofs ----------------------------
(***************************************************************************)
(* What the functions behind the questions of Decisions promise.           *)
(*                                                                         *)
(* Patterns (governance_check.py), for all patterns and paths: an overlap  *)
(* is never missed, and a pattern without globstars that is covered        *)
(* matches nothing outside its owner.  matches and patterns_may_overlap    *)
(* recur on a pair of places: the table they look their answers up in is   *)
(* shown to exist, and the rest is by the smallest counterexample,         *)
(* measured by how much is left to walk.                                   *)
(*                                                                         *)
(* Graphs (governance_check.py, remediation_intent.py,                     *)
(* ticket-readiness.mjs), of any size: a search is a loop over its state.  *)
(* A loop has an answer whatever it does (LoopExists); one whose steps     *)
(* keep an invariant and make a measure smaller comes to an end in which   *)
(* the invariant holds (LoopEnds).                                         *)
(***************************************************************************)
EXTENDS PathPatterns, DependencyOrder, SequenceTheorems, FiniteSetTheorems, WellFoundedInduction, TLAPS

\* Every set of numbers has a smallest member.
LEMMA Smallest ==
  ASSUME NEW S, S \subseteq Nat, S # {}
  PROVE  \E x \in S : \A y \in S : x <= y
<1> DEFINE R == OpToRel(<, Nat)
<1>1. PICK x \in S : \A y \in S : ~(<<y, x>> \in R)
  BY WFMin, NatLessThanWellFounded
<1>2. \A y \in S : x <= y
  <2> SUFFICES ASSUME NEW y \in S PROVE x <= y
    OBVIOUS
  <2>1. x \in Nat /\ y \in Nat
    OBVIOUS
  <2>2. <<y, x>> \in R <=> y < x
    BY <2>1 DEF OpToRel
  <2>3. ~(<<y, x>> \in R)
    BY <1>1
  <2> HIDE DEF R
  <2> QED BY <2>1, <2>2, <2>3
<1> QED BY <1>2

\* A prefix agrees place by place from the front, a suffix from the back.
LEMMA PrefixIs ==
  ASSUME NEW L, NEW s \in Seq(L), NEW t \in Seq(L)
  PROVE  IsPrefix(s, t) <=> Len(s) <= Len(t) /\ \A i \in 1..Len(s) : s[i] = t[i]
<1>0. Len(s) \in Nat /\ Len(t) \in Nat /\ 1 \in Int /\ Len(s) \in Int
  OBVIOUS
<1>1. SubSeq(s, 1, Len(s)) = s
  BY SubSeqFull
<1>2. ASSUME Len(s) <= Len(t)
      PROVE  /\ SubSeq(t, 1, Len(s)) \in Seq(L) /\ Len(SubSeq(t, 1, Len(s))) = Len(s)
             /\ \A i \in 1..Len(s) : SubSeq(t, 1, Len(s))[i] = t[i]
  <2>1. \A i \in 1..Len(s) : i \in 1..Len(t) /\ t[i] \in L
    BY <1>0, <1>2
  <2> QED BY <1>0, <1>2, <2>1
<1>3. ASSUME Len(s) <= Len(t), \A i \in 1..Len(s) : s[i] = t[i]
      PROVE  s = SubSeq(t, 1, Len(s))
  <2>1. /\ SubSeq(t, 1, Len(s)) \in Seq(L) /\ Len(SubSeq(t, 1, Len(s))) = Len(s)
        /\ \A i \in 1..Len(s) : SubSeq(t, 1, Len(s))[i] = s[i]
    BY <1>2, <1>3
  <2> QED BY <1>0, <2>1
<1> QED BY <1>0, <1>1, <1>2, <1>3 DEF IsPrefix

LEMMA SuffixIs ==
  ASSUME NEW L, NEW s \in Seq(L), NEW t \in Seq(L)
  PROVE  IsSuffix(s, t) <=> /\ Len(s) <= Len(t)
                            /\ \A i \in 1..Len(s) : s[Len(s) - i + 1] = t[Len(t) - i + 1]
<1>0. Len(s) \in Nat /\ Len(t) \in Nat
  OBVIOUS
<1>1. /\ Reverse(s) \in Seq(L) /\ Len(Reverse(s)) = Len(s)
      /\ \A i \in 1..Len(s) : Reverse(s)[i] = s[(Len(s) - i) + 1]
  BY <1>0 DEF Reverse
<1>2. /\ Reverse(t) \in Seq(L) /\ Len(Reverse(t)) = Len(t)
      /\ \A i \in 1..Len(t) : Reverse(t)[i] = t[(Len(t) - i) + 1]
  BY <1>0 DEF Reverse
<1>3. IsSuffix(s, t) <=> Len(s) <= Len(t) /\ \A i \in 1..Len(s) : Reverse(s)[i] = Reverse(t)[i]
  BY <1>1, <1>2, PrefixIs DEF IsSuffix
<1>4. Len(s) <= Len(t) => \A i \in 1..Len(s) : i \in 1..Len(t)
  BY <1>0
<1> QED BY <1>1, <1>2, <1>3, <1>4

\* Every name begins and ends with nothing.
LEMMA AnythingIsEmptyAround ==
  ASSUME NEW L, NEW n \in Seq(L)
  PROVE  IsPrefix(<<>>, n) /\ IsSuffix(<<>>, n) /\ Len(n) >= Len(<<>>) + Len(<<>>)
<1>1. <<>> \in Seq(L) /\ Len(<<>>) = 0 /\ Len(n) \in Nat
  OBVIOUS
<1>2. IsPrefix(<<>>, n)
  <2>1. Len(<<>>) <= Len(n) /\ \A i \in 1..Len(<<>>) : <<>>[i] = n[i]
    BY <1>1
  <2> QED BY <1>1, <2>1, PrefixIs
<1>3. IsSuffix(<<>>, n)
  <2>1. Len(<<>>) <= Len(n)
        /\ \A i \in 1..Len(<<>>) : <<>>[Len(<<>>) - i + 1] = n[Len(n) - i + 1]
    BY <1>1
  <2> QED BY <1>1, <2>1, SuffixIs
<1> QED BY <1>1, <1>2, <1>3

-----------------------------------------------------------------------------
(* Part 1: names and segments.                                             *)

\* The parts of a segment.
LEMMA SegmentHas ==
  ASSUME NEW L, NEW s \in Segments(L)
  PROVE  /\ s.pre \in Seq(L) /\ s.suf \in Seq(L) /\ s.stars \in 0..2
         /\ (s.stars = 2 => s = Globstar) /\ Len(s.pre) \in Nat /\ Len(s.suf) \in Nat
BY DEF Segments

\* Two segments that one name matches may overlap.
LEMMA SharedNamesOverlap ==
  ASSUME NEW L, NEW n \in Seq(L), NEW s \in Segments(L), NEW t \in Segments(L),
         NameMatches(n, s), NameMatches(n, t)
  PROVE  SegmentsMayOverlap(s, t)
<1>0. /\ s.pre \in Seq(L) /\ s.suf \in Seq(L) /\ Len(s.pre) \in Nat /\ Len(s.suf) \in Nat
      /\ t.pre \in Seq(L) /\ t.suf \in Seq(L) /\ Len(t.pre) \in Nat /\ Len(t.suf) \in Nat
      /\ Len(n) \in Nat
  BY SegmentHas
<1>1. CASE ~Magic(s)
  BY <1>1 DEF NameMatches, SegmentsMayOverlap
<1>2. CASE Magic(s) /\ ~Magic(t)
  BY <1>2 DEF NameMatches, SegmentsMayOverlap
<1>3. CASE Magic(s) /\ Magic(t)
  <2>1. IsPrefix(s.pre, n) /\ IsSuffix(s.suf, n) /\ IsPrefix(t.pre, n) /\ IsSuffix(t.suf, n)
    BY <1>3 DEF NameMatches
  <2>2. \A a, b \in Seq(L) :
          IsPrefix(a, n) /\ IsPrefix(b, n) /\ Len(a) <= Len(b) => IsPrefix(a, b)
    <3> SUFFICES ASSUME NEW a \in Seq(L), NEW b \in Seq(L), IsPrefix(a, n), IsPrefix(b, n),
                        Len(a) <= Len(b)
                 PROVE  IsPrefix(a, b)
      OBVIOUS
    <3>1. Len(a) \in Nat /\ Len(b) \in Nat
      OBVIOUS
    <3>2. \A i \in 1..Len(a) : i \in 1..Len(b) /\ a[i] = n[i] /\ b[i] = n[i]
      BY <3>1, PrefixIs
    <3> QED BY <3>2, PrefixIs
  <2>3. \A a, b \in Seq(L) :
          IsSuffix(a, n) /\ IsSuffix(b, n) /\ Len(a) <= Len(b) => IsSuffix(a, b)
    <3> SUFFICES ASSUME NEW a \in Seq(L), NEW b \in Seq(L), IsSuffix(a, n), IsSuffix(b, n),
                        Len(a) <= Len(b)
                 PROVE  IsSuffix(a, b)
      OBVIOUS
    <3>1. Len(a) \in Nat /\ Len(b) \in Nat
      OBVIOUS
    <3>2. \A i \in 1..Len(a) : a[Len(a) - i + 1] = n[Len(n) - i + 1]
      BY SuffixIs
    <3>3. \A i \in 1..Len(b) : b[Len(b) - i + 1] = n[Len(n) - i + 1]
      BY SuffixIs
    <3>4. \A i \in 1..Len(a) : i \in 1..Len(b)
      BY <3>1
    <3>5. \A i \in 1..Len(a) : a[Len(a) - i + 1] = b[Len(b) - i + 1]
      BY <3>2, <3>3, <3>4
    <3> QED BY <3>5, SuffixIs
  <2>4. IsPrefix(s.pre, t.pre) \/ IsPrefix(t.pre, s.pre)
    BY <1>0, <2>1, <2>2
  <2>5. IsSuffix(s.suf, t.suf) \/ IsSuffix(t.suf, s.suf)
    BY <1>0, <2>1, <2>3
  <2> QED BY <1>3, <2>4, <2>5 DEF SegmentsMayOverlap
<1> QED BY <1>1, <1>2, <1>3

LEMMA SegmentsOverlapBothWays ==
  ASSUME NEW s, NEW t
  PROVE  SegmentsMayOverlap(s, t) <=> SegmentsMayOverlap(t, s)
<1>1. CASE ~Magic(s) /\ ~Magic(t)
  BY <1>1 DEF NameMatches, SegmentsMayOverlap
<1>2. CASE ~Magic(s) /\ Magic(t)
  BY <1>2 DEF SegmentsMayOverlap
<1>3. CASE Magic(s) /\ ~Magic(t)
  BY <1>3 DEF SegmentsMayOverlap
<1>4. CASE Magic(s) /\ Magic(t)
  BY <1>4 DEF SegmentsMayOverlap
<1> QED BY <1>1, <1>2, <1>3, <1>4

\* A name matches every segment that its own is covered by.
LEMMA CoveredNamesMatch ==
  ASSUME NEW L, NEW n \in Seq(L), NEW s \in Segments(L), NEW t \in Segments(L),
         SegmentCoveredBy(s, t), NameMatches(n, s)
  PROVE  NameMatches(n, t)
<1>0. /\ s.pre \in Seq(L) /\ s.suf \in Seq(L) /\ Len(s.pre) \in Nat /\ Len(s.suf) \in Nat
      /\ t.pre \in Seq(L) /\ t.suf \in Seq(L) /\ Len(t.pre) \in Nat /\ Len(t.suf) \in Nat
      /\ Len(n) \in Nat
  BY SegmentHas
<1>1. CASE s = t
  BY <1>1
<1>2. CASE ~Magic(s) /\ NameMatches(s.pre, t)
  BY <1>2 DEF NameMatches
<1>3. CASE t = Glob(<<>>, <<>>)
  <2>1. t.pre = <<>> /\ t.suf = <<>> /\ Magic(t)
    BY <1>3 DEF Glob, Magic
  <2>2. IsPrefix(t.pre, n) /\ IsSuffix(t.suf, n) /\ Len(n) >= Len(t.pre) + Len(t.suf)
    BY <2>1, AnythingIsEmptyAround
  <2> QED BY <2>1, <2>2 DEF NameMatches
<1>4. CASE /\ Magic(s) /\ t.stars = 1
           /\ IsPrefix(t.pre, s.pre) /\ IsSuffix(t.suf, s.suf)
  <2>1. IsPrefix(s.pre, n) /\ IsSuffix(s.suf, n) /\ Len(n) >= Len(s.pre) + Len(s.suf)
    BY <1>4 DEF NameMatches
  <2>2. IsPrefix(t.pre, n) /\ Len(t.pre) <= Len(s.pre)
    <3>1. Len(t.pre) <= Len(s.pre) /\ Len(s.pre) <= Len(n)
      BY <1>0, <1>4, <2>1, PrefixIs
    <3>2. \A i \in 1..Len(t.pre) : i \in 1..Len(s.pre) /\ t.pre[i] = s.pre[i]
      BY <1>0, <1>4, <3>1, PrefixIs
    <3>3. \A i \in 1..Len(s.pre) : s.pre[i] = n[i]
      BY <1>0, <2>1, PrefixIs
    <3>4. Len(t.pre) <= Len(n) /\ \A i \in 1..Len(t.pre) : t.pre[i] = n[i]
      BY <1>0, <3>1, <3>2, <3>3
    <3> QED BY <1>0, <3>1, <3>4, PrefixIs
  <2>3. IsSuffix(t.suf, n) /\ Len(t.suf) <= Len(s.suf)
    <3>1. Len(t.suf) <= Len(s.suf) /\ Len(s.suf) <= Len(n)
      BY <1>0, <1>4, <2>1, SuffixIs
    <3>2. \A i \in 1..Len(t.suf) :
            i \in 1..Len(s.suf) /\ t.suf[Len(t.suf) - i + 1] = s.suf[Len(s.suf) - i + 1]
      BY <1>0, <1>4, <3>1, SuffixIs
    <3>3. \A i \in 1..Len(s.suf) : s.suf[Len(s.suf) - i + 1] = n[Len(n) - i + 1]
      BY <1>0, <2>1, SuffixIs
    <3>4. /\ Len(t.suf) <= Len(n)
          /\ \A i \in 1..Len(t.suf) : t.suf[Len(t.suf) - i + 1] = n[Len(n) - i + 1]
      BY <1>0, <3>1, <3>2, <3>3
    <3> QED BY <1>0, <3>1, <3>4, SuffixIs
  <2>4. Len(n) >= Len(t.pre) + Len(t.suf)
    <3>1. /\ Len(n) >= Len(s.pre) + Len(s.suf)
          /\ Len(t.pre) <= Len(s.pre) /\ Len(t.suf) <= Len(s.suf)
      BY <2>1, <2>2, <2>3
    <3>2. \A a, b, c, d, e \in Nat : a >= b + c /\ d <= b /\ e <= c => a >= d + e
      OBVIOUS
    <3> QED BY ONLY <1>0, <3>1, <3>2
  <2>5. Magic(t)
    BY <1>4 DEF Magic
  <2> QED BY <2>2, <2>3, <2>4, <2>5 DEF NameMatches
<1> QED BY <1>1, <1>2, <1>3, <1>4 DEF SegmentCoveredBy

LEMMA GlobstarMatchesNames ==
  ASSUME NEW L, NEW n \in Seq(L)
  PROVE  NameMatches(n, Globstar)
<1>1. Globstar.pre = <<>> /\ Globstar.suf = <<>> /\ Magic(Globstar)
  BY DEF Globstar, Magic
<1>2. IsPrefix(<<>>, n) /\ IsSuffix(<<>>, n) /\ Len(n) >= Len(<<>>) + Len(<<>>)
  BY AnythingIsEmptyAround
<1> QED BY <1>1, <1>2 DEF NameMatches

-----------------------------------------------------------------------------
(* Part 2: the tables.                                                     *)

\* What matches looks up at a place of its table, and the table it fills.
MatchedFrom(path, pattern, table, i, j) ==
  IF j > Len(pattern) THEN i > Len(path)
  ELSE IF pattern[j] = Globstar
       THEN table[<<i, j + 1>>] \/ (i <= Len(path) /\ table[<<i + 1, j>>])
  ELSE i <= Len(path) /\ NameMatches(path[i], pattern[j]) /\ table[<<i + 1, j + 1>>]

IsMatchTable(path, pattern, table) ==
  /\ table \in [Places(path, pattern) -> BOOLEAN]
  /\ \A i \in 1..Len(path) + 1, j \in 1..Len(pattern) + 1 :
       table[<<i, j>>] = MatchedFrom(path, pattern, table, i, j)

LEMMA MatchedIsBoolean ==
  ASSUME NEW path, NEW pattern, NEW table, NEW i, NEW j
  PROVE  MatchedFrom(path, pattern, table, i, j) \in BOOLEAN
<1>1. CASE j > Len(pattern)
  BY <1>1 DEF MatchedFrom
<1>2. CASE ~(j > Len(pattern)) /\ pattern[j] = Globstar
  BY <1>2 DEF MatchedFrom
<1>3. CASE ~(j > Len(pattern)) /\ pattern[j] # Globstar
  BY <1>3 DEF MatchedFrom
<1> QED BY <1>1, <1>2, <1>3

\* The table of matches exists: it is filled from its end.
LEMMA MatchTable ==
  ASSUME NEW L, NEW path \in Seq(L), NEW M, NEW pattern \in Seq(M)
  PROVE  \E table : /\ IsMatchTable(path, pattern, table)
                    /\ Matches(path, pattern) = table[<<1, 1>>]
<1> DEFINE P == Places(path, pattern)
           Weight(i, j) == (Len(path) + 1 - i) + (Len(pattern) + 1 - j)
           UpTo(n, v) == \A i \in 1..Len(path) + 1, j \in 1..Len(pattern) + 1 :
             Weight(i, j) < n => v[<<i, j>>] = MatchedFrom(path, pattern, v, i, j)
           Unfilled == {n \in Nat : ~ \E v \in [P -> BOOLEAN] : UpTo(n, v)}
           Filled(v) == [at \in P |-> MatchedFrom(path, pattern, v, at[1], at[2])]
<1>0. Len(path) \in Nat /\ Len(pattern) \in Nat
  OBVIOUS
<1>1. \A i \in 1..Len(path) + 1, j \in 1..Len(pattern) + 1 :
        <<i, j>> \in P /\ <<i, j>>[1] = i /\ <<i, j>>[2] = j
  BY DEF Places
<1>2. \A v \in [P -> BOOLEAN] : Filled(v) \in [P -> BOOLEAN]
  <2> SUFFICES ASSUME NEW v \in [P -> BOOLEAN], NEW at \in P
               PROVE  MatchedFrom(path, pattern, v, at[1], at[2]) \in BOOLEAN
    OBVIOUS
  <2> QED BY MatchedIsBoolean
<1>3. ASSUME NEW v \in [P -> BOOLEAN], NEW w \in [P -> BOOLEAN], NEW n \in Nat,
             \A i \in 1..Len(path) + 1, j \in 1..Len(pattern) + 1 :
               Weight(i, j) < n => v[<<i, j>>] = w[<<i, j>>],
             NEW i \in 1..Len(path) + 1, NEW j \in 1..Len(pattern) + 1, Weight(i, j) < n + 1
      PROVE  MatchedFrom(path, pattern, v, i, j) = MatchedFrom(path, pattern, w, i, j)
  <2>1. CASE j > Len(pattern)
    BY <2>1 DEF MatchedFrom
  <2>2. CASE j <= Len(pattern)
    <3>1. /\ j + 1 \in 1..Len(pattern) + 1 /\ Weight(i, j + 1) < n
          /\ i <= Len(path) => /\ i + 1 \in 1..Len(path) + 1
                               /\ Weight(i + 1, j) < n /\ Weight(i + 1, j + 1) < n
      BY <1>0, <1>3, <2>2
    <3> HIDE DEF Weight
    <3>2. v[<<i, j + 1>>] = w[<<i, j + 1>>]
      BY <1>3, <3>1
    <3>3. i <= Len(path) => /\ v[<<i + 1, j>>] = w[<<i + 1, j>>]
                            /\ v[<<i + 1, j + 1>>] = w[<<i + 1, j + 1>>]
      BY <1>3, <3>1
    <3> QED BY <1>0, <2>2, <3>2, <3>3 DEF MatchedFrom
  <2> QED BY <1>0, <2>1, <2>2
<1>4. ASSUME NEW n \in Nat, NEW v \in [P -> BOOLEAN], UpTo(n, v)
      PROVE  UpTo(n + 1, Filled(v))
  <2>1. \A i \in 1..Len(path) + 1, j \in 1..Len(pattern) + 1 :
          Filled(v)[<<i, j>>] = MatchedFrom(path, pattern, v, i, j)
    BY <1>1
  <2>2. \A i \in 1..Len(path) + 1, j \in 1..Len(pattern) + 1 :
          Weight(i, j) < n => v[<<i, j>>] = Filled(v)[<<i, j>>]
    BY <1>4, <2>1
  <2> HIDE DEF Filled, Weight
  <2>3. \A i \in 1..Len(path) + 1, j \in 1..Len(pattern) + 1 :
          Weight(i, j) < n + 1 =>
            MatchedFrom(path, pattern, v, i, j) = MatchedFrom(path, pattern, Filled(v), i, j)
    BY <1>2, <1>3, <2>2
  <2> QED BY <2>1, <2>3
<1>5. Unfilled = {}
  <2> SUFFICES ASSUME Unfilled # {} PROVE FALSE
    OBVIOUS
  <2>1. Unfilled \subseteq Nat
    OBVIOUS
  <2>2. PICK n \in Unfilled : \A m \in Unfilled : n <= m
    <3> HIDE DEF Unfilled
    <3> QED BY <2>1, Smallest
  <2>3. n # 0
    <3>1. \A i \in 1..Len(path) + 1, j \in 1..Len(pattern) + 1 : ~(Weight(i, j) < 0)
      BY <1>0
    <3>2. [at \in P |-> TRUE] \in [P -> BOOLEAN]
      OBVIOUS
    <3> HIDE DEF Weight
    <3>3. UpTo(0, [at \in P |-> TRUE])
      BY <3>1
    <3> HIDE DEF UpTo
    <3> QED BY <3>2, <3>3
  <2>4. n - 1 \in Nat /\ n - 1 \notin Unfilled /\ (n - 1) + 1 = n
    <3> HIDE DEF Unfilled
    <3> QED BY <2>1, <2>2, <2>3
  <2>5. PICK v \in [P -> BOOLEAN] : UpTo(n - 1, v)
    BY <2>4
  <2> HIDE DEF UpTo, Filled
  <2>6. UpTo(n, Filled(v)) /\ Filled(v) \in [P -> BOOLEAN]
    BY <1>2, <1>4, <2>4, <2>5
  <2> QED BY <2>6
<1>6. PICK v \in [P -> BOOLEAN] : UpTo(Len(path) + Len(pattern) + 1, v)
  <2>1. Len(path) + Len(pattern) + 1 \in Nat
    BY <1>0
  <2> HIDE DEF UpTo
  <2> QED BY <1>5, <2>1
<1>7. \A i \in 1..Len(path) + 1, j \in 1..Len(pattern) + 1 :
        v[<<i, j>>] = MatchedFrom(path, pattern, v, i, j)
  <2>1. \A i \in 1..Len(path) + 1, j \in 1..Len(pattern) + 1 :
          Weight(i, j) < Len(path) + Len(pattern) + 1
    BY <1>0
  <2> HIDE DEF Weight
  <2> QED BY <1>6, <2>1
<1>8. v = Filled(v)
  <2>1. \A at \in P : \E i \in 1..Len(path) + 1, j \in 1..Len(pattern) + 1 : at = <<i, j>>
    BY DEF Places
  <2>2. \A at \in P : v[at] = MatchedFrom(path, pattern, v, at[1], at[2])
    BY <1>1, <1>7, <2>1
  <2> QED BY <2>2
<1> DEFINE table == CHOOSE x : x = Filled(x)
<1>9. table = Filled(table)
  <2> HIDE DEF Filled
  <2> QED BY <1>8
<1>10. Matches(path, pattern) = table[<<1, 1>>]
  BY DEF Matches, MatchedFrom
<1> HIDE DEF table
<1>11. table \in [P -> BOOLEAN]
  <2>1. \A at \in P : MatchedFrom(path, pattern, table, at[1], at[2]) \in BOOLEAN
    BY MatchedIsBoolean
  <2> QED BY <1>9, <2>1
<1>12. \A i \in 1..Len(path) + 1, j \in 1..Len(pattern) + 1 :
        table[<<i, j>>] = MatchedFrom(path, pattern, table, i, j)
  <2>1. \A at \in P : table[at] = MatchedFrom(path, pattern, table, at[1], at[2])
    BY <1>9
  <2> SUFFICES ASSUME NEW i \in 1..Len(path) + 1, NEW j \in 1..Len(pattern) + 1
               PROVE  table[<<i, j>>] = MatchedFrom(path, pattern, table, i, j)
    OBVIOUS
  <2>2. <<i, j>> \in P
    BY <1>1
  <2>3. table[<<i, j>>] = MatchedFrom(path, pattern, table, <<i, j>>[1], <<i, j>>[2])
    BY <2>1, <2>2
  <2> QED BY <2>3
<1> QED BY <1>10, <1>11, <1>12 DEF IsMatchTable

\* What patterns_may_overlap looks up at a place of its table, and the table it fills.
Remaining(r, k) == \A i \in k..Len(r) : r[i] = Globstar

OverlapFrom(p, q, table, i, j) ==
  IF i > Len(p) THEN Remaining(q, j)
  ELSE IF j > Len(q) THEN Remaining(p, i)
  ELSE IF p[i] = Globstar \/ q[j] = Globstar
       THEN table[<<i + 1, j>>] \/ table[<<i, j + 1>>]
  ELSE SegmentsMayOverlap(p[i], q[j]) /\ table[<<i + 1, j + 1>>]

IsOverlapTable(p, q, table) ==
  /\ table \in [Places(p, q) -> BOOLEAN]
  /\ \A i \in 1..Len(p) + 1, j \in 1..Len(q) + 1 :
       table[<<i, j>>] = OverlapFrom(p, q, table, i, j)

LEMMA OverlapIsBoolean ==
  ASSUME NEW p, NEW q, NEW table, NEW i, NEW j
  PROVE  OverlapFrom(p, q, table, i, j) \in BOOLEAN
<1>1. CASE i > Len(p)
  BY <1>1 DEF OverlapFrom, Remaining
<1>2. CASE ~(i > Len(p)) /\ j > Len(q)
  BY <1>2 DEF OverlapFrom, Remaining
<1>3. CASE ~(i > Len(p)) /\ ~(j > Len(q)) /\ (p[i] = Globstar \/ q[j] = Globstar)
  BY <1>3 DEF OverlapFrom
<1>4. CASE ~(i > Len(p)) /\ ~(j > Len(q)) /\ ~(p[i] = Globstar \/ q[j] = Globstar)
  BY <1>4 DEF OverlapFrom
<1> QED BY <1>1, <1>2, <1>3, <1>4

\* So does the table of overlaps.
LEMMA OverlapTable ==
  ASSUME NEW L, NEW p \in Seq(L), NEW M, NEW q \in Seq(M)
  PROVE  \E table : /\ IsOverlapTable(p, q, table)
                    /\ PatternsMayOverlap(p, q) = table[<<1, 1>>]
<1> DEFINE P == Places(p, q)
           Weight(i, j) == (Len(p) + 1 - i) + (Len(q) + 1 - j)
           UpTo(n, v) == \A i \in 1..Len(p) + 1, j \in 1..Len(q) + 1 :
             Weight(i, j) < n => v[<<i, j>>] = OverlapFrom(p, q, v, i, j)
           Unfilled == {n \in Nat : ~ \E v \in [P -> BOOLEAN] : UpTo(n, v)}
           Filled(v) == [at \in P |-> OverlapFrom(p, q, v, at[1], at[2])]
<1>0. Len(p) \in Nat /\ Len(q) \in Nat
  OBVIOUS
<1>1. \A i \in 1..Len(p) + 1, j \in 1..Len(q) + 1 :
        <<i, j>> \in P /\ <<i, j>>[1] = i /\ <<i, j>>[2] = j
  BY DEF Places
<1>2. \A v \in [P -> BOOLEAN] : Filled(v) \in [P -> BOOLEAN]
  <2> SUFFICES ASSUME NEW v \in [P -> BOOLEAN], NEW at \in P
               PROVE  OverlapFrom(p, q, v, at[1], at[2]) \in BOOLEAN
    OBVIOUS
  <2> QED BY OverlapIsBoolean
<1>3. ASSUME NEW v \in [P -> BOOLEAN], NEW w \in [P -> BOOLEAN], NEW n \in Nat,
             \A i \in 1..Len(p) + 1, j \in 1..Len(q) + 1 :
               Weight(i, j) < n => v[<<i, j>>] = w[<<i, j>>],
             NEW i \in 1..Len(p) + 1, NEW j \in 1..Len(q) + 1, Weight(i, j) < n + 1
      PROVE  OverlapFrom(p, q, v, i, j) = OverlapFrom(p, q, w, i, j)
  <2>1. CASE i > Len(p) \/ j > Len(q)
    BY <2>1 DEF OverlapFrom
  <2>2. CASE i <= Len(p) /\ j <= Len(q)
    <3>1. /\ i + 1 \in 1..Len(p) + 1 /\ j + 1 \in 1..Len(q) + 1
          /\ Weight(i, j + 1) < n /\ Weight(i + 1, j) < n /\ Weight(i + 1, j + 1) < n
      BY <1>0, <1>3, <2>2
    <3> HIDE DEF Weight
    <3>2. /\ v[<<i, j + 1>>] = w[<<i, j + 1>>] /\ v[<<i + 1, j>>] = w[<<i + 1, j>>]
          /\ v[<<i + 1, j + 1>>] = w[<<i + 1, j + 1>>]
      BY <1>3, <3>1
    <3> QED BY <2>2, <3>2 DEF OverlapFrom
  <2> QED BY <1>0, <2>1, <2>2
<1>4. ASSUME NEW n \in Nat, NEW v \in [P -> BOOLEAN], UpTo(n, v)
      PROVE  UpTo(n + 1, Filled(v))
  <2>1. \A i \in 1..Len(p) + 1, j \in 1..Len(q) + 1 :
          Filled(v)[<<i, j>>] = OverlapFrom(p, q, v, i, j)
    BY <1>1
  <2>2. \A i \in 1..Len(p) + 1, j \in 1..Len(q) + 1 :
          Weight(i, j) < n => v[<<i, j>>] = Filled(v)[<<i, j>>]
    BY <1>4, <2>1
  <2> HIDE DEF Filled, Weight
  <2>3. \A i \in 1..Len(p) + 1, j \in 1..Len(q) + 1 :
          Weight(i, j) < n + 1 =>
            OverlapFrom(p, q, v, i, j) = OverlapFrom(p, q, Filled(v), i, j)
    BY <1>2, <1>3, <2>2
  <2> QED BY <2>1, <2>3
<1>5. Unfilled = {}
  <2> SUFFICES ASSUME Unfilled # {} PROVE FALSE
    OBVIOUS
  <2>1. Unfilled \subseteq Nat
    OBVIOUS
  <2>2. PICK n \in Unfilled : \A m \in Unfilled : n <= m
    <3> HIDE DEF Unfilled
    <3> QED BY <2>1, Smallest
  <2>3. n # 0
    <3>1. \A i \in 1..Len(p) + 1, j \in 1..Len(q) + 1 : ~(Weight(i, j) < 0)
      BY <1>0
    <3>2. [at \in P |-> TRUE] \in [P -> BOOLEAN]
      OBVIOUS
    <3> HIDE DEF Weight
    <3>3. UpTo(0, [at \in P |-> TRUE])
      BY <3>1
    <3> HIDE DEF UpTo
    <3> QED BY <3>2, <3>3
  <2>4. n - 1 \in Nat /\ n - 1 \notin Unfilled /\ (n - 1) + 1 = n
    <3> HIDE DEF Unfilled
    <3> QED BY <2>1, <2>2, <2>3
  <2>5. PICK v \in [P -> BOOLEAN] : UpTo(n - 1, v)
    BY <2>4
  <2> HIDE DEF UpTo, Filled
  <2>6. UpTo(n, Filled(v)) /\ Filled(v) \in [P -> BOOLEAN]
    BY <1>2, <1>4, <2>4, <2>5
  <2> QED BY <2>6
<1>6. PICK v \in [P -> BOOLEAN] : UpTo(Len(p) + Len(q) + 1, v)
  <2>1. Len(p) + Len(q) + 1 \in Nat
    BY <1>0
  <2> HIDE DEF UpTo
  <2> QED BY <1>5, <2>1
<1>7. \A i \in 1..Len(p) + 1, j \in 1..Len(q) + 1 :
        v[<<i, j>>] = OverlapFrom(p, q, v, i, j)
  <2>1. \A i \in 1..Len(p) + 1, j \in 1..Len(q) + 1 : Weight(i, j) < Len(p) + Len(q) + 1
    BY <1>0
  <2> HIDE DEF Weight
  <2> QED BY <1>6, <2>1
<1>8. v = Filled(v)
  <2>1. \A at \in P : \E i \in 1..Len(p) + 1, j \in 1..Len(q) + 1 : at = <<i, j>>
    BY DEF Places
  <2>2. \A at \in P : v[at] = OverlapFrom(p, q, v, at[1], at[2])
    BY <1>1, <1>7, <2>1
  <2> QED BY <2>2
<1> DEFINE table == CHOOSE x : x = Filled(x)
<1>9. table = Filled(table)
  <2> HIDE DEF Filled
  <2> QED BY <1>8
<1>10. PatternsMayOverlap(p, q) = table[<<1, 1>>]
  BY DEF PatternsMayOverlap, OverlapFrom, Remaining
<1> HIDE DEF table
<1>11. table \in [P -> BOOLEAN]
  <2>1. \A at \in P : OverlapFrom(p, q, table, at[1], at[2]) \in BOOLEAN
    BY OverlapIsBoolean
  <2> QED BY <1>9, <2>1
<1>12. \A i \in 1..Len(p) + 1, j \in 1..Len(q) + 1 :
        table[<<i, j>>] = OverlapFrom(p, q, table, i, j)
  <2>1. \A at \in P : table[at] = OverlapFrom(p, q, table, at[1], at[2])
    BY <1>9
  <2> SUFFICES ASSUME NEW i \in 1..Len(p) + 1, NEW j \in 1..Len(q) + 1
               PROVE  table[<<i, j>>] = OverlapFrom(p, q, table, i, j)
    OBVIOUS
  <2>2. <<i, j>> \in P
    BY <1>1
  <2>3. table[<<i, j>>] = OverlapFrom(p, q, table, <<i, j>>[1], <<i, j>>[2])
    BY <2>1, <2>2
  <2> QED BY <2>3
<1> QED BY <1>10, <1>11, <1>12 DEF IsOverlapTable

-----------------------------------------------------------------------------
(* Part 3: walks along two patterns, and along a path and a pattern.       *)

\* Where a path is at its end, only globstars are left of a pattern that matches it.
LEMMA OnlyGlobstarsAreLeft ==
  ASSUME NEW L, NEW x \in Seq(L), NEW M, NEW p \in Seq(M), NEW v, IsMatchTable(x, p, v),
         NEW j \in 1..Len(p) + 1, v[<<Len(x) + 1, j>>]
  PROVE  Remaining(p, j)
<1>0. Len(x) \in Nat /\ Len(p) \in Nat
  OBVIOUS
<1>1. ASSUME NEW k \in 1..Len(p), v[<<Len(x) + 1, k>>]
      PROVE  p[k] = Globstar /\ v[<<Len(x) + 1, k + 1>>]
  <2>1. /\ Len(x) + 1 \in 1..Len(x) + 1 /\ k \in 1..Len(p) + 1
        /\ ~(k > Len(p)) /\ ~(Len(x) + 1 <= Len(x))
    BY <1>0
  <2>2. MatchedFrom(x, p, v, Len(x) + 1, k)
    BY <1>1, <2>1 DEF IsMatchTable
  <2> QED BY <2>1, <2>2 DEF MatchedFrom
<1> DEFINE Others == {k \in j..Len(p) : ~v[<<Len(x) + 1, k>>]}
<1>2. Others = {}
  <2> SUFFICES ASSUME Others # {} PROVE FALSE
    OBVIOUS
  <2>1. Others \subseteq Nat
    BY <1>0
  <2>2. PICK k \in Others : \A l \in Others : k <= l
    <3> HIDE DEF Others
    <3> QED BY <2>1, Smallest
  <2>3. k \in j..Len(p) /\ k # j
    OBVIOUS
  <2>4. k - 1 \in j..Len(p) /\ k - 1 \in 1..Len(p) /\ ~(k <= k - 1) /\ (k - 1) + 1 = k
    BY <1>0, <2>3
  <2>5. v[<<Len(x) + 1, k - 1>>]
    BY <2>2, <2>4
  <2>6. v[<<Len(x) + 1, k>>]
    BY <1>1, <2>4, <2>5
  <2> QED BY <2>6
<1>3. \A k \in j..Len(p) : k \in 1..Len(p) /\ v[<<Len(x) + 1, k>>]
  BY <1>0, <1>2
<1> QED BY <1>1, <1>3 DEF Remaining

\* Two patterns that one path matches, from any places on, may overlap.
LEMMA SharedPlacesOverlap ==
  ASSUME NEW L, NEW x \in Seq(Seq(L)), NEW p \in Seq(Segments(L)), NEW q \in Seq(Segments(L)),
         NEW v, IsMatchTable(x, p, v), NEW w, IsMatchTable(x, q, w),
         NEW o, IsOverlapTable(p, q, o), v[<<1, 1>>], w[<<1, 1>>]
  PROVE  o[<<1, 1>>]
<1>0. Len(x) \in Nat /\ Len(p) \in Nat /\ Len(q) \in Nat
  OBVIOUS
<1> DEFINE Weight(k, i, j) == (Len(x) + 1 - k) + (Len(p) + 1 - i) + (Len(q) + 1 - j)
           Wrong == {n \in Nat :
                       \E k \in 1..Len(x) + 1, i \in 1..Len(p) + 1, j \in 1..Len(q) + 1 :
                         v[<<k, i>>] /\ w[<<k, j>>] /\ ~o[<<i, j>>] /\ n = Weight(k, i, j)}
<1>1. \A k \in 1..Len(x) + 1, i \in 1..Len(p) + 1, j \in 1..Len(q) + 1 : Weight(k, i, j) \in Nat
  BY <1>0
<1>2. ASSUME NEW k \in 1..Len(x) + 1, NEW i \in 1..Len(p) + 1, NEW j \in 1..Len(q) + 1,
             v[<<k, i>>], w[<<k, j>>],
             \A c \in 1..Len(x) + 1, a \in 1..Len(p) + 1, b \in 1..Len(q) + 1 :
               Weight(c, a, b) < Weight(k, i, j) /\ v[<<c, a>>] /\ w[<<c, b>>] => o[<<a, b>>]
      PROVE  o[<<i, j>>]
  <2>v. v[<<k, i>>] = MatchedFrom(x, p, v, k, i)
    BY DEF IsMatchTable
  <2>w. w[<<k, j>>] = MatchedFrom(x, q, w, k, j)
    BY DEF IsMatchTable
  <2>o. o[<<i, j>>] = OverlapFrom(p, q, o, i, j)
    BY DEF IsOverlapTable
  <2>1. CASE i > Len(p)
    <3>1. k = Len(x) + 1
      <4>1. k > Len(x)
        BY <1>2, <2>v, <2>1 DEF MatchedFrom
      <4> QED BY <1>0, <4>1
    <3>2. Remaining(q, j)
      BY <1>2, <3>1, OnlyGlobstarsAreLeft
    <3> QED BY <2>o, <2>1, <3>2 DEF OverlapFrom
  <2>2. CASE i <= Len(p) /\ j > Len(q)
    <3>1. k = Len(x) + 1
      <4>1. k > Len(x)
        BY <1>2, <2>w, <2>2 DEF MatchedFrom
      <4> QED BY <1>0, <4>1
    <3>2. Remaining(p, i)
      BY <1>2, <3>1, OnlyGlobstarsAreLeft
    <3> QED BY <1>0, <2>o, <2>2, <3>2 DEF OverlapFrom
  <2>3. CASE i <= Len(p) /\ j <= Len(q)
    <3>1. /\ i + 1 \in 1..Len(p) + 1 /\ j + 1 \in 1..Len(q) + 1
          /\ Weight(k, i + 1, j) < Weight(k, i, j) /\ Weight(k, i, j + 1) < Weight(k, i, j)
          /\ k <= Len(x) => /\ k + 1 \in 1..Len(x) + 1
                            /\ Weight(k + 1, i, j) < Weight(k, i, j)
                            /\ Weight(k + 1, i + 1, j) < Weight(k, i, j)
                            /\ Weight(k + 1, i, j + 1) < Weight(k, i, j)
                            /\ Weight(k + 1, i + 1, j + 1) < Weight(k, i, j)
      BY <1>0, <2>3
    <3> HIDE DEF Weight
    <3>2. ~(i > Len(p)) /\ ~(j > Len(q))
      BY <1>0, <2>3
    <3>3. ASSUME p[i] = Globstar \/ q[j] = Globstar, o[<<i + 1, j>>] \/ o[<<i, j + 1>>]
          PROVE  o[<<i, j>>]
      BY <2>o, <3>2, <3>3 DEF OverlapFrom
    <3>4. CASE p[i] = Globstar /\ v[<<k, i + 1>>]
      <4>1. o[<<i + 1, j>>]
        BY <1>2, <3>1, <3>4
      <4> QED BY <3>3, <3>4, <4>1
    <3>5. CASE q[j] = Globstar /\ w[<<k, j + 1>>]
      <4>1. o[<<i, j + 1>>]
        BY <1>2, <3>1, <3>5
      <4> QED BY <3>3, <3>5, <4>1
    <3>6. CASE p[i] = Globstar /\ q[j] = Globstar /\ ~v[<<k, i + 1>>] /\ ~w[<<k, j + 1>>]
      <4>1. k <= Len(x) /\ v[<<k + 1, i>>] /\ w[<<k + 1, j>>]
        BY <1>2, <2>v, <2>w, <3>2, <3>6 DEF MatchedFrom
      <4> QED BY <1>2, <3>1, <4>1
    <3>7. CASE p[i] = Globstar /\ q[j] # Globstar /\ ~v[<<k, i + 1>>]
      <4>1. k <= Len(x) /\ v[<<k + 1, i>>] /\ w[<<k + 1, j + 1>>]
        BY <1>2, <2>v, <2>w, <3>2, <3>7 DEF MatchedFrom
      <4>2. o[<<i, j + 1>>]
        BY <1>2, <3>1, <4>1
      <4> QED BY <3>3, <3>7, <4>2
    <3>8. CASE p[i] # Globstar /\ q[j] = Globstar /\ ~w[<<k, j + 1>>]
      <4>1. k <= Len(x) /\ v[<<k + 1, i + 1>>] /\ w[<<k + 1, j>>]
        BY <1>2, <2>v, <2>w, <3>2, <3>8 DEF MatchedFrom
      <4>2. o[<<i + 1, j>>]
        BY <1>2, <3>1, <4>1
      <4> QED BY <3>3, <3>8, <4>2
    <3>9. CASE p[i] # Globstar /\ q[j] # Globstar
      <4>1. /\ k <= Len(x) /\ v[<<k + 1, i + 1>>] /\ w[<<k + 1, j + 1>>]
            /\ NameMatches(x[k], p[i]) /\ NameMatches(x[k], q[j])
        BY <1>2, <2>v, <2>w, <3>2, <3>9 DEF MatchedFrom
      <4>2. o[<<i + 1, j + 1>>]
        BY <1>2, <3>1, <4>1
      <4>3. x[k] \in Seq(L) /\ p[i] \in Segments(L) /\ q[j] \in Segments(L)
        <5>1. k \in 1..Len(x) /\ i \in 1..Len(p) /\ j \in 1..Len(q)
          BY <1>0, <2>3, <4>1
        <5>2. x[k] \in Seq(L)
          BY <5>1
        <5>3. p[i] \in Segments(L) /\ q[j] \in Segments(L)
          BY <5>1
        <5> QED BY <5>2, <5>3
      <4>4. SegmentsMayOverlap(p[i], q[j])
        BY <4>1, <4>3, SharedNamesOverlap
      <4> QED BY <2>o, <3>2, <3>9, <4>2, <4>4 DEF OverlapFrom
    <3> QED BY <3>4, <3>5, <3>6, <3>7, <3>8, <3>9
  <2> QED BY <1>0, <2>1, <2>2, <2>3
<1>3. Wrong = {}
  <2> SUFFICES ASSUME Wrong # {} PROVE FALSE
    OBVIOUS
  <2>1. PICK n \in Wrong : \A m \in Wrong : n <= m
    <3>1. Wrong \subseteq Nat
      OBVIOUS
    <3> HIDE DEF Wrong
    <3> QED BY <3>1, Smallest
  <2>2. PICK k \in 1..Len(x) + 1, i \in 1..Len(p) + 1, j \in 1..Len(q) + 1 :
          v[<<k, i>>] /\ w[<<k, j>>] /\ ~o[<<i, j>>] /\ n = Weight(k, i, j)
    BY <2>1
  <2> HIDE DEF Weight
  <2>3. \A c \in 1..Len(x) + 1, a \in 1..Len(p) + 1, b \in 1..Len(q) + 1 :
          Weight(c, a, b) < Weight(k, i, j) /\ v[<<c, a>>] /\ w[<<c, b>>] => o[<<a, b>>]
    <3> SUFFICES ASSUME NEW c \in 1..Len(x) + 1, NEW a \in 1..Len(p) + 1,
                        NEW b \in 1..Len(q) + 1, Weight(c, a, b) < Weight(k, i, j),
                        v[<<c, a>>], w[<<c, b>>], ~o[<<a, b>>]
                 PROVE  FALSE
      OBVIOUS
    <3>1. Weight(c, a, b) \in Wrong
      BY <1>1
    <3>2. n <= Weight(c, a, b) /\ n = Weight(k, i, j)
      BY <2>1, <2>2, <3>1
    <3>3. Weight(c, a, b) \in Nat /\ Weight(k, i, j) \in Nat
      BY <1>1
    <3> HIDE DEF Wrong
    <3> QED BY <3>2, <3>3
  <2> QED BY <1>2, <2>2, <2>3
<1>4. 1 \in 1..Len(x) + 1 /\ 1 \in 1..Len(p) + 1 /\ 1 \in 1..Len(q) + 1
  BY <1>0
<1> HIDE DEF Weight
<1> QED BY <1>1, <1>3, <1>4

\* The table of two patterns is the mirror image of the table of them the other way round.
LEMMA TablesAreMutual ==
  ASSUME NEW M, NEW p \in Seq(M), NEW q \in Seq(M),
         NEW o, IsOverlapTable(p, q, o), NEW r, IsOverlapTable(q, p, r)
  PROVE  o[<<1, 1>>] = r[<<1, 1>>]
<1>0. Len(p) \in Nat /\ Len(q) \in Nat
  OBVIOUS
<1> DEFINE Weight(i, j) == (Len(p) + 1 - i) + (Len(q) + 1 - j)
           Wrong == {n \in Nat : \E i \in 1..Len(p) + 1, j \in 1..Len(q) + 1 :
                                   o[<<i, j>>] # r[<<j, i>>] /\ n = Weight(i, j)}
<1>1. \A i \in 1..Len(p) + 1, j \in 1..Len(q) + 1 : Weight(i, j) \in Nat
  BY <1>0
<1>2. ASSUME NEW i \in 1..Len(p) + 1, NEW j \in 1..Len(q) + 1,
             \A a \in 1..Len(p) + 1, b \in 1..Len(q) + 1 :
               Weight(a, b) < Weight(i, j) => o[<<a, b>>] = r[<<b, a>>]
      PROVE  o[<<i, j>>] = r[<<j, i>>]
  <2>o. o[<<i, j>>] = OverlapFrom(p, q, o, i, j)
    BY DEF IsOverlapTable
  <2>r. r[<<j, i>>] = OverlapFrom(q, p, r, j, i)
    BY DEF IsOverlapTable
  <2>1. CASE i > Len(p) /\ j > Len(q)
    <3>1. Remaining(q, j) /\ Remaining(p, i)
      BY <1>0, <2>1 DEF Remaining
    <3> QED BY <2>o, <2>r, <2>1, <3>1 DEF OverlapFrom
  <2>2. CASE i > Len(p) /\ ~(j > Len(q))
    BY <2>o, <2>r, <2>2 DEF OverlapFrom
  <2>3. CASE ~(i > Len(p)) /\ j > Len(q)
    BY <2>o, <2>r, <2>3 DEF OverlapFrom
  <2>4. CASE ~(i > Len(p)) /\ ~(j > Len(q))
    <3>1. /\ i + 1 \in 1..Len(p) + 1 /\ j + 1 \in 1..Len(q) + 1
          /\ Weight(i + 1, j) < Weight(i, j) /\ Weight(i, j + 1) < Weight(i, j)
          /\ Weight(i + 1, j + 1) < Weight(i, j)
      BY <1>0, <2>4
    <3> HIDE DEF Weight
    <3>2. /\ o[<<i + 1, j>>] = r[<<j, i + 1>>] /\ o[<<i, j + 1>>] = r[<<j + 1, i>>]
          /\ o[<<i + 1, j + 1>>] = r[<<j + 1, i + 1>>]
      BY <1>2, <3>1
    <3>3. SegmentsMayOverlap(p[i], q[j]) <=> SegmentsMayOverlap(q[j], p[i])
      BY SegmentsOverlapBothWays
    <3>4. CASE p[i] = Globstar \/ q[j] = Globstar
      BY <2>o, <2>r, <2>4, <3>2, <3>4 DEF OverlapFrom
    <3>5. CASE p[i] # Globstar /\ q[j] # Globstar
      <4>1. o[<<i, j>>] = (SegmentsMayOverlap(p[i], q[j]) /\ o[<<i + 1, j + 1>>])
        BY <2>o, <2>4, <3>5 DEF OverlapFrom
      <4>2. r[<<j, i>>] = (SegmentsMayOverlap(q[j], p[i]) /\ r[<<j + 1, i + 1>>])
        BY <2>r, <2>4, <3>5 DEF OverlapFrom
      <4> QED BY <3>2, <3>3, <4>1, <4>2
    <3> QED BY <3>4, <3>5
  <2> QED BY <2>1, <2>2, <2>3, <2>4
<1>3. Wrong = {}
  <2> SUFFICES ASSUME Wrong # {} PROVE FALSE
    OBVIOUS
  <2>1. PICK n \in Wrong : \A m \in Wrong : n <= m
    <3>1. Wrong \subseteq Nat
      OBVIOUS
    <3> HIDE DEF Wrong
    <3> QED BY <3>1, Smallest
  <2>2. PICK i \in 1..Len(p) + 1, j \in 1..Len(q) + 1 :
          o[<<i, j>>] # r[<<j, i>>] /\ n = Weight(i, j)
    BY <2>1
  <2> HIDE DEF Weight
  <2>3. \A a \in 1..Len(p) + 1, b \in 1..Len(q) + 1 :
          Weight(a, b) < Weight(i, j) => o[<<a, b>>] = r[<<b, a>>]
    <3> SUFFICES ASSUME NEW a \in 1..Len(p) + 1, NEW b \in 1..Len(q) + 1,
                        Weight(a, b) < Weight(i, j), o[<<a, b>>] # r[<<b, a>>]
                 PROVE  FALSE
      OBVIOUS
    <3>1. Weight(a, b) \in Wrong
      BY <1>1
    <3>2. n <= Weight(a, b) /\ n = Weight(i, j)
      BY <2>1, <2>2, <3>1
    <3>3. Weight(a, b) \in Nat /\ Weight(i, j) \in Nat
      BY <1>1
    <3> HIDE DEF Wrong
    <3> QED BY <3>2, <3>3
  <2> QED BY <1>2, <2>2, <2>3
<1>4. 1 \in 1..Len(p) + 1 /\ 1 \in 1..Len(q) + 1
  BY <1>0
<1> HIDE DEF Weight
<1> QED BY <1>1, <1>3, <1>4

\* A pattern without globstars matches name by name.
LEMMA MatchesNameByName ==
  ASSUME NEW L, NEW x \in Seq(L), NEW M, NEW p \in Seq(M), NEW v, IsMatchTable(x, p, v),
         \A i \in 1..Len(p) : p[i] # Globstar, v[<<1, 1>>]
  PROVE  Len(x) = Len(p) /\ \A i \in 1..Len(p) : NameMatches(x[i], p[i])
<1>0. Len(x) \in Nat /\ Len(p) \in Nat
  OBVIOUS
<1>1. ASSUME NEW i \in 1..Len(p), i \in 1..Len(x) + 1, v[<<i, i>>]
      PROVE  i \in 1..Len(x) /\ NameMatches(x[i], p[i]) /\ v[<<i + 1, i + 1>>]
  <2>1. i \in 1..Len(p) + 1 /\ ~(i > Len(p))
    BY <1>0
  <2>2. MatchedFrom(x, p, v, i, i)
    BY <1>1, <2>1 DEF IsMatchTable
  <2>3. i <= Len(x) /\ NameMatches(x[i], p[i]) /\ v[<<i + 1, i + 1>>]
    BY <2>1, <2>2 DEF MatchedFrom
  <2> QED BY <1>0, <2>3
<1> DEFINE Broken == {i \in 1..Len(p) + 1 : ~(i \in 1..Len(x) + 1 /\ v[<<i, i>>])}
<1>2. Broken = {}
  <2> SUFFICES ASSUME Broken # {} PROVE FALSE
    OBVIOUS
  <2>1. PICK i \in Broken : \A k \in Broken : i <= k
    <3>1. Broken \subseteq Nat
      BY <1>0
    <3> HIDE DEF Broken
    <3> QED BY <3>1, Smallest
  <2>2. i \in 1..Len(p) + 1 /\ i # 1
    BY <1>0
  <2>3. i - 1 \in 1..Len(p) /\ ~(i <= i - 1) /\ (i - 1) + 1 = i
    BY <1>0, <2>2
  <2>4. i - 1 \in 1..Len(x) + 1 /\ v[<<i - 1, i - 1>>]
    BY <1>0, <2>1, <2>3
  <2>5. i - 1 \in 1..Len(x) /\ v[<<i, i>>]
    BY <1>1, <2>3, <2>4
  <2>6. i \in 1..Len(x) + 1
    BY <1>0, <2>2, <2>5
  <2> QED BY <2>5, <2>6
<1>3. \A i \in 1..Len(p) : i \in 1..Len(x) + 1 /\ v[<<i, i>>]
  <2>1. \A i \in 1..Len(p) : i \in 1..Len(p) + 1
    BY <1>0
  <2> QED BY <1>2, <2>1
<1>4. Len(p) + 1 \in 1..Len(p) + 1
  BY <1>0
<1>5. Len(p) + 1 \in 1..Len(x) + 1 /\ v[<<Len(p) + 1, Len(p) + 1>>]
  BY <1>2, <1>4
<1>6. Len(p) + 1 > Len(x)
  <2>1. MatchedFrom(x, p, v, Len(p) + 1, Len(p) + 1)
    BY <1>4, <1>5 DEF IsMatchTable
  <2> QED BY <1>0, <2>1 DEF MatchedFrom
<1>7. Len(x) = Len(p)
  BY <1>0, <1>5, <1>6
<1> QED BY <1>1, <1>3, <1>7

\* A path whose first names match the first segments matches when the rest does.
LEMMA MatchesFromTheFront ==
  ASSUME NEW L, NEW x \in Seq(Seq(L)), NEW M, NEW p \in Seq(M), NEW v, IsMatchTable(x, p, v),
         NEW n \in Nat, n <= Len(x), n <= Len(p), \A i \in 1..n : NameMatches(x[i], p[i]),
         v[<<n + 1, n + 1>>]
  PROVE  v[<<1, 1>>]
<1>0. Len(x) \in Nat /\ Len(p) \in Nat
  OBVIOUS
<1>1. ASSUME NEW i \in 1..n, v[<<i + 1, i + 1>>] PROVE v[<<i, i>>]
  <2>1. /\ i \in 1..Len(x) + 1 /\ i + 1 \in 1..Len(x) + 1 /\ i \in 1..Len(p) + 1
        /\ i <= Len(x) /\ ~(i > Len(p))
    BY <1>0
  <2>2. CASE p[i] = Globstar
    <3>1. v[<<i + 1, i>>]
      <4>1. v[<<i + 1, i>>] = MatchedFrom(x, p, v, i + 1, i)
        BY <2>1 DEF IsMatchTable
      <4> QED BY <1>1, <2>1, <2>2, <4>1 DEF MatchedFrom
    <3>2. v[<<i, i>>] = MatchedFrom(x, p, v, i, i)
      BY <2>1 DEF IsMatchTable
    <3> QED BY <2>1, <2>2, <3>1, <3>2 DEF MatchedFrom
  <2>3. CASE p[i] # Globstar
    <3>1. v[<<i, i>>] = MatchedFrom(x, p, v, i, i)
      BY <2>1 DEF IsMatchTable
    <3> QED BY <1>1, <2>1, <2>3, <3>1 DEF MatchedFrom
  <2> QED BY <2>2, <2>3
<1> DEFINE On == {k \in 0..n : v[<<k + 1, k + 1>>]}
<1>2. PICK k \in On : \A l \in On : k <= l
  <2>1. On \subseteq Nat /\ n \in On
    OBVIOUS
  <2> HIDE DEF On
  <2> QED BY <2>1, Smallest
<1>3. CASE k = 0
  BY <1>2, <1>3
<1>4. CASE k # 0
  <2>1. k \in 1..n /\ k - 1 \in 0..n /\ (k - 1) + 1 = k /\ ~(k <= k - 1)
    BY <1>4
  <2>2. v[<<k, k>>]
    BY <1>1, <2>1
  <2>3. k - 1 \in On
    BY <2>1, <2>2
  <2> QED BY <1>2, <2>1, <2>3
<1> QED BY <1>3, <1>4

\* A globstar at the end matches whatever is left.
LEMMA GlobstarMatchesTheRest ==
  ASSUME NEW L, NEW x \in Seq(L), NEW M, NEW p \in Seq(M), NEW v, IsMatchTable(x, p, v),
         p # <<>>, p[Len(p)] = Globstar, NEW k \in 1..Len(x) + 1
  PROVE  v[<<k, Len(p)>>]
<1>0. Len(x) \in Nat /\ Len(p) \in Nat /\ Len(p) \in 1..Len(p) + 1 /\ ~(Len(p) > Len(p))
  OBVIOUS
<1>1. \A i \in 1..Len(x) + 1 :
        v[<<i, Len(p)>>] <=> v[<<i, Len(p) + 1>>] \/ (i <= Len(x) /\ v[<<i + 1, Len(p)>>])
  BY <1>0 DEF IsMatchTable, MatchedFrom
<1>2. v[<<Len(x) + 1, Len(p)>>]
  <2>1. Len(x) + 1 \in 1..Len(x) + 1 /\ Len(p) + 1 \in 1..Len(p) + 1
        /\ Len(p) + 1 > Len(p) /\ Len(x) + 1 > Len(x)
    BY <1>0
  <2>2. v[<<Len(x) + 1, Len(p) + 1>>] = MatchedFrom(x, p, v, Len(x) + 1, Len(p) + 1)
    BY <2>1 DEF IsMatchTable
  <2>3. v[<<Len(x) + 1, Len(p) + 1>>]
    BY <2>1, <2>2 DEF MatchedFrom
  <2> QED BY <1>1, <2>1, <2>3
<1> DEFINE Broken ==
             {n \in Nat : \E i \in 1..Len(x) + 1 : ~v[<<i, Len(p)>>] /\ n = Len(x) + 1 - i}
<1>3. Broken = {}
  <2> SUFFICES ASSUME Broken # {} PROVE FALSE
    OBVIOUS
  <2>1. PICK n \in Broken : \A m \in Broken : n <= m
    <3>1. Broken \subseteq Nat
      OBVIOUS
    <3> HIDE DEF Broken
    <3> QED BY <3>1, Smallest
  <2>2. PICK i \in 1..Len(x) + 1 : ~v[<<i, Len(p)>>] /\ n = Len(x) + 1 - i
    BY <2>1
  <2>3. i # Len(x) + 1
    BY <1>2, <2>2
  <2>4. i <= Len(x) /\ i + 1 \in 1..Len(x) + 1 /\ Len(x) + 1 - (i + 1) = n - 1 /\ n - 1 \in Nat
    BY <1>0, <2>2, <2>3
  <2>5. ~v[<<i + 1, Len(p)>>]
    BY <1>1, <2>2, <2>4
  <2>6. n - 1 \in Broken
    <3>1. \E l \in 1..Len(x) + 1 : ~v[<<l, Len(p)>>] /\ n - 1 = Len(x) + 1 - l
      BY <2>4, <2>5
    <3> QED BY <2>4, <3>1
  <2>7. ~(n <= n - 1)
    BY <2>4
  <2> QED BY <2>1, <2>6, <2>7
<1>4. Len(x) + 1 - k \in Nat
  BY <1>0
<1> QED BY <1>3, <1>4

-----------------------------------------------------------------------------
(* Part 4: the promises.                                                   *)

\* Two patterns that have a path in common are never taken for disjoint (patterns_may_overlap).
THEOREM SharedPathsOverlap ==
  ASSUME NEW L, NEW x \in Seq(Seq(L)), NEW p \in Seq(Segments(L)), NEW q \in Seq(Segments(L)),
         Matches(x, p), Matches(x, q)
  PROVE  PatternsMayOverlap(p, q)
<1>1. PICK v : IsMatchTable(x, p, v) /\ Matches(x, p) = v[<<1, 1>>]
  BY MatchTable
<1>2. PICK w : IsMatchTable(x, q, w) /\ Matches(x, q) = w[<<1, 1>>]
  BY MatchTable
<1>3. PICK o : IsOverlapTable(p, q, o) /\ PatternsMayOverlap(p, q) = o[<<1, 1>>]
  BY OverlapTable
<1> QED BY <1>1, <1>2, <1>3, SharedPlacesOverlap

\* Whether two patterns may overlap does not depend on which is named first.
THEOREM OverlapIsMutual ==
  ASSUME NEW M, NEW p \in Seq(M), NEW q \in Seq(M)
  PROVE  PatternsMayOverlap(p, q) = PatternsMayOverlap(q, p)
<1>1. PICK o : IsOverlapTable(p, q, o) /\ PatternsMayOverlap(p, q) = o[<<1, 1>>]
  BY OverlapTable
<1>2. PICK r : IsOverlapTable(q, p, r) /\ PatternsMayOverlap(q, p) = r[<<1, 1>>]
  BY OverlapTable
<1> QED BY <1>1, <1>2, TablesAreMutual

\* A covered pattern without globstars matches only what its owner matches
\* (pattern_covered_by).
THEOREM CoveredPathsMatch ==
  ASSUME NEW L, NEW x \in Seq(Seq(L)), NEW p \in Seq(Segments(L)),
         NEW owner \in Seq(Segments(L)), owner # <<>>,
         CoveredBy(p, owner), Globstar \notin ToSet(p), Matches(x, p)
  PROVE  Matches(x, owner)
<1>0. Len(x) \in Nat /\ Len(p) \in Nat /\ Len(owner) \in Nat \ {0}
  OBVIOUS
<1>1. PICK v : IsMatchTable(x, p, v) /\ Matches(x, p) = v[<<1, 1>>]
  BY MatchTable
<1>2. PICK w : IsMatchTable(x, owner, w) /\ Matches(x, owner) = w[<<1, 1>>]
  BY MatchTable
<1>3. \A i \in 1..Len(p) : p[i] # Globstar
  BY DEF ToSet
<1>4. Len(x) = Len(p) /\ \A i \in 1..Len(p) : NameMatches(x[i], p[i])
  BY <1>1, <1>3, MatchesNameByName
<1>5. \A i \in 1..Len(p) : x[i] \in Seq(L) /\ p[i] \in Segments(L)
  BY <1>0, <1>4
<1>6. ASSUME NEW n \in Nat, n <= Len(p), n <= Len(owner),
             \A i \in 1..n : SegmentCoveredBy(p[i], owner[i]), w[<<n + 1, n + 1>>]
      PROVE  Matches(x, owner)
  <2>1. \A i \in 1..n : NameMatches(x[i], owner[i])
    <3> SUFFICES ASSUME NEW i \in 1..n PROVE NameMatches(x[i], owner[i])
      OBVIOUS
    <3>1. i \in 1..Len(p) /\ i \in 1..Len(owner)
      BY <1>0, <1>6
    <3>2. owner[i] \in Segments(L)
      BY <3>1
    <3> QED BY <1>4, <1>5, <1>6, <3>1, <3>2, CoveredNamesMatch
  <2>2. w[<<1, 1>>]
    BY <1>2, <1>4, <1>6, <2>1, MatchesFromTheFront
  <2> QED BY <1>2, <2>2
<1>7. CASE \A i \in 1..Len(p) : ~Magic(p[i])
  <2>1. \A i \in 1..Len(p) : x[i] = p[i].pre
    BY <1>4, <1>7 DEF NameMatches
  <2>2. x = [i \in 1..Len(p) |-> p[i].pre]
    BY <1>0, <1>4, <2>1
  <2> QED BY <1>7, <2>2 DEF CoveredBy
<1>8. CASE p = owner
  BY <1>8
<1>9. CASE /\ Last(owner) = Globstar /\ Len(p) >= Len(owner) - 1
           /\ \A i \in 1..Len(owner) - 1 : SegmentCoveredBy(p[i], owner[i])
  <2>1. /\ Len(owner) - 1 \in Nat /\ Len(owner) - 1 <= Len(p) /\ Len(owner) - 1 <= Len(owner)
        /\ Len(owner) \in 1..Len(x) + 1 /\ (Len(owner) - 1) + 1 = Len(owner)
    BY <1>0, <1>4, <1>9
  <2>2. w[<<Len(owner), Len(owner)>>]
    BY <1>2, <1>9, <2>1, GlobstarMatchesTheRest DEF Last
  <2> QED BY <1>6, <1>9, <2>1, <2>2
<1>10. CASE /\ Len(p) = Len(owner)
            /\ \A i \in 1..Len(p) : SegmentCoveredBy(p[i], owner[i])
  <2>1. /\ Len(p) + 1 \in 1..Len(x) + 1 /\ Len(p) + 1 \in 1..Len(owner) + 1
        /\ Len(p) + 1 > Len(owner) /\ Len(p) + 1 > Len(x)
    BY <1>0, <1>4, <1>10
  <2>2. w[<<Len(p) + 1, Len(p) + 1>>] = MatchedFrom(x, owner, w, Len(p) + 1, Len(p) + 1)
    BY <1>2, <2>1 DEF IsMatchTable
  <2>3. w[<<Len(p) + 1, Len(p) + 1>>]
    BY <2>1, <2>2 DEF MatchedFrom
  <2>4. Len(p) <= Len(p) /\ Len(p) <= Len(owner)
    BY <1>0, <1>10
  <2> QED BY <1>0, <1>6, <1>10, <2>3, <2>4
<1> QED BY <1>7, <1>8, <1>9, <1>10 DEF CoveredBy

-----------------------------------------------------------------------------
(* Part 5: loops that follow their last call.                              *)

\* There is such a function whatever the loop does: it answers with the one end that every set of
\* states has that holds the state and is closed under its steps.
LEMMA LoopExists ==
  ASSUME NEW S, NEW E \in SUBSET S, NEW step \in [S -> S]
  PROVE  \E f : f = [s \in S |-> IF s \in E THEN s ELSE f[step[s]]]
<1> DEFINE Runs(s) == {A \in SUBSET S : s \in A /\ \A a \in A : a \notin E => step[a] \in A}
           Ends(s) == {d \in E : \A A \in Runs(s) : d \in A}
           f == [s \in S |-> CHOOSE d : d \in Ends(s)]
<1>1. ASSUME NEW s \in E PROVE f[s] = s
  <2>1. {s} \in Runs(s)
    BY <1>1
  <2>2. Ends(s) = {s}
    BY <1>1, <2>1
  <2> QED BY <1>1, <2>2
<1>2. ASSUME NEW s \in S, s \notin E PROVE f[s] = f[step[s]]
  <2>1. step[s] \in S
    OBVIOUS
  <2>2. Runs(s) \subseteq Runs(step[s])
    BY <1>2
  <2>3. ASSUME NEW A \in Runs(step[s]) PROVE A \cup {s} \in Runs(s)
    BY <2>3
  <2>4. Ends(s) = Ends(step[s])
    <3>1. ASSUME NEW d \in Ends(s), NEW A \in Runs(step[s]) PROVE d \in A
      <4>1. d \in A \cup {s}
        BY <2>3
      <4> QED BY <1>2, <4>1
    <3>2. Ends(s) \subseteq Ends(step[s])
      BY <3>1
    <3>3. Ends(step[s]) \subseteq Ends(s)
      BY <2>2
    <3> QED BY <3>2, <3>3
  <2> QED BY <2>1, <2>4
<1> HIDE DEF f
<1>3. f = [s \in S |-> IF s \in E THEN s ELSE f[step[s]]]
  <2>1. f = [s \in S |-> f[s]]
    BY DEF f
  <2> QED BY <1>1, <1>2, <2>1
<1> QED BY <1>3

\* A loop whose steps keep an invariant and make a measure of three numbers smaller comes to an
\* end in which the invariant holds.
LEMMA LoopEnds ==
  ASSUME NEW S, NEW E \in SUBSET S, NEW step \in [S -> S], NEW f,
         f = [s \in S |-> IF s \in E THEN s ELSE f[step[s]]],
         NEW I \in SUBSET S, NEW x \in [I -> Nat], NEW y \in [I -> Nat], NEW z \in [I -> Nat],
         \A s \in I \ E : /\ step[s] \in I
                          /\ \/ x[step[s]] < x[s]
                             \/ x[step[s]] = x[s] /\ y[step[s]] < y[s]
                             \/ x[step[s]] = x[s] /\ y[step[s]] = y[s] /\ z[step[s]] < z[s]
  PROVE  \A s \in I : f[s] \in I \cap E
<1> DEFINE W == {s \in I : f[s] \notin I \cap E}
           W1(a) == {s \in W : x[s] = a}
           W2(a, b) == {s \in W1(a) : y[s] = b}
<1> SUFFICES ASSUME W # {} PROVE FALSE
  OBVIOUS
<1>1. ASSUME NEW s \in W PROVE s \in I \ E /\ step[s] \in W
  <2>1. s \in S /\ (s \in E => f[s] = s) /\ (s \notin E => f[s] = f[step[s]])
    OBVIOUS
  <2> QED BY <2>1
<1>2. PICK a \in {x[s] : s \in W} : \A b \in {x[s] : s \in W} : a <= b
  <2>1. {x[s] : s \in W} \subseteq Nat /\ {x[s] : s \in W} # {}
    OBVIOUS
  <2> HIDE DEF W
  <2> QED BY <2>1, Smallest
<1>3. PICK b \in {y[s] : s \in W1(a)} : \A c \in {y[s] : s \in W1(a)} : b <= c
  <2>1. {y[s] : s \in W1(a)} \subseteq Nat /\ {y[s] : s \in W1(a)} # {}
    BY <1>2
  <2> HIDE DEF W1
  <2> QED BY <2>1, Smallest
<1>4. PICK c \in {z[s] : s \in W2(a, b)} : \A d \in {z[s] : s \in W2(a, b)} : c <= d
  <2>1. PICK s \in W1(a) : y[s] = b
    BY <1>3
  <2>2. s \in W2(a, b)
    BY <2>1
  <2>3. \A t \in W2(a, b) : z[t] \in Nat
    OBVIOUS
  <2> HIDE DEF W2
  <2>4. {z[t] : t \in W2(a, b)} \subseteq Nat /\ {z[t] : t \in W2(a, b)} # {}
    BY <2>2, <2>3
  <2> QED BY <2>4, Smallest
<1>5. PICK s \in W : x[s] = a /\ y[s] = b /\ z[s] = c
  BY <1>4
<1>6. s \in I \ E /\ step[s] \in W /\ s \in I /\ step[s] \in I
  BY <1>1, <1>5
<1>7. x[s] \in Nat /\ y[s] \in Nat /\ z[s] \in Nat
      /\ x[step[s]] \in Nat /\ y[step[s]] \in Nat /\ z[step[s]] \in Nat
  BY <1>6
<1>8. a <= x[step[s]]
  BY <1>2, <1>6
<1>9. x[step[s]] = a => b <= y[step[s]]
  BY <1>3, <1>6
<1>10. x[step[s]] = a /\ y[step[s]] = b => c <= z[step[s]]
  BY <1>4, <1>6
<1> HIDE DEF W
<1> QED BY <1>5, <1>6, <1>7, <1>8, <1>9, <1>10

-----------------------------------------------------------------------------
(* Part 6: what can be come to in a graph.                                 *)

LEMMA ReachesIs ==
  ASSUME NEW graph, NEW n
  PROVE  /\ ToSet(graph[n]) \cap DOMAIN graph \subseteq Reaches(graph, n)
         /\ Reaches(graph, n) \subseteq DOMAIN graph
         /\ Closed(graph, Reaches(graph, n))
         /\ \A S \in SUBSET DOMAIN graph :
              ToSet(graph[n]) \cap DOMAIN graph \subseteq S /\ Closed(graph, S)
                => Reaches(graph, n) \subseteq S
BY DEF Reaches, Closed

LEMMA ReachesOn ==
  ASSUME NEW graph, NEW n, NEW m \in Reaches(graph, n)
  PROVE  Reaches(graph, m) \subseteq Reaches(graph, n)
<1>1. ToSet(graph[m]) \cap DOMAIN graph \subseteq Reaches(graph, n)
  BY ReachesIs DEF Closed
<1> QED BY <1>1, ReachesIs

\* Where nothing without a way on can be found, something is on a cycle.
LEMMA EndlessIsCircular ==
  ASSUME NEW graph, IsFiniteSet(DOMAIN graph), NEW U, U \subseteq DOMAIN graph, U # {},
         \A n \in U : ToSet(graph[n]) \cap U # {}
  PROVE  OnCycle(graph) # {}
<1> SUFFICES ASSUME \A n \in U : n \notin Reaches(graph, n) PROVE FALSE
  BY DEF OnCycle
<1> DEFINE Size(n) == Cardinality(Reaches(graph, n))
<1>1. \A n \in U : IsFiniteSet(Reaches(graph, n)) /\ Size(n) \in Nat
  BY ReachesIs, FS_Subset, FS_CardinalityType
<1>2. PICK n \in U : \A m \in U : Size(n) <= Size(m)
  <2> HIDE DEF Size
  <2>1. {Size(n) : n \in U} \subseteq Nat /\ {Size(n) : n \in U} # {}
    BY <1>1
  <2>2. PICK k \in {Size(n) : n \in U} : \A l \in {Size(n) : n \in U} : k <= l
    BY <2>1, Smallest
  <2> QED BY <2>2
<1>3. PICK m \in U : m \in ToSet(graph[n])
  OBVIOUS
<1>4. m \in Reaches(graph, n)
  BY <1>3, ReachesIs
<1>5. Reaches(graph, m) \subseteq Reaches(graph, n) /\ Reaches(graph, m) # Reaches(graph, n)
  BY <1>4, ReachesOn
<1>6. Size(m) < Size(n)
  BY <1>1, <1>5, FS_Subset
<1> QED BY <1>1, <1>2, <1>6

\* A round leads from its first node back to it.
LEMMA RoundIsCircular ==
  ASSUME NEW graph, NEW c \in Seq(DOMAIN graph), IsRound(graph, c)
  PROVE  OnCycle(graph) # {}
<1> DEFINE n == c[1]
           Out == {i \in 2..Len(c) : c[i] \notin Reaches(graph, n)}
<1>1. n \in DOMAIN graph /\ Len(c) \in Nat /\ Len(c) > 1 /\ n = c[Len(c)]
  BY DEF IsRound, Last
<1>2. ASSUME Out # {} PROVE FALSE
  <2>1. Out \subseteq Nat
    OBVIOUS
  <2>2. PICK i \in Out : \A j \in Out : i <= j
    <3> HIDE DEF Out
    <3> QED BY <1>2, <2>1, Smallest
  <2>3. i \in 2..Len(c) /\ i - 1 \in 1..Len(c) - 1 /\ c[i] \in ToSet(graph[c[i - 1]])
    <3>1. \A k \in 1..Len(c) - 1 : c[k + 1] \in ToSet(graph[c[k]])
      BY DEF IsRound
    <3>2. i \in 2..Len(c) /\ i - 1 \in 1..Len(c) - 1 /\ (i - 1) + 1 = i
      BY <1>1
    <3> QED BY <3>1, <3>2
  <2>4. c[i] \in DOMAIN graph /\ c[i - 1] \in DOMAIN graph
    BY <2>3
  <2>5. CASE i = 2
    BY <2>3, <2>4, <2>5, ReachesIs
  <2>6. CASE i # 2
    <3>1. i - 1 \in 2..Len(c) /\ i - 1 \notin Out
      BY <2>2, <2>3, <2>6
    <3>2. c[i - 1] \in Reaches(graph, n)
      BY <3>1
    <3>3. c[i] \in Reaches(graph, n)
      BY <2>3, <2>4, <3>2, ReachesIs DEF Closed
    <3> QED BY <2>2, <3>3
  <2> QED BY <2>5, <2>6
<1>3. n \in Reaches(graph, n)
  BY <1>1, <1>2
<1> QED BY <1>1, <1>3 DEF OnCycle

-----------------------------------------------------------------------------
(* Part 7: the depth-first searches.                                       *)

\* Every node is in the order of a graph; dependencies may be anything.
IsGraph(graph, order) ==
  /\ IsFiniteSet(DOMAIN graph)
  /\ order \in Seq(DOMAIN graph) /\ ToSet(order) = DOMAIN graph
  /\ \E V : \A n \in DOMAIN graph : graph[n] \in Seq(V)

\* The trail is a way through the lists, and what has been found is a cycle.
TrailHolds(graph, order, s) ==
  /\ s \in Searches(graph)
  /\ \A i \in 1..Len(s.trail) + 1 : s.next[i] \in 1..Len(List(graph, order, s.trail, i)) + 1
  /\ \A i \in 1..Len(s.trail) :
       s.next[i] > 1 /\ List(graph, order, s.trail, i)[s.next[i] - 1] = s.trail[i]
  /\ \A i, j \in 1..Len(s.trail) : s.trail[i] = s.trail[j] => i = j
  /\ \A i \in 1..Len(s.trail) : s.trail[i] \notin s.visited
  /\ \A i \in 1..Len(s.cycles) : IsRound(graph, s.cycles[i])

\* As long as no cycle has been found, what a list is past has been visited, or it is the next node
\* of the trail; and nothing that has been visited is on a cycle.
VisitedHolds(graph, order, s) ==
  /\ \A i \in 1..Len(s.trail) + 1 : \A j \in 1..s.next[i] - 1 :
       LET n == List(graph, order, s.trail, i)[j] IN
       n \in DOMAIN graph => n \in s.visited \/ (i <= Len(s.trail) /\ n = s.trail[i])
  /\ \A n \in s.visited : /\ ToSet(graph[n]) \cap DOMAIN graph \subseteq s.visited
                          /\ n \notin Reaches(graph, n)

SearchHolds(graph, order, s) ==
  TrailHolds(graph, order, s) /\ (s.cycles = <<>> => VisitedHolds(graph, order, s))

Left(graph, s) == DOMAIN graph \ (s.visited \cup ToSet(s.trail))
Rest(graph, order, s) ==
  Len(List(graph, order, s.trail, Len(s.trail) + 1)) + 1 - s.next[Len(s.trail) + 1]

\* Of two numbers of nodes left, of nodes on the trail, and of places in the innermost list.
Nearer(graph, order, t, s) ==
  \/ Left(graph, t) \subseteq Left(graph, s) /\ Left(graph, t) # Left(graph, s)
  \/ Left(graph, t) = Left(graph, s) /\ Len(t.trail) < Len(s.trail)
  \/ /\ Left(graph, t) = Left(graph, s) /\ Len(t.trail) = Len(s.trail)
     /\ Rest(graph, order, t) < Rest(graph, order, s)

LEMMA TrailIs ==
  ASSUME NEW graph, NEW order, NEW s, TrailHolds(graph, order, s)
  PROVE  /\ s.trail \in Seq(DOMAIN graph) /\ s.next \in Seq(Nat) /\ s.visited \subseteq DOMAIN graph
         /\ s.cycles \in Seq(Seq(DOMAIN graph)) /\ Len(s.next) = Len(s.trail) + 1
         /\ Len(s.trail) \in Nat
BY DEF TrailHolds, Searches

LEMMA ListIsSequence ==
  ASSUME NEW graph, NEW order, IsGraph(graph, order), NEW s, TrailHolds(graph, order, s),
         NEW i \in 1..Len(s.trail) + 1
  PROVE  \E W : List(graph, order, s.trail, i) \in Seq(W)
<1>1. s.trail \in Seq(DOMAIN graph) /\ Len(s.trail) \in Nat
  BY TrailIs
<1>2. PICK V : \A n \in DOMAIN graph : graph[n] \in Seq(V)
  BY DEF IsGraph
<1>3. CASE i = 1
  BY <1>3 DEF List, IsGraph
<1>4. CASE i # 1
  <2>1. i - 1 \in 1..Len(s.trail) /\ s.trail[i - 1] \in DOMAIN graph
    BY <1>1, <1>4
  <2> QED BY <1>2, <1>4, <2>1 DEF List
<1> QED BY <1>3, <1>4

LEMMA ListsAre ==
  ASSUME NEW graph, NEW order, IsGraph(graph, order), NEW s, TrailHolds(graph, order, s)
  PROVE  \A i \in 1..Len(s.trail) + 1 :
           /\ s.next[i] \in Nat /\ s.next[i] > 0
           /\ Len(List(graph, order, s.trail, i)) \in Nat
           /\ s.next[i] <= Len(List(graph, order, s.trail, i)) + 1
           /\ \A j \in 1..Len(List(graph, order, s.trail, i)) :
                List(graph, order, s.trail, i)[j] \in ToSet(List(graph, order, s.trail, i))
           /\ \A n \in ToSet(List(graph, order, s.trail, i)) :
                \E j \in 1..Len(List(graph, order, s.trail, i)) :
                  n = List(graph, order, s.trail, i)[j]
<1>5. \A W : \A q \in Seq(W) : Len(q) \in Nat /\ ToSet(q) = {q[j] : j \in 1..Len(q)}
  BY DEF ToSet
<1>6. \A i \in 1..Len(s.trail) + 1 : s.next[i] \in 1..Len(List(graph, order, s.trail, i)) + 1
  BY DEF TrailHolds
<1>7. \A i \in 1..Len(s.trail) + 1 :
        /\ s.next[i] \in Nat /\ s.next[i] > 0
        /\ Len(List(graph, order, s.trail, i)) \in Nat
        /\ s.next[i] <= Len(List(graph, order, s.trail, i)) + 1
        /\ \A j \in 1..Len(List(graph, order, s.trail, i)) :
             List(graph, order, s.trail, i)[j] \in ToSet(List(graph, order, s.trail, i))
        /\ \A n \in ToSet(List(graph, order, s.trail, i)) :
             \E j \in 1..Len(List(graph, order, s.trail, i)) :
               n = List(graph, order, s.trail, i)[j]
  <2> TAKE i \in 1..Len(s.trail) + 1
  <2> DEFINE list == List(graph, order, s.trail, i)
  <2>1. PICK W : list \in Seq(W)
    BY ListIsSequence
  <2>2. s.next[i] \in 1..Len(list) + 1
    BY <1>6
  <2> HIDE DEF list
  <2>3. Len(list) \in Nat /\ ToSet(list) = {list[j] : j \in 1..Len(list)}
    BY <1>5, <2>1
  <2>4. /\ s.next[i] \in Nat /\ s.next[i] > 0 /\ Len(list) \in Nat /\ s.next[i] <= Len(list) + 1
        /\ \A j \in 1..Len(list) : list[j] \in ToSet(list)
        /\ \A n \in ToSet(list) : \E j \in 1..Len(list) : n = list[j]
    BY <2>2, <2>3
  <2> QED BY <2>4 DEF list
<1> QED BY <1>7

\* Consecutive nodes of a trail are edges.
LEMMA TrailIsWalk ==
  ASSUME NEW graph, NEW order, IsGraph(graph, order), NEW s, TrailHolds(graph, order, s),
         NEW i \in 1..Len(s.trail) - 1
  PROVE  s.trail[i + 1] \in ToSet(graph[s.trail[i]])
<1>1. PICK k \in 1..Len(s.trail) : k = i + 1
  BY TrailIs
<1>2. Len(s.trail) \in Nat /\ k \in 1..Len(s.trail) + 1 /\ k # 1 /\ k - 1 = i
  BY <1>1, TrailIs
<1>3. List(graph, order, s.trail, k) = graph[s.trail[i]]
  BY <1>2 DEF List
<1>4. s.next[k] > 1 /\ graph[s.trail[i]][s.next[k] - 1] = s.trail[k]
  BY <1>3 DEF TrailHolds
<1>5. \A m \in 1..Len(s.trail) + 1 :
        /\ s.next[m] \in Nat /\ Len(List(graph, order, s.trail, m)) \in Nat
        /\ s.next[m] <= Len(List(graph, order, s.trail, m)) + 1
        /\ \A j \in 1..Len(List(graph, order, s.trail, m)) :
             List(graph, order, s.trail, m)[j] \in ToSet(List(graph, order, s.trail, m))
  BY ListsAre
<1>6. /\ s.next[k] \in Nat /\ Len(graph[s.trail[i]]) \in Nat
      /\ s.next[k] <= Len(graph[s.trail[i]]) + 1
      /\ \A j \in 1..Len(graph[s.trail[i]]) : graph[s.trail[i]][j] \in ToSet(graph[s.trail[i]])
  BY <1>2, <1>3, <1>5
<1>7. s.next[k] - 1 \in 1..Len(graph[s.trail[i]])
  BY <1>4, <1>6
<1> QED BY <1>1, <1>4, <1>6, <1>7

\* What is left of a trail, or added to it, and the lists of its nodes.
LEMMA ShorterTrail ==
  ASSUME NEW N, NEW trail \in Seq(N), trail # <<>>, NEW graph, NEW order
  PROVE  LET front == SubSeq(trail, 1, Len(trail) - 1) IN
         /\ front \in Seq(N) /\ Len(front) = Len(trail) - 1
         /\ \A i \in 1..Len(trail) - 1 : front[i] = trail[i]
         /\ \A i \in 1..Len(trail) : List(graph, order, front, i) = List(graph, order, trail, i)
<1> DEFINE front == SubSeq(trail, 1, Len(trail) - 1)
<1>1. Len(trail) \in Nat /\ Len(trail) > 0
  BY EmptySeq
<1>2. front \in Seq(N) /\ Len(front) = Len(trail) - 1 /\ \A i \in 1..Len(trail) - 1 : front[i] = trail[i]
  <2>1. \A i \in 1..Len(trail) - 1 : trail[i] \in N
    BY <1>1
  <2>2. /\ front \in Seq(N)
        /\ Len(front) = IF 1 <= Len(trail) - 1 THEN (Len(trail) - 1) - 1 + 1 ELSE 0
        /\ \A i \in 1..(Len(trail) - 1) - 1 + 1 : front[i] = trail[1 + i - 1]
    BY <1>1, <2>1, SubSeqProperties
  <2>3. \A i \in 1..Len(trail) - 1 : 1 + i - 1 = i /\ i \in 1..(Len(trail) - 1) - 1 + 1
    BY <1>1
  <2> HIDE DEF front
  <2>4. \A i \in 1..Len(trail) - 1 : front[i] = trail[i]
    BY <2>2, <2>3
  <2>5. Len(front) = Len(trail) - 1
    <3>1. CASE Len(trail) = 1
      <4>1. ~(1 <= Len(trail) - 1)
        BY <3>1
      <4> QED BY <2>2, <3>1, <4>1
    <3>2. CASE Len(trail) # 1
      <4>0. \A l \in Nat : l > 0 /\ l # 1 => 1 <= l - 1 /\ (l - 1) - 1 + 1 = l - 1
        OBVIOUS
      <4>1. 1 <= Len(trail) - 1 /\ (Len(trail) - 1) - 1 + 1 = Len(trail) - 1
        BY <1>1, <3>2, <4>0, Zenon
      <4> QED BY <2>2, <4>1
    <3> QED BY <3>1, <3>2
  <2> QED BY <2>2, <2>4, <2>5
<1> HIDE DEF front
<1>3. \A i \in 1..Len(trail) : List(graph, order, front, i) = List(graph, order, trail, i)
  BY <1>1, <1>2 DEF List
<1> QED BY <1>2, <1>3 DEF front

LEMMA LongerTrail ==
  ASSUME NEW N, NEW trail \in Seq(N), NEW n \in N, NEW graph, NEW order
  PROVE  /\ Append(trail, n) \in Seq(N) /\ Len(Append(trail, n)) = Len(trail) + 1
         /\ \A i \in 1..Len(trail) : Append(trail, n)[i] = trail[i]
         /\ Append(trail, n)[Len(trail) + 1] = n
         /\ \A i \in 1..Len(trail) + 1 :
              List(graph, order, Append(trail, n), i) = List(graph, order, trail, i)
         /\ List(graph, order, Append(trail, n), Len(trail) + 2) = graph[n]
<1>1. Len(trail) \in Nat
  OBVIOUS
<1>2. /\ Append(trail, n) \in Seq(N) /\ Len(Append(trail, n)) = Len(trail) + 1
      /\ \A i \in 1..Len(trail) : Append(trail, n)[i] = trail[i]
      /\ Append(trail, n)[Len(trail) + 1] = n
  OBVIOUS
<1>3. \A i \in 1..Len(trail) + 1 :
        List(graph, order, Append(trail, n), i) = List(graph, order, trail, i)
  BY <1>1, <1>2 DEF List
<1>4. List(graph, order, Append(trail, n), Len(trail) + 2) = graph[n]
  BY <1>1, <1>2 DEF List
<1> QED BY <1>2, <1>3, <1>4

\* The place that a search is at, and what it has there.
At(s) == s.next[Len(s.trail) + 1]
Now(graph, order, s) == List(graph, order, s.trail, Len(s.trail) + 1)

\* The four steps: back out of a node, past a node that is on the trail, past another one, into one.
Back(s, t) ==
  /\ t.trail = SubSeq(s.trail, 1, Len(s.trail) - 1) /\ t.next = SubSeq(s.next, 1, Len(s.trail))
  /\ t.visited = s.visited \cup {s.trail[Len(s.trail)]} /\ t.cycles = s.cycles

Past(s, t, n) ==
  /\ t.trail = s.trail /\ t.next = [s.next EXCEPT ![Len(s.trail) + 1] = At(s) + 1]
  /\ t.visited = s.visited
  /\ t.cycles = IF n \in ToSet(s.trail) THEN Append(s.cycles, Append(From(s.trail, n), n)) ELSE s.cycles

Into(s, t, n) ==
  /\ t.trail = Append(s.trail, n)
  /\ t.next = Append([s.next EXCEPT ![Len(s.trail) + 1] = At(s) + 1], 1)
  /\ t.visited = s.visited /\ t.cycles = s.cycles

LEMMA FromIs ==
  ASSUME NEW N, NEW trail \in Seq(N), NEW n \in ToSet(trail)
  PROVE  \E i \in 1..Len(trail) :
           /\ trail[i] = n /\ From(trail, n) = SubSeq(trail, i, Len(trail))
           /\ From(trail, n) \in Seq(N) /\ Len(From(trail, n)) = Len(trail) - i + 1
           /\ \A j \in 1..Len(trail) - i + 1 : From(trail, n)[j] = trail[i + j - 1]
<1>1. \E i \in 1..Len(trail) : trail[i] = n
  BY DEF ToSet
<1>2. PICK i \in 1..Len(trail) : trail[i] = n /\ From(trail, n) = SubSeq(trail, i, Len(trail))
  BY <1>1 DEF From
<1>3. Len(trail) \in Nat /\ i \in 1..Len(trail) + 1 /\ i <= Len(trail)
  OBVIOUS
<1>4. \A k \in i..Len(trail) : trail[k] \in N
  BY <1>3
<1>5. /\ SubSeq(trail, i, Len(trail)) \in Seq(N)
      /\ Len(SubSeq(trail, i, Len(trail))) = IF i <= Len(trail) THEN Len(trail) - i + 1 ELSE 0
      /\ \A j \in 1..Len(trail) - i + 1 : SubSeq(trail, i, Len(trail))[j] = trail[i + j - 1]
  BY <1>3, <1>4, SubSeqProperties
<1> QED BY <1>2, <1>3, <1>5

LEMMA VisitIs ==
  ASSUME NEW graph, NEW order, NEW s \in Searches(graph),
         ~(s.trail = <<>> /\ s.next[1] > Len(order))
  PROVE  LET t == Visit(graph, order, s)
             n == Now(graph, order, s)[At(s)] IN
         /\ t \in Searches(graph)
         /\ At(s) > Len(Now(graph, order, s)) => s.trail # <<>> /\ Back(s, t)
         /\ ~(At(s) > Len(Now(graph, order, s))) =>
              \/ (n \in ToSet(s.trail) \/ n \notin DOMAIN graph \/ n \in s.visited) /\ Past(s, t, n)
              \/ /\ n \notin ToSet(s.trail) /\ n \in DOMAIN graph /\ n \notin s.visited
                 /\ Into(s, t, n)
<1> DEFINE t == Visit(graph, order, s)
           n == Now(graph, order, s)[At(s)]
           on == [s EXCEPT !.next[Len(s.trail) + 1] = At(s) + 1]
<1>1. /\ s.trail \in Seq(DOMAIN graph) /\ s.next \in Seq(Nat) /\ s.visited \subseteq DOMAIN graph
      /\ s.cycles \in Seq(Seq(DOMAIN graph)) /\ Len(s.next) = Len(s.trail) + 1
      /\ s = [trail |-> s.trail, next |-> s.next, visited |-> s.visited, cycles |-> s.cycles]
  BY DEF Searches
<1>2. Len(s.trail) \in Nat /\ Len(s.trail) + 1 \in 1..Len(s.next) /\ At(s) \in Nat
  BY <1>1 DEF At
<1> DEFINE next == [s.next EXCEPT ![Len(s.trail) + 1] = At(s) + 1]
<1>3. on = [trail |-> s.trail, next |-> next, visited |-> s.visited, cycles |-> s.cycles]
  <2>1. s \in [trail : Seq(DOMAIN graph), next : Seq(Nat), visited : SUBSET DOMAIN graph,
               cycles : Seq(Seq(DOMAIN graph))]
    BY DEF Searches
  <2>2. on = [s EXCEPT !.next = next]
    OBVIOUS
  <2> HIDE DEF next, on
  <2> QED BY <2>1, <2>2
<1>4. next \in Seq(Nat) /\ Len(next) = Len(s.next)
  BY <1>1, <1>2
<1>5. CASE At(s) > Len(Now(graph, order, s))
  <2>1. s.trail # <<>>
    BY <1>1, <1>5 DEF At, Now, List
  <2>2. Len(s.trail) > 0 /\ s.trail[Len(s.trail)] \in DOMAIN graph
    BY <1>1, <1>2, <2>1, EmptySeq
  <2>3. t = [trail |-> SubSeq(s.trail, 1, Len(s.trail) - 1), next |-> SubSeq(s.next, 1, Len(s.trail)),
             visited |-> s.visited \cup {s.trail[Len(s.trail)]}, cycles |-> s.cycles]
    BY <1>5 DEF Visit, At, Now
  <2>4. SubSeq(s.trail, 1, Len(s.trail) - 1) \in Seq(DOMAIN graph)
        /\ Len(SubSeq(s.trail, 1, Len(s.trail) - 1)) = Len(s.trail) - 1
    BY <1>1, <2>1, ShorterTrail
  <2>5. SubSeq(s.next, 1, Len(s.trail)) \in Seq(Nat) /\ Len(SubSeq(s.next, 1, Len(s.trail))) = Len(s.trail)
    BY <1>1, <1>2, <2>2
  <2>6. t \in Searches(graph)
    BY <1>1, <1>2, <2>2, <2>3, <2>4, <2>5 DEF Searches
  <2> QED BY <1>5, <2>1, <2>3, <2>6 DEF Back
<1>6. CASE ~(At(s) > Len(Now(graph, order, s))) /\ n \in ToSet(s.trail)
  <2>1. t = [on EXCEPT !.cycles = Append(@, Append(From(s.trail, n), n))]
    BY <1>6 DEF Visit, At, Now
  <2>2. t = [trail |-> s.trail, next |-> next, visited |-> s.visited,
             cycles |-> Append(s.cycles, Append(From(s.trail, n), n))]
    BY <1>3, <2>1
  <2> HIDE DEF n, next, t
  <2>3. From(s.trail, n) \in Seq(DOMAIN graph) /\ n \in DOMAIN graph
    <3>1. From(s.trail, n) \in Seq(DOMAIN graph)
      BY <1>1, <1>6, FromIs
    <3>2. n \in DOMAIN graph
      BY <1>1, <1>6 DEF ToSet
    <3> QED BY <3>1, <3>2
  <2>4. Append(s.cycles, Append(From(s.trail, n), n)) \in Seq(Seq(DOMAIN graph))
    BY <1>1, <2>3
  <2>5. t \in Searches(graph)
    BY <1>1, <1>4, <2>2, <2>4 DEF Searches
  <2>6. Past(s, t, n)
    BY <1>6, <2>2 DEF Past, next
  <2> QED BY <1>6, <2>5, <2>6 DEF n, t
<1>7. CASE /\ ~(At(s) > Len(Now(graph, order, s))) /\ n \notin ToSet(s.trail)
           /\ n \notin DOMAIN graph \/ n \in s.visited
  <2>1. t = on
    BY <1>7 DEF Visit, At, Now
  <2>2. t \in Searches(graph)
    BY <1>1, <1>3, <1>4, <2>1 DEF Searches
  <2>3. Past(s, t, n)
    BY <1>3, <1>7, <2>1 DEF Past
  <2> QED BY <1>7, <2>2, <2>3
<1>8. CASE /\ ~(At(s) > Len(Now(graph, order, s))) /\ n \notin ToSet(s.trail)
           /\ n \in DOMAIN graph /\ n \notin s.visited
  <2>1. t = [on EXCEPT !.trail = Append(@, n), !.next = Append(@, 1)]
    BY <1>8 DEF Visit, At, Now
  <2>2. t = [trail |-> Append(s.trail, n), next |-> Append(next, 1), visited |-> s.visited,
             cycles |-> s.cycles]
    BY <1>3, <2>1
  <2> HIDE DEF n, next, t
  <2>3. /\ Append(s.trail, n) \in Seq(DOMAIN graph) /\ Len(Append(s.trail, n)) = Len(s.trail) + 1
        /\ Append(next, 1) \in Seq(Nat) /\ Len(Append(next, 1)) = Len(next) + 1
    BY <1>1, <1>4, <1>8
  <2>4. t \in Searches(graph)
    BY <1>1, <1>4, <2>2, <2>3 DEF Searches
  <2>5. Into(s, t, n)
    BY <2>2 DEF Into, next
  <2> QED BY <1>8, <2>4, <2>5 DEF n, t
<1> HIDE DEF n, t
<1>9. (At(s) > Len(Now(graph, order, s))) \/ ~(At(s) > Len(Now(graph, order, s)))
  OBVIOUS
<1> QED BY <1>5, <1>6, <1>7, <1>8 DEF n, t

LEMMA LenAppend ==
  ASSUME NEW N, NEW q \in Seq(N), NEW c
  PROVE  Len(Append(q, c)) = Len(q) + 1
OBVIOUS

\* What follows a node on the trail closes a round with it.
LEMMA ClosedTrail ==
  ASSUME NEW graph, NEW N, NEW trail \in Seq(N), NEW n \in ToSet(trail),
         n \in ToSet(graph[trail[Len(trail)]]),
         \A i \in 1..Len(trail) - 1 : trail[i + 1] \in ToSet(graph[trail[i]])
  PROVE  IsRound(graph, Append(From(trail, n), n))
<1>1. PICK i \in 1..Len(trail) :
        /\ trail[i] = n /\ From(trail, n) \in Seq(N) /\ Len(From(trail, n)) = Len(trail) - i + 1
        /\ \A j \in 1..Len(trail) - i + 1 : From(trail, n)[j] = trail[i + j - 1]
  BY FromIs
<1>2. PICK d \in Nat : d = Len(trail)
  OBVIOUS
<1>3. PICK l \in Nat : l = d - i + 1 /\ l > 0
  BY <1>2
<1>4. i \in 1..d
  BY <1>2
<1> DEFINE from == From(trail, n)
           c == Append(from, n)
<1>5. from \in Seq(N) /\ Len(from) = l /\ \A j \in 1..l : from[j] = trail[i + j - 1]
  BY <1>1, <1>2, <1>3
<1>6. n \in N
  BY DEF ToSet
<1> HIDE DEF from
<1>7. Len(c) = l + 1 /\ c[l + 1] = n /\ \A j \in 1..l : c[j] = from[j]
  BY <1>5, <1>6
<1>8. Len(c) > 1 /\ c[1] = Last(c)
  <2>1. 1 \in 1..l /\ i + 1 - 1 = i /\ l + 1 > 1
    BY <1>3, <1>4
  <2>2. c[1] = n
    BY <1>1, <1>5, <1>7, <2>1
  <2> HIDE DEF c
  <2> QED BY <1>7, <2>1, <2>2 DEF Last
<1> HIDE DEF c
<1>9. ASSUME NEW j \in 1..l PROVE c[j + 1] \in ToSet(graph[c[j]])
  <2>1. c[j] = trail[i + j - 1]
    BY <1>5, <1>7
  <2>2. CASE j = l
    <3>1. i + j - 1 = d
      BY <1>3, <1>4, <2>2
    <3> QED BY <1>2, <1>7, <2>1, <2>2, <3>1
  <2>3. CASE j # l
    <3>1. /\ j + 1 \in 1..l /\ i + (j + 1) - 1 = (i + j - 1) + 1
          /\ i + j - 1 \in 1..d - 1
      BY <1>3, <1>4, <2>3
    <3>2. trail[(i + j - 1) + 1] \in ToSet(graph[trail[i + j - 1]])
      BY <1>2, <3>1
    <3>3. c[j + 1] = trail[i + (j + 1) - 1]
      BY <1>5, <1>7, <3>1
    <3> QED BY <2>1, <3>1, <3>2, <3>3
  <2> QED BY <2>2, <2>3
<1>10. \A j \in 1..Len(c) - 1 : j \in 1..l
  BY <1>7
<1> QED BY <1>8, <1>9, <1>10 DEF IsRound, c, from

\* Backing out of a node.
LEMMA BackKeeps ==
  ASSUME NEW graph, NEW order, IsGraph(graph, order), NEW s, SearchHolds(graph, order, s),
         NEW t \in Searches(graph), s.trail # <<>>, Back(s, t),
         At(s) > Len(Now(graph, order, s))
  PROVE  /\ SearchHolds(graph, order, t)
         /\ Left(graph, t) = Left(graph, s) /\ Len(t.trail) < Len(s.trail)
<1> DEFINE d == Len(s.trail)
           m == s.trail[d]
<1>0. TrailHolds(graph, order, s)
  BY DEF SearchHolds
<1>1. /\ s.trail \in Seq(DOMAIN graph) /\ s.next \in Seq(Nat) /\ s.visited \subseteq DOMAIN graph
      /\ Len(s.next) = Len(s.trail) + 1 /\ Len(s.trail) \in Nat
  BY <1>0, TrailIs
<1>11. ToSet(s.trail) = {s.trail[i] : i \in 1..Len(s.trail)}
  BY <1>1 DEF ToSet
<1>2. d \in Nat /\ d > 0 /\ d \in 1..d
  BY <1>1, EmptySeq
<1>3. m \in DOMAIN graph
  BY <1>1, <1>2
<1>4. /\ t.trail \in Seq(DOMAIN graph) /\ Len(t.trail) = d - 1
      /\ \A i \in 1..d - 1 : t.trail[i] = s.trail[i]
      /\ \A i \in 1..d : List(graph, order, t.trail, i) = List(graph, order, s.trail, i)
  BY <1>1, ShorterTrail DEF Back
<1>5. \A i \in 1..d : t.next[i] = s.next[i]
  BY <1>1, <1>2 DEF Back
<1>6. ToSet(t.trail) = {t.trail[i] : i \in 1..Len(t.trail)}
  BY <1>4 DEF ToSet
<1>7. t.visited = s.visited \cup {m} /\ t.cycles = s.cycles
  BY DEF Back
<1>8. TrailHolds(graph, order, t)
  <2>1. \A i \in 1..Len(t.trail) + 1 : t.next[i] \in 1..Len(List(graph, order, t.trail, i)) + 1
    <3>1. \A i \in 1..d + 1 : s.next[i] \in 1..Len(List(graph, order, s.trail, i)) + 1
      BY DEF SearchHolds, TrailHolds
    <3>2. \A i \in 1..Len(t.trail) + 1 : i \in 1..d /\ i \in 1..d + 1
      BY <1>2, <1>4
    <3> QED BY <1>4, <1>5, <3>1, <3>2
  <2>2. \A i \in 1..Len(t.trail) : i \in 1..d - 1 /\ i \in 1..d /\ i # d
    BY <1>2, <1>4
  <2>3. \A i \in 1..Len(t.trail) :
          t.next[i] > 1 /\ List(graph, order, t.trail, i)[t.next[i] - 1] = t.trail[i]
    <3>1. \A i \in 1..d : s.next[i] > 1 /\ List(graph, order, s.trail, i)[s.next[i] - 1] = s.trail[i]
      BY DEF SearchHolds, TrailHolds
    <3> QED BY <1>4, <1>5, <2>2, <3>1
  <2>4. \A i, j \in 1..d : s.trail[i] = s.trail[j] => i = j
    BY DEF SearchHolds, TrailHolds
  <2>5. \A i, j \in 1..Len(t.trail) : t.trail[i] = t.trail[j] => i = j
    BY <1>4, <2>2, <2>4
  <2>6. \A i \in 1..Len(t.trail) : t.trail[i] \notin t.visited
    <3>1. \A i \in 1..d : s.trail[i] \notin s.visited
      BY DEF SearchHolds, TrailHolds
    <3> QED BY <1>2, <1>4, <1>7, <2>2, <2>4, <3>1
  <2>7. \A i \in 1..Len(t.cycles) : IsRound(graph, t.cycles[i])
    BY <1>7 DEF SearchHolds, TrailHolds
  <2> QED BY <2>1, <2>3, <2>5, <2>6, <2>7 DEF TrailHolds
<1>9. ASSUME t.cycles = <<>> PROVE VisitedHolds(graph, order, t)
  <2>0. VisitedHolds(graph, order, s)
    BY <1>7, <1>9 DEF SearchHolds
  <2>1. ASSUME NEW i \in 1..Len(t.trail) + 1, NEW j \in 1..t.next[i] - 1,
               List(graph, order, t.trail, i)[j] \in DOMAIN graph
        PROVE  \/ List(graph, order, t.trail, i)[j] \in t.visited
               \/ i <= Len(t.trail) /\ List(graph, order, t.trail, i)[j] = t.trail[i]
    <3>1. i \in 1..d /\ i \in 1..d + 1 /\ j \in 1..s.next[i] - 1
      BY <1>2, <1>4, <1>5, <2>1
    <3>2. \/ List(graph, order, s.trail, i)[j] \in s.visited
          \/ List(graph, order, s.trail, i)[j] = s.trail[i]
      BY <1>4, <2>0, <2>1, <3>1 DEF VisitedHolds
    <3>3. CASE i = d
      BY <1>4, <1>7, <3>1, <3>2, <3>3
    <3>4. CASE i # d
      <4>1. i \in 1..d - 1 /\ i <= Len(t.trail)
        BY <1>2, <1>4, <3>1, <3>4
      <4> QED BY <1>4, <1>7, <3>1, <3>2, <4>1
    <3> QED BY <3>3, <3>4
  <2>2. ToSet(graph[m]) \cap DOMAIN graph \subseteq s.visited
    <3>1. d + 1 \in 1..d + 1 /\ d + 1 # 1 /\ d + 1 - 1 = d
      BY <1>2
    <3>2. Now(graph, order, s) = graph[m] /\ List(graph, order, s.trail, d + 1) = graph[m]
      BY <3>1 DEF Now, List
    <3>3. s.next[d + 1] \in Nat
      BY <1>1, <3>1
    <3>4. Len(graph[m]) \in Nat /\ \A n \in ToSet(graph[m]) : \E j \in 1..Len(graph[m]) : n = graph[m][j]
      <4>1. PICK W : graph[m] \in Seq(W)
        BY <1>0, <3>1, <3>2, ListIsSequence
      <4> QED BY <4>1 DEF ToSet
    <3>5. s.next[d + 1] > Len(graph[m])
      BY <3>2 DEF At
    <3>6. ASSUME NEW n \in ToSet(graph[m]), n \in DOMAIN graph PROVE n \in s.visited
      <4>1. PICK j \in 1..Len(graph[m]) : n = graph[m][j]
        BY <3>4
      <4>2. j \in 1..s.next[d + 1] - 1
        BY <3>3, <3>4, <3>5
      <4>3. n \in s.visited \/ (d + 1 <= Len(s.trail) /\ n = s.trail[d + 1])
        BY <2>0, <3>1, <3>2, <3>6, <4>1, <4>2 DEF VisitedHolds
      <4>4. ~(d + 1 <= Len(s.trail))
        BY <1>2
      <4> QED BY <4>3, <4>4
    <3> QED BY <3>6
  <2>3. m \notin Reaches(graph, m)
    <3>1. Closed(graph, s.visited)
      BY <2>0 DEF VisitedHolds, Closed
    <3>2. Reaches(graph, m) \subseteq s.visited
      BY <1>1, <2>2, <3>1, ReachesIs
    <3>3. m \notin s.visited
      BY <1>2 DEF SearchHolds, TrailHolds
    <3> QED BY <3>2, <3>3
  <2>4. \A n \in t.visited : /\ ToSet(graph[n]) \cap DOMAIN graph \subseteq t.visited
                             /\ n \notin Reaches(graph, n)
    BY <1>7, <2>0, <2>2, <2>3 DEF VisitedHolds
  <2> QED BY <2>1, <2>4 DEF VisitedHolds
<1>10. Left(graph, t) = Left(graph, s)
  <2>1. ToSet(s.trail) = ToSet(t.trail) \cup {m}
    <3>1. ASSUME NEW i \in 1..d PROVE s.trail[i] \in ToSet(t.trail) \cup {m}
      <4>1. i = d \/ i \in 1..Len(t.trail)
        BY <1>2, <1>4
      <4> QED BY <1>4, <1>6, <4>1
    <3>2. \A i \in 1..Len(t.trail) : i \in 1..d /\ i \in 1..d - 1
      BY <1>2, <1>4
    <3>3. ToSet(s.trail) \subseteq ToSet(t.trail) \cup {m}
      BY <1>11, <3>1
    <3>4. ToSet(t.trail) \subseteq ToSet(s.trail)
      BY <1>11, <1>4, <1>6, <3>2
    <3>5. m \in ToSet(s.trail)
      BY <1>11, <1>2
    <3> QED BY <3>3, <3>4, <3>5
  <2> QED BY <1>7, <2>1 DEF Left
<1> QED BY <1>2, <1>4, <1>8, <1>9, <1>10 DEF SearchHolds

\* Going past a node that needs no visit, or that closes a cycle.
LEMMA PastKeeps ==
  ASSUME NEW graph, NEW order, IsGraph(graph, order), NEW s, SearchHolds(graph, order, s),
         NEW t \in Searches(graph), NEW n, n = Now(graph, order, s)[At(s)], Past(s, t, n),
         n \in ToSet(s.trail) \/ n \notin DOMAIN graph \/ n \in s.visited,
         ~(At(s) > Len(Now(graph, order, s)))
  PROVE  /\ SearchHolds(graph, order, t)
         /\ Left(graph, t) = Left(graph, s) /\ Len(t.trail) = Len(s.trail)
         /\ Rest(graph, order, t) < Rest(graph, order, s)
<1> DEFINE d == Len(s.trail)
<1>0. TrailHolds(graph, order, s)
  BY DEF SearchHolds
<1>1. /\ s.trail \in Seq(DOMAIN graph) /\ s.next \in Seq(Nat) /\ s.visited \subseteq DOMAIN graph
      /\ s.cycles \in Seq(Seq(DOMAIN graph)) /\ Len(s.next) = Len(s.trail) + 1 /\ d \in Nat
  BY <1>0, TrailIs
<1>11. ToSet(s.trail) = {s.trail[i] : i \in 1..Len(s.trail)}
  BY <1>1 DEF ToSet
<1>2. \A k \in 1..d + 1 :
        /\ s.next[k] \in Nat /\ s.next[k] > 0 /\ Len(List(graph, order, s.trail, k)) \in Nat
        /\ s.next[k] <= Len(List(graph, order, s.trail, k)) + 1
        /\ \A j \in 1..Len(List(graph, order, s.trail, k)) :
             List(graph, order, s.trail, k)[j] \in ToSet(List(graph, order, s.trail, k))
  BY <1>0, ListsAre
<1>3. d + 1 \in 1..d + 1 /\ At(s) \in Nat /\ At(s) > 0 /\ Len(Now(graph, order, s)) \in Nat
  <2>1. d + 1 \in 1..d + 1
    BY <1>1
  <2>2. s.next[d + 1] \in Nat /\ s.next[d + 1] > 0 /\ Len(List(graph, order, s.trail, d + 1)) \in Nat
    BY <1>2, <2>1
  <2> QED BY <2>1, <2>2 DEF At, Now
<1>4. /\ t.trail = s.trail /\ t.visited = s.visited /\ t.next[d + 1] = At(s) + 1
      /\ \A i \in 1..d : t.next[i] = s.next[i]
  BY <1>1, <1>3 DEF Past
<1>5. TrailHolds(graph, order, t)
  <2>1. \A i \in 1..Len(t.trail) + 1 : t.next[i] \in 1..Len(List(graph, order, t.trail, i)) + 1
    <3>1. \A i \in 1..d + 1 : s.next[i] \in 1..Len(List(graph, order, s.trail, i)) + 1
      BY DEF SearchHolds, TrailHolds
    <3>2. At(s) + 1 \in 1..Len(Now(graph, order, s)) + 1
      BY <1>3
    <3>3. \A i \in 1..d + 1 : i \in 1..d \/ i = d + 1
      BY <1>1
    <3> QED BY <1>4, <3>1, <3>2, <3>3 DEF Now
  <2>2. \A i \in 1..Len(t.trail) :
          t.next[i] > 1 /\ List(graph, order, t.trail, i)[t.next[i] - 1] = t.trail[i]
    BY <1>4 DEF SearchHolds, TrailHolds
  <2>3. /\ \A i, j \in 1..Len(t.trail) : t.trail[i] = t.trail[j] => i = j
        /\ \A i \in 1..Len(t.trail) : t.trail[i] \notin t.visited
    BY <1>4 DEF SearchHolds, TrailHolds
  <2>4. \A i \in 1..Len(t.cycles) : IsRound(graph, t.cycles[i])
    <3>1. \A i \in 1..Len(s.cycles) : IsRound(graph, s.cycles[i])
      BY DEF SearchHolds, TrailHolds
    <3>2. CASE n \notin ToSet(s.trail)
      BY <3>1, <3>2 DEF Past
    <3>3. CASE n \in ToSet(s.trail)
      <4> DEFINE c == Append(From(s.trail, n), n)
      <4>5. IsRound(graph, c)
        <5>1. d > 0
          BY <1>1, <1>11, <3>3
        <5>2. d + 1 # 1 /\ (d + 1) - 1 = d
          BY <1>1, <5>1
        <5>3. Now(graph, order, s) = graph[s.trail[d]]
          BY <5>2 DEF Now, List
        <5>4. At(s) \in 1..Len(Now(graph, order, s))
          BY <1>3
        <5>5. Now(graph, order, s)[At(s)] \in ToSet(Now(graph, order, s))
          BY <1>2, <1>3, <5>4 DEF Now
        <5>6. n \in ToSet(graph[s.trail[d]])
          BY <5>3, <5>5
        <5>7. \A i \in 1..d - 1 : s.trail[i + 1] \in ToSet(graph[s.trail[i]])
          BY <1>0, TrailIsWalk
        <5> QED BY <1>1, <3>3, <5>6, <5>7, ClosedTrail
      <4> HIDE DEF c
      <4>6. t.cycles = Append(s.cycles, c)
        BY <3>3 DEF Past, c
      <4>7. Len(s.cycles) \in Nat /\ Len(t.cycles) = Len(s.cycles) + 1
            /\ t.cycles[Len(s.cycles) + 1] = c
            /\ \A k \in 1..Len(s.cycles) : t.cycles[k] = s.cycles[k]
        BY <1>1, <4>6
      <4>8. \A k \in 1..Len(t.cycles) : k \in 1..Len(s.cycles) \/ k = Len(s.cycles) + 1
        BY <4>7
      <4> QED BY <3>1, <4>5, <4>7, <4>8
    <3> QED BY <3>2, <3>3
  <2> QED BY <2>1, <2>2, <2>3, <2>4 DEF TrailHolds
<1>6. ASSUME t.cycles = <<>> PROVE VisitedHolds(graph, order, t)
  <2>1. n \notin ToSet(s.trail) /\ s.cycles = <<>>
    <3>1. ASSUME n \in ToSet(s.trail) PROVE FALSE
      <4>1. t.cycles = Append(s.cycles, Append(From(s.trail, n), n)) /\ Len(s.cycles) \in Nat
        <5>1. t.cycles = Append(s.cycles, Append(From(s.trail, n), n))
          BY <3>1 DEF Past
        <5>2. Len(s.cycles) \in Nat
          BY <1>1
        <5> QED BY <5>1, <5>2
      <4>2. Len(t.cycles) = Len(s.cycles) + 1 /\ Len(t.cycles) = 0
        <5>1. \A c : Len(Append(s.cycles, c)) = Len(s.cycles) + 1
          BY <1>1, LenAppend
        <5> QED BY <1>6, <4>1, <5>1
      <4> QED BY <4>1, <4>2
    <3> QED BY <1>6, <3>1 DEF Past
  <2>2. VisitedHolds(graph, order, s)
    BY <2>1 DEF SearchHolds
  <2>3. ASSUME NEW i \in 1..d + 1, NEW j \in 1..t.next[i] - 1,
               List(graph, order, s.trail, i)[j] \in DOMAIN graph
        PROVE  \/ List(graph, order, s.trail, i)[j] \in s.visited
               \/ i <= d /\ List(graph, order, s.trail, i)[j] = s.trail[i]
    <3>1. CASE j \in 1..s.next[i] - 1
      BY <2>2, <2>3, <3>1 DEF VisitedHolds
    <3>2. CASE j \notin 1..s.next[i] - 1
      <4>1. i = d + 1
        <5>1. i \notin 1..d
          BY <1>4, <3>2
        <5>2. \A l \in Nat : \A k \in 1..l + 1 : k \notin 1..l => k = l + 1
          OBVIOUS
        <5>3. d \in Nat
          BY <1>1
        <5> HIDE DEF d
        <5> QED BY <5>1, <5>2, <5>3
      <4>2. j = At(s)
        BY <1>3, <1>4, <3>2, <4>1 DEF At
      <4>3. List(graph, order, s.trail, i)[j] = n
        BY <4>1, <4>2 DEF Now
      <4> QED BY <2>1, <2>3, <4>3
    <3> QED BY <3>1, <3>2
  <2> QED BY <1>4, <2>2, <2>3 DEF VisitedHolds
<1>7. Left(graph, t) = Left(graph, s)
  BY <1>4 DEF Left
<1>8. Rest(graph, order, t) < Rest(graph, order, s)
  <2>1. /\ Rest(graph, order, t) = Len(Now(graph, order, s)) + 1 - (At(s) + 1)
        /\ Rest(graph, order, s) = Len(Now(graph, order, s)) + 1 - At(s)
    BY <1>4 DEF Rest, Now, At
  <2> QED BY <1>3, <2>1
<1> QED BY <1>4, <1>5, <1>6, <1>7, <1>8 DEF SearchHolds

\* Going into a node that is not on the trail and has not been visited.
LEMMA IntoKeeps ==
  ASSUME NEW graph, NEW order, IsGraph(graph, order), NEW s, SearchHolds(graph, order, s),
         NEW t \in Searches(graph), NEW n, n = Now(graph, order, s)[At(s)], Into(s, t, n),
         n \notin ToSet(s.trail), n \in DOMAIN graph, n \notin s.visited,
         ~(At(s) > Len(Now(graph, order, s)))
  PROVE  /\ SearchHolds(graph, order, t)
         /\ Left(graph, t) \subseteq Left(graph, s) /\ Left(graph, t) # Left(graph, s)
<1>0. TrailHolds(graph, order, s)
  BY DEF SearchHolds
<1>1. /\ s.trail \in Seq(DOMAIN graph) /\ s.next \in Seq(Nat)
      /\ Len(s.next) = Len(s.trail) + 1 /\ Len(s.trail) \in Nat
  BY <1>0, TrailIs
<1>2. PICK d \in Nat : d = Len(s.trail)
  BY <1>1
<1>3. ToSet(s.trail) = {s.trail[i] : i \in 1..d}
  BY <1>1, <1>2 DEF ToSet
<1>4. d + 1 \in 1..Len(s.trail) + 1 /\ d + 1 = Len(s.trail) + 1
  BY <1>2
<1>5. At(s) \in Nat /\ At(s) > 0 /\ Len(Now(graph, order, s)) \in Nat
  <2>1. s.next[d + 1] \in Nat /\ s.next[d + 1] > 0
    BY <1>0, <1>1, <1>4 DEF TrailHolds
  <2>2. PICK W : Now(graph, order, s) \in Seq(W)
    BY <1>0, <1>4, ListIsSequence DEF Now
  <2> QED BY <1>4, <2>1, <2>2 DEF At
<1>6. /\ t.trail \in Seq(DOMAIN graph) /\ Len(t.trail) = d + 1 /\ t.trail[d + 1] = n
      /\ \A i \in 1..d : t.trail[i] = s.trail[i]
      /\ \A i \in 1..d + 1 : List(graph, order, t.trail, i) = List(graph, order, s.trail, i)
      /\ List(graph, order, t.trail, d + 2) = graph[n]
  BY <1>1, <1>2, LongerTrail DEF Into
<1>7. /\ t.visited = s.visited /\ t.cycles = s.cycles
      /\ \A i \in 1..d : t.next[i] = s.next[i]
      /\ t.next[d + 1] = At(s) + 1 /\ t.next[d + 2] = 1
  <2> DEFINE next == [s.next EXCEPT ![Len(s.trail) + 1] = At(s) + 1]
  <2>1. /\ next \in Seq(Nat) /\ Len(next) = d + 1 /\ next[d + 1] = At(s) + 1
        /\ \A i \in 1..d : next[i] = s.next[i]
    BY <1>1, <1>2, <1>4, <1>5
  <2>2. t.next = Append(next, 1)
    BY DEF Into
  <2> HIDE DEF next
  <2>3. (d + 1) + 1 = d + 2 /\ \A i \in 1..d : i \in 1..d + 1
    BY <1>2
  <2>4. /\ t.next[d + 2] = 1 /\ \A i \in 1..d + 1 : t.next[i] = next[i]
    BY <2>1, <2>2, <2>3
  <2>5. d + 1 \in 1..d + 1
    BY <1>2
  <2>6. t.visited = s.visited /\ t.cycles = s.cycles
    BY DEF Into
  <2> QED BY <2>1, <2>3, <2>4, <2>5, <2>6
<1>8. \A i \in 1..Len(t.trail) : i \in 1..d \/ i = d + 1
  BY <1>6
<1>9. ToSet(t.trail) = ToSet(s.trail) \cup {n}
  <2>1. ToSet(t.trail) = {t.trail[i] : i \in 1..d + 1}
    BY <1>6 DEF ToSet
  <2>2. ToSet(t.trail) \subseteq ToSet(s.trail) \cup {n}
    BY <1>3, <1>6, <1>8, <2>1
  <2>3. \A i \in 1..d : i \in 1..d + 1
    BY <1>2
  <2>4. ToSet(s.trail) \cup {n} \subseteq ToSet(t.trail)
    BY <1>2, <1>3, <1>6, <2>1, <2>3
  <2> QED BY <2>2, <2>4
<1>10. TrailHolds(graph, order, t)
  <2>1. \A i \in 1..Len(t.trail) + 1 : t.next[i] \in 1..Len(List(graph, order, t.trail, i)) + 1
    <3>1. \A i \in 1..d + 1 : s.next[i] \in 1..Len(List(graph, order, s.trail, i)) + 1
      BY <1>0, <1>2 DEF TrailHolds
    <3>2. \A i \in 1..d : t.next[i] \in 1..Len(List(graph, order, t.trail, i)) + 1
      <4>1. \A i \in 1..d : i \in 1..d + 1
        BY <1>2
      <4> QED BY <1>6, <1>7, <3>1, <4>1
    <3>3. t.next[d + 1] \in 1..Len(List(graph, order, t.trail, d + 1)) + 1
      <4>1. At(s) + 1 \in 1..Len(Now(graph, order, s)) + 1
        BY <1>5
      <4>2. List(graph, order, t.trail, d + 1) = Now(graph, order, s)
        BY <1>4, <1>6 DEF Now
      <4> QED BY <1>7, <4>1, <4>2
    <3>4. t.next[d + 2] \in 1..Len(List(graph, order, t.trail, d + 2)) + 1
      <4>1. PICK W : graph[n] \in Seq(W)
        BY DEF IsGraph
      <4>2. 1 \in 1..Len(graph[n]) + 1
        BY <4>1
      <4> QED BY <1>6, <1>7, <4>2
    <3>5. \A i \in 1..Len(t.trail) + 1 : i \in 1..d \/ i = d + 1 \/ i = d + 2
      BY <1>6
    <3> QED BY <3>2, <3>3, <3>4, <3>5
  <2>2. \A i \in 1..Len(t.trail) :
          t.next[i] > 1 /\ List(graph, order, t.trail, i)[t.next[i] - 1] = t.trail[i]
    <3>1. \A i \in 1..d : s.next[i] > 1 /\ List(graph, order, s.trail, i)[s.next[i] - 1] = s.trail[i]
      BY <1>0, <1>2 DEF TrailHolds
    <3>2. \A i \in 1..d : i \in 1..d + 1
      BY <1>2
    <3>3. At(s) + 1 > 1 /\ (At(s) + 1) - 1 = At(s)
      BY <1>5
    <3>4. List(graph, order, t.trail, d + 1)[At(s)] = n
      BY <1>4, <1>6 DEF Now
    <3> QED BY <1>6, <1>7, <1>8, <3>1, <3>2, <3>3, <3>4
  <2>3. \A i, j \in 1..Len(t.trail) : t.trail[i] = t.trail[j] => i = j
    <3>1. \A i, j \in 1..d : s.trail[i] = s.trail[j] => i = j
      BY <1>0, <1>2 DEF TrailHolds
    <3>2. \A i \in 1..d : s.trail[i] # n
      BY <1>3
    <3> QED BY <1>6, <1>8, <3>1, <3>2
  <2>4. \A i \in 1..Len(t.trail) : t.trail[i] \notin t.visited
    <3>1. \A i \in 1..d : s.trail[i] \notin s.visited
      BY <1>0, <1>2 DEF TrailHolds
    <3> QED BY <1>6, <1>7, <1>8, <3>1
  <2>5. \A i \in 1..Len(t.cycles) : IsRound(graph, t.cycles[i])
    BY <1>0, <1>7 DEF TrailHolds
  <2> QED BY <2>1, <2>2, <2>3, <2>4, <2>5 DEF TrailHolds
<1>11. ASSUME t.cycles = <<>> PROVE VisitedHolds(graph, order, t)
  <2>1. VisitedHolds(graph, order, s)
    BY <1>7, <1>11 DEF SearchHolds
  <2>2. ASSUME NEW i \in 1..Len(t.trail) + 1, NEW j \in 1..t.next[i] - 1,
               List(graph, order, t.trail, i)[j] \in DOMAIN graph
        PROVE  \/ List(graph, order, t.trail, i)[j] \in t.visited
               \/ i <= Len(t.trail) /\ List(graph, order, t.trail, i)[j] = t.trail[i]
    <3>1. CASE i \in 1..d
      <4>1. i \in 1..Len(s.trail) + 1 /\ i \in 1..d + 1 /\ i <= Len(t.trail)
        BY <1>2, <1>6, <3>1
      <4>2. j \in 1..s.next[i] - 1
        BY <1>7, <3>1
      <4>3. \/ List(graph, order, s.trail, i)[j] \in s.visited
            \/ List(graph, order, s.trail, i)[j] = s.trail[i]
        BY <1>6, <2>1, <2>2, <4>1, <4>2 DEF VisitedHolds
      <4> QED BY <1>6, <1>7, <3>1, <4>1, <4>3
    <3>2. CASE i = d + 1
      <4>1. j \in 1..At(s)
        BY <1>5, <1>7, <3>2
      <4>2. CASE j = At(s)
        BY <1>4, <1>6, <3>2, <4>2 DEF Now
      <4>3. CASE j # At(s)
        <5>1. j \in 1..s.next[d + 1] - 1 /\ ~(d + 1 <= Len(s.trail))
          BY <1>2, <1>4, <1>5, <4>1, <4>3 DEF At
        <5>2. List(graph, order, t.trail, i) = List(graph, order, s.trail, d + 1)
          BY <1>4, <1>6, <3>2
        <5>3. List(graph, order, s.trail, d + 1)[j] \in s.visited
          BY <1>4, <2>1, <2>2, <5>1, <5>2 DEF VisitedHolds
        <5> QED BY <1>7, <5>2, <5>3
      <4> QED BY <4>2, <4>3
    <3>3. CASE i = d + 2
      BY <1>7, <3>3
    <3>4. i \in 1..d \/ i = d + 1 \/ i = d + 2
      BY <1>6
    <3> QED BY <3>1, <3>2, <3>3, <3>4
  <2> QED BY <1>7, <2>1, <2>2 DEF VisitedHolds
<1>12. Left(graph, t) \subseteq Left(graph, s) /\ Left(graph, t) # Left(graph, s)
  BY <1>7, <1>9 DEF Left
<1> QED BY <1>10, <1>11, <1>12 DEF SearchHolds

\* So every step of a search keeps what holds of it and brings it nearer to its end.
LEMMA VisitKeeps ==
  ASSUME NEW graph, NEW order, IsGraph(graph, order), NEW s, SearchHolds(graph, order, s),
         ~(s.trail = <<>> /\ s.next[1] > Len(order))
  PROVE  /\ SearchHolds(graph, order, Visit(graph, order, s))
         /\ Nearer(graph, order, Visit(graph, order, s), s)
<1> DEFINE t == Visit(graph, order, s)
           n == Now(graph, order, s)[At(s)]
<1>1. s \in Searches(graph)
  BY DEF SearchHolds, TrailHolds
<1>2. /\ t \in Searches(graph)
      /\ At(s) > Len(Now(graph, order, s)) => s.trail # <<>> /\ Back(s, t)
      /\ ~(At(s) > Len(Now(graph, order, s))) =>
           \/ (n \in ToSet(s.trail) \/ n \notin DOMAIN graph \/ n \in s.visited) /\ Past(s, t, n)
           \/ /\ n \notin ToSet(s.trail) /\ n \in DOMAIN graph /\ n \notin s.visited
              /\ Into(s, t, n)
  BY <1>1, VisitIs
<1> HIDE DEF t
<1>3. CASE At(s) > Len(Now(graph, order, s))
  <2>1. /\ SearchHolds(graph, order, t)
        /\ Left(graph, t) = Left(graph, s) /\ Len(t.trail) < Len(s.trail)
    BY <1>2, <1>3, BackKeeps
  <2> QED BY <2>1 DEF Nearer, t
<1>4. CASE /\ ~(At(s) > Len(Now(graph, order, s))) /\ Past(s, t, n)
           /\ n \in ToSet(s.trail) \/ n \notin DOMAIN graph \/ n \in s.visited
  <2>1. /\ SearchHolds(graph, order, t)
        /\ Left(graph, t) = Left(graph, s) /\ Len(t.trail) = Len(s.trail)
        /\ Rest(graph, order, t) < Rest(graph, order, s)
    BY <1>2, <1>4, PastKeeps
  <2> QED BY <2>1 DEF Nearer, t
<1>5. CASE /\ ~(At(s) > Len(Now(graph, order, s))) /\ Into(s, t, n)
           /\ n \notin ToSet(s.trail) /\ n \in DOMAIN graph /\ n \notin s.visited
  <2>1. /\ SearchHolds(graph, order, t)
        /\ Left(graph, t) \subseteq Left(graph, s) /\ Left(graph, t) # Left(graph, s)
    BY <1>2, <1>5, IntoKeeps
  <2> QED BY <2>1 DEF Nearer, t
<1> QED BY <1>2, <1>3, <1>4, <1>5

LEMMA StartHolds ==
  ASSUME NEW graph, NEW order, IsGraph(graph, order)
  PROVE  SearchHolds(graph, order, Start)
<1>1. Start \in Searches(graph)
  <2>1. <<>> \in Seq(DOMAIN graph) /\ <<>> \in Seq(Seq(DOMAIN graph))
    OBVIOUS
  <2>2. <<1>> \in Seq(Nat) /\ Len(<<1>>) = 1 /\ Len(<<>>) = 0
    OBVIOUS
  <2>3. Start \in [trail : Seq(DOMAIN graph), next : Seq(Nat), visited : SUBSET DOMAIN graph,
                   cycles : Seq(Seq(DOMAIN graph))]
    BY <2>1, <2>2 DEF Start
  <2>4. Len(Start.next) = Len(Start.trail) + 1
    <3>1. Start.next = <<1>> /\ Start.trail = <<>>
      BY DEF Start
    <3> QED BY <2>2, <3>1
  <2> QED BY <2>3, <2>4 DEF Searches
<1>2. /\ Start.trail = <<>> /\ Start.next = <<1>> /\ Start.visited = {} /\ Start.cycles = <<>>
      /\ Len(Start.trail) = 0 /\ Len(Start.cycles) = 0 /\ Start.next[1] = 1
  BY DEF Start
<1>3. \A i \in 1..Len(Start.trail) + 1 : i = 1 /\ Start.next[i] \in 1..Len(List(graph, order, Start.trail, i)) + 1
  <2>1. Len(order) \in Nat
    BY DEF IsGraph
  <2> QED BY <1>2, <2>1 DEF List
<1>4. TrailHolds(graph, order, Start)
  BY <1>1, <1>2, <1>3 DEF TrailHolds
<1>5. VisitedHolds(graph, order, Start)
  BY <1>2, <1>3 DEF VisitedHolds
<1> QED BY <1>4, <1>5 DEF SearchHolds

\* The search is such a loop.
LEMMA SearchIs ==
  ASSUME NEW graph, NEW order, NEW one
  PROVE  \E f : /\ f = [s \in Searches(graph) |->
                          IF SearchEnds(order, one, s) THEN s ELSE f[Visit(graph, order, s)]]
                /\ Search(graph, order, one) = f[Start].cycles
<1> DEFINE S == Searches(graph)
           E == {s \in S : SearchEnds(order, one, s)}
           step == [s \in S |-> IF s \in E THEN s ELSE Visit(graph, order, s)]
           f == CHOOSE g : g = [s \in S |-> IF SearchEnds(order, one, s) THEN s
                                            ELSE g[Visit(graph, order, s)]]
<1>1. \A s \in S : ~SearchEnds(order, one, s) => Visit(graph, order, s) \in S
  BY VisitIs DEF SearchEnds
<1>2. step \in [S -> S] /\ E \in SUBSET S
  BY <1>1
<1>3. PICK g : g = [s \in S |-> IF s \in E THEN s ELSE g[step[s]]]
  <2> HIDE DEF S, E, step
  <2> QED BY <1>2, LoopExists
<1>4. g = [s \in S |-> IF SearchEnds(order, one, s) THEN s ELSE g[Visit(graph, order, s)]]
  <2> DEFINE h == [s \in S |-> IF SearchEnds(order, one, s) THEN s ELSE g[Visit(graph, order, s)]]
  <2>1. \A s \in S : (IF s \in E THEN s ELSE g[step[s]])
                     = IF SearchEnds(order, one, s) THEN s ELSE g[Visit(graph, order, s)]
    OBVIOUS
  <2>2. [s \in S |-> IF s \in E THEN s ELSE g[step[s]]] = h
    BY <2>1
  <2> HIDE DEF S, E, step, h
  <2> QED BY <1>3, <2>2 DEF h
<1>5. f = [s \in S |-> IF SearchEnds(order, one, s) THEN s ELSE f[Visit(graph, order, s)]]
  BY <1>4
<1>6. Search(graph, order, one) = f[Start].cycles
  BY DEF Search
<1> QED BY <1>5, <1>6

\* It comes to an end, and then its invariant tells what has been found.
LEMMA SearchComesTo ==
  ASSUME NEW graph, NEW order, IsGraph(graph, order), NEW one
  PROVE  \E s : /\ SearchHolds(graph, order, s) /\ SearchEnds(order, one, s)
                /\ Search(graph, order, one) = s.cycles
<1> DEFINE S == Searches(graph)
           E == {s \in S : SearchEnds(order, one, s)}
           step == [s \in S |-> IF s \in E THEN s ELSE Visit(graph, order, s)]
           I == {s \in S : SearchHolds(graph, order, s)}
           x == [s \in I |-> Cardinality(Left(graph, s))]
           y == [s \in I |-> Len(s.trail)]
           z == [s \in I |-> Rest(graph, order, s)]
<1>1. PICK f : /\ f = [s \in S |-> IF SearchEnds(order, one, s) THEN s ELSE f[Visit(graph, order, s)]]
               /\ Search(graph, order, one) = f[Start].cycles
  BY SearchIs
<1>2. \A s \in S : ~SearchEnds(order, one, s) => Visit(graph, order, s) \in S
  BY VisitIs DEF SearchEnds
<1>3. step \in [S -> S] /\ E \in SUBSET S /\ I \in SUBSET S
  BY <1>2
<1>4. f = [s \in S |-> IF s \in E THEN s ELSE f[step[s]]]
  <2> DEFINE h == [s \in S |-> IF SearchEnds(order, one, s) THEN s ELSE f[Visit(graph, order, s)]]
  <2>1. \A s \in S : (IF s \in E THEN s ELSE f[step[s]])
                     = IF SearchEnds(order, one, s) THEN s ELSE f[Visit(graph, order, s)]
    OBVIOUS
  <2>2. [s \in S |-> IF s \in E THEN s ELSE f[step[s]]] = h
    BY <2>1
  <2> HIDE DEF S, E, step, h
  <2> QED BY <1>1, <2>2 DEF h
<1>5. ASSUME NEW s \in I PROVE /\ IsFiniteSet(Left(graph, s)) /\ Cardinality(Left(graph, s)) \in Nat
                               /\ Len(s.trail) \in Nat /\ Rest(graph, order, s) \in Nat
  <2>1. TrailHolds(graph, order, s)
    BY DEF SearchHolds
  <2>2. IsFiniteSet(Left(graph, s)) /\ Cardinality(Left(graph, s)) \in Nat
    <3>1. Left(graph, s) \subseteq DOMAIN graph /\ IsFiniteSet(DOMAIN graph)
      BY DEF Left, IsGraph
    <3> QED BY <3>1, FS_Subset, FS_CardinalityType
  <2>3. Len(s.trail) \in Nat
    BY <2>1, TrailIs
  <2>4. Len(s.trail) + 1 \in 1..Len(s.trail) + 1
    BY <2>3
  <2>5. PICK W : List(graph, order, s.trail, Len(s.trail) + 1) \in Seq(W)
    BY <2>1, <2>4, ListIsSequence
  <2>6. s.next[Len(s.trail) + 1] \in 1..Len(List(graph, order, s.trail, Len(s.trail) + 1)) + 1
    BY <2>1, <2>4 DEF TrailHolds
  <2>7. Rest(graph, order, s) \in Nat
    BY <2>5, <2>6 DEF Rest
  <2> QED BY <2>2, <2>3, <2>7
<1>6. x \in [I -> Nat] /\ y \in [I -> Nat] /\ z \in [I -> Nat]
  BY <1>5
<1>7. ASSUME NEW s \in I \ E
      PROVE  /\ step[s] \in I
             /\ \/ x[step[s]] < x[s]
                \/ x[step[s]] = x[s] /\ y[step[s]] < y[s]
                \/ x[step[s]] = x[s] /\ y[step[s]] = y[s] /\ z[step[s]] < z[s]
  <2> DEFINE t == Visit(graph, order, s)
  <2>1. s \in S /\ step[s] = t /\ ~SearchEnds(order, one, s) /\ SearchHolds(graph, order, s)
    OBVIOUS
  <2>2. ~(s.trail = <<>> /\ s.next[1] > Len(order))
    BY <2>1 DEF SearchEnds
  <2>3. SearchHolds(graph, order, t) /\ Nearer(graph, order, t, s)
    BY <2>1, <2>2, VisitKeeps
  <2> HIDE DEF t, step
  <2>4. t \in S /\ t \in I
    BY <2>3 DEF SearchHolds, TrailHolds
  <2>5. /\ x[t] = Cardinality(Left(graph, t)) /\ x[s] = Cardinality(Left(graph, s))
        /\ y[t] = Len(t.trail) /\ y[s] = Len(s.trail)
        /\ z[t] = Rest(graph, order, t) /\ z[s] = Rest(graph, order, s)
    BY <2>4
  <2> HIDE DEF x, y, z, I
  <2>6. \/ x[t] < x[s]
        \/ x[t] = x[s] /\ y[t] < y[s]
        \/ x[t] = x[s] /\ y[t] = y[s] /\ z[t] < z[s]
    <3>1. CASE Left(graph, t) \subseteq Left(graph, s) /\ Left(graph, t) # Left(graph, s)
      <4>1. IsFiniteSet(Left(graph, s))
        BY <1>5
      <4>2. Cardinality(Left(graph, t)) < Cardinality(Left(graph, s))
        BY <1>5, <2>4, <3>1, <4>1, FS_Subset
      <4> QED BY <2>5, <4>2
    <3>2. CASE Left(graph, t) = Left(graph, s) /\ Len(t.trail) < Len(s.trail)
      BY <2>5, <3>2
    <3>3. CASE /\ Left(graph, t) = Left(graph, s) /\ Len(t.trail) = Len(s.trail)
               /\ Rest(graph, order, t) < Rest(graph, order, s)
      BY <2>5, <3>3
    <3> QED BY <2>3, <3>1, <3>2, <3>3 DEF Nearer
  <2> QED BY <2>1, <2>4, <2>6
<1>8. Start \in I
  BY StartHolds DEF SearchHolds, TrailHolds
<1>9. f[Start] \in I \cap E
  <2> HIDE DEF S, E, step, I, x, y, z
  <2>1. \A s \in I : f[s] \in I \cap E
    BY <1>3, <1>4, <1>6, <1>7, LoopEnds
  <2> QED BY <1>8, <2>1
<1> QED BY <1>1, <1>9

LEMMA SearchFinds ==
  ASSUME NEW graph, NEW order, IsGraph(graph, order), NEW one,
         NEW found, found = Search(graph, order, one)
  PROVE  /\ found \in Seq(Seq(DOMAIN graph))
         /\ \A i \in 1..Len(found) : IsRound(graph, found[i])
         /\ found # <<>> <=> OnCycle(graph) # {}
<1>1. PICK s : /\ SearchHolds(graph, order, s) /\ SearchEnds(order, one, s) /\ found = s.cycles
  BY SearchComesTo
<1>2. TrailHolds(graph, order, s)
  BY <1>1 DEF SearchHolds
<1>3. found \in Seq(Seq(DOMAIN graph)) /\ \A i \in 1..Len(found) : IsRound(graph, found[i])
  <2>1. found \in Seq(Seq(DOMAIN graph))
    BY <1>1, <1>2, TrailIs
  <2> QED BY <1>1, <1>2, <2>1 DEF TrailHolds
<1>4. ASSUME found # <<>> PROVE OnCycle(graph) # {}
  <2>1. 1 \in 1..Len(found)
    BY <1>3, <1>4, EmptySeq
  <2>2. found[1] \in Seq(DOMAIN graph) /\ IsRound(graph, found[1])
    BY <1>3, <2>1
  <2> QED BY <2>2, RoundIsCircular
<1>5. ASSUME found = <<>> PROVE OnCycle(graph) = {}
  <2>1. VisitedHolds(graph, order, s) /\ s.trail = <<>> /\ s.next[1] > Len(order)
    BY <1>1, <1>5 DEF SearchHolds, SearchEnds
  <2>2. Len(s.trail) = 0 /\ 1 \in 1..Len(s.trail) + 1 /\ ~(1 <= Len(s.trail))
    BY <2>1
  <2>3. Len(order) \in Nat /\ s.next[1] \in Nat /\ DOMAIN graph = {order[j] : j \in 1..Len(order)}
    <3>1. order \in Seq(DOMAIN graph) /\ DOMAIN graph = ToSet(order)
      BY DEF IsGraph
    <3>2. s.next \in Seq(Nat) /\ Len(s.next) = Len(s.trail) + 1
      BY <1>2, TrailIs
    <3> QED BY <2>2, <3>1, <3>2 DEF ToSet
  <2>4. \A j \in 1..Len(order) : j \in 1..s.next[1] - 1
    BY <2>1, <2>3
  <2>5. List(graph, order, s.trail, 1) = order
    BY DEF List
  <2>6. ASSUME NEW n \in DOMAIN graph PROVE n \in s.visited
    <3>1. PICK j \in 1..Len(order) : n = order[j]
      BY <2>3
    <3> QED BY <2>1, <2>2, <2>4, <2>5, <3>1 DEF VisitedHolds
  <2> QED BY <2>1, <2>6 DEF VisitedHolds, OnCycle
<1> QED BY <1>3, <1>4, <1>5

\* What find_dependency_cycle hands on: the round, and its node once more.
LEMMA ReportedIs ==
  ASSUME NEW N, NEW found \in Seq(Seq(N)), found # <<>>, NEW graph, IsRound(graph, found[1])
  PROVE  /\ Reported(found) # <<>> /\ Front(Reported(found)) = found[1]
         /\ Last(Reported(found)) = Reported(found)[1]
<1> DEFINE c == found[1]
           one == Append(c, Last(c))
<1>1. Len(found) \in Nat /\ Len(found) > 0 /\ c \in Seq(N)
  BY EmptySeq
<1>2. Len(c) \in Nat /\ Len(c) > 1 /\ c[1] = Last(c) /\ 1 \in 1..Len(c) /\ Len(c) \in 1..Len(c)
  BY <1>1 DEF IsRound
<1>3. Reported(found) = one
  BY DEF Reported
<1> HIDE DEF c
<1>4. Last(c) \in N
  BY <1>1, <1>2 DEF Last
<1>5. /\ one \in Seq(N) /\ Len(one) = Len(c) + 1 /\ one[Len(c) + 1] = Last(c)
      /\ \A i \in 1..Len(c) : one[i] = c[i]
  BY <1>1, <1>4
<1> HIDE DEF one
<1>6. one # <<>> /\ Last(one) = one[1]
  BY <1>2, <1>5 DEF Last
<1>7. Front(one) = c
  <2>1. /\ SubSeq(one, 1, Len(one) - 1) \in Seq(N)
        /\ Len(SubSeq(one, 1, Len(one) - 1)) = Len(one) - 1
        /\ \A i \in 1..Len(one) - 1 : SubSeq(one, 1, Len(one) - 1)[i] = one[i]
    BY <1>5, <1>6, ShorterTrail
  <2>2. Len(one) - 1 = Len(c)
    BY <1>2, <1>5
  <2> QED BY <1>1, <1>5, <2>1, <2>2 DEF Front
<1> QED BY <1>3, <1>6, <1>7 DEF c

\* Both searches find a cycle just when there is one, and what they answer leads along the
\* dependencies back to where it began (find_dependency_cycle, _cycles): for graphs of any size.
THEOREM SearchesFindCycles ==
  ASSUME NEW graph, NEW order, IsGraph(graph, order)
  PROVE  LET one == FindCycle(graph, order)  all == Cycles(graph, order) IN
         /\ one # <<>> <=> OnCycle(graph) # {}
         /\ all # <<>> <=> OnCycle(graph) # {}
         /\ one # <<>> => IsRound(graph, Front(one)) /\ Last(one) = one[1]
         /\ \A c \in ToSet(all) : IsRound(graph, c)
<1> DEFINE found == Search(graph, order, TRUE)
           one == FindCycle(graph, order)
           all == Cycles(graph, order)
<1>1. /\ found \in Seq(Seq(DOMAIN graph))
      /\ \A i \in 1..Len(found) : IsRound(graph, found[i])
      /\ found # <<>> <=> OnCycle(graph) # {}
  BY SearchFinds
<1>2. /\ all \in Seq(Seq(DOMAIN graph))
      /\ \A i \in 1..Len(all) : IsRound(graph, all[i])
      /\ all # <<>> <=> OnCycle(graph) # {}
  BY SearchFinds DEF Cycles
<1>3. one = Reported(found)
  BY DEF FindCycle
<1>4. \A c \in ToSet(all) : IsRound(graph, c)
  <2> HIDE DEF all
  <2>1. ToSet(all) = {all[i] : i \in 1..Len(all)}
    BY <1>2 DEF ToSet
  <2> QED BY <1>2, <2>1
<1> HIDE DEF found, one, all
<1>5. ASSUME found = <<>> PROVE one = <<>>
  BY <1>3, <1>5 DEF Reported
<1>6. ASSUME found # <<>>
      PROVE  one # <<>> /\ IsRound(graph, Front(one)) /\ Last(one) = one[1]
  <2>1. 1 \in 1..Len(found)
    BY <1>1, <1>6, EmptySeq
  <2>2. IsRound(graph, found[1])
    BY <1>1, <2>1
  <2>3. one # <<>> /\ Front(one) = found[1] /\ Last(one) = one[1]
    BY <1>1, <1>3, <1>6, <2>2, ReportedIs
  <2> QED BY <2>2, <2>3
<1>7. /\ one # <<>> <=> OnCycle(graph) # {}
      /\ all # <<>> <=> OnCycle(graph) # {}
      /\ one # <<>> => IsRound(graph, Front(one)) /\ Last(one) = one[1]
      /\ \A c \in ToSet(all) : IsRound(graph, c)
  BY <1>1, <1>2, <1>5, <1>6, <1>4
<1> QED BY <1>7 DEF one, all

-----------------------------------------------------------------------------
(* Part 8: the rounds.                                                     *)

NoneTwice(q) == \A i, j \in 1..Len(q) : q[i] = q[j] => i = j

\* A sequence has as many members as places just when it has none twice.
LEMMA NoneTwiceIs ==
  ASSUME NEW N, NEW q \in Seq(N)
  PROVE  /\ IsFiniteSet(ToSet(q)) /\ Cardinality(ToSet(q)) \in Nat
         /\ Cardinality(ToSet(q)) = Len(q) <=> NoneTwice(q)
<1>1. Len(q) \in Nat /\ ToSet(q) = {q[i] : i \in 1..Len(q)} /\ q \in [1..Len(q) -> ToSet(q)]
  BY DEF ToSet
<1>2. q \in Surjection(1..Len(q), ToSet(q))
  BY <1>1 DEF Surjection
<1>3. IsFiniteSet(1..Len(q)) /\ Cardinality(1..Len(q)) = Len(q)
  BY <1>1, FS_Interval
<1>4. /\ IsFiniteSet(ToSet(q))
      /\ Cardinality(ToSet(q)) = Len(q) <=> q \in Injection(1..Len(q), ToSet(q))
  BY <1>2, <1>3, FS_Surjection
<1>5. q \in Injection(1..Len(q), ToSet(q)) <=> NoneTwice(q)
  BY <1>1 DEF Injection, IsInjective, NoneTwice
<1> QED BY <1>4, <1>5, FS_CardinalityType

\* Nodes listed once, whose dependencies are sequences of anything, are a graph in this order.
LEMMA ListedIsGraph ==
  ASSUME NEW nodes, nodes \in Seq(ToSet(nodes)), Len(nodes) = Cardinality(ToSet(nodes)), NEW V,
         NEW lists, lists \subseteq Seq(V), NEW graph \in [ToSet(nodes) -> lists]
  PROVE  IsGraph(graph, nodes) /\ NoneTwice(nodes)
<1>1. IsFiniteSet(ToSet(nodes)) /\ NoneTwice(nodes)
  BY NoneTwiceIs
<1>2. DOMAIN graph = ToSet(nodes) /\ \A n \in DOMAIN graph : graph[n] \in Seq(V)
  OBVIOUS
<1> QED BY <1>1, <1>2 DEF IsGraph

\* Processes are taken once, after all that they depend on; what is taken in a round is taken in
\* order, and none is passed over whose dependencies were complete when it began.
InOrder(graph, q) == \A i \in 1..Len(q) : \A n \in ToSet(graph[q[i]]) : \E j \in 1..i - 1 : q[j] = n

RoundHolds(graph, order, s) ==
  /\ s \in Rounds(graph) /\ s.at <= Len(order) + 1
  /\ NoneTwice(s.taken)
  /\ s.completed \subseteq ToSet(s.taken)
  /\ InOrder(graph, s.taken)
  /\ \A n \in ToSet(s.taken) \ s.completed : \E j \in 1..s.at - 1 : order[j] = n
  /\ \A j \in 1..s.at - 1 : ToSet(graph[order[j]]) \subseteq s.completed => order[j] \in ToSet(s.taken)

LEMMA RoundIsInRounds ==
  ASSUME NEW graph, NEW order \in Seq(DOMAIN graph), NEW s \in Rounds(graph)
  PROVE  Round(graph, order, s) \in Rounds(graph)
<1>1. s.taken \in Seq(DOMAIN graph) /\ s.completed \subseteq DOMAIN graph /\ s.at \in Nat \ {0}
  BY DEF Rounds
<1>2. CASE s.at > Len(order)
  <2>1. ToSet(s.taken) \subseteq DOMAIN graph
    BY <1>1 DEF ToSet
  <2> QED BY <1>1, <1>2, <2>1 DEF Round, Rounds
<1>3. CASE ~(s.at > Len(order))
  <2>1. s.at \in 1..Len(order) /\ order[s.at] \in DOMAIN graph
    BY <1>1, <1>3
  <2>2. Append(s.taken, order[s.at]) \in Seq(DOMAIN graph)
    BY <1>1, <2>1
  <2> DEFINE taken == IF order[s.at] \notin s.completed /\ ToSet(graph[order[s.at]]) \subseteq s.completed
                      THEN Append(s.taken, order[s.at]) ELSE s.taken
  <2>3. taken \in Seq(DOMAIN graph) /\ s.at + 1 \in Nat \ {0}
    <3>1. s.at + 1 \in Nat \ {0}
      BY <1>1
    <3>2. taken = s.taken \/ taken = Append(s.taken, order[s.at])
      OBVIOUS
    <3> HIDE DEF taken
    <3>3. s.taken \in Seq(DOMAIN graph)
      BY <1>1
    <3> QED BY <2>2, <3>1, <3>2, <3>3
  <2>4. Round(graph, order, s) = [taken |-> taken, completed |-> s.completed, at |-> s.at + 1]
    BY <1>3 DEF Round
  <2> HIDE DEF taken
  <2> QED BY <1>1, <2>3, <2>4 DEF Rounds
<1> QED BY <1>2, <1>3

LEMMA RoundKeeps ==
  ASSUME NEW graph, NEW order, IsGraph(graph, order), NoneTwice(order),
         NEW s, RoundHolds(graph, order, s), ~RoundsEnd(order, s)
  PROVE  LET t == Round(graph, order, s) IN
         /\ RoundHolds(graph, order, t)
         /\ \/ s.completed \subseteq t.completed /\ s.completed # t.completed
            \/ t.completed = s.completed /\ t.at = s.at + 1 /\ s.at <= Len(order)
<1> DEFINE t == Round(graph, order, s)
           n == order[s.at]
<1>1. /\ s.taken \in Seq(DOMAIN graph) /\ s.completed \subseteq DOMAIN graph /\ s.at \in Nat \ {0}
      /\ order \in Seq(DOMAIN graph) /\ Len(order) \in Nat /\ Len(s.taken) \in Nat
      /\ s \in Rounds(graph)
  BY DEF RoundHolds, Rounds, IsGraph
<1>2. t \in Rounds(graph)
  BY <1>1, RoundIsInRounds
<1>3. ToSet(s.taken) = {s.taken[i] : i \in 1..Len(s.taken)}
  BY <1>1 DEF ToSet
<1>4. CASE s.at > Len(order)
  <2>1. t.taken = s.taken /\ t.completed = ToSet(s.taken) /\ t.at = 1
    BY <1>4 DEF Round
  <2>2. RoundHolds(graph, order, t)
    BY <1>1, <1>2, <2>1 DEF RoundHolds
  <2>3. s.completed \subseteq t.completed /\ s.completed # t.completed
    BY <1>4, <2>1 DEF RoundHolds, RoundsEnd
  <2> QED BY <2>2, <2>3
<1>5. CASE ~(s.at > Len(order))
  <2>1. /\ t.taken = IF n \notin s.completed /\ ToSet(graph[n]) \subseteq s.completed
                     THEN Append(s.taken, n) ELSE s.taken
        /\ t.completed = s.completed /\ t.at = s.at + 1
    BY <1>5 DEF Round
  <2>2. s.at \in 1..Len(order) /\ n \in DOMAIN graph /\ t.at <= Len(order) + 1
    BY <1>1, <1>5, <2>1
  <2>3. \A j \in 1..t.at - 1 : j \in 1..s.at - 1 \/ j = s.at
    BY <1>1, <2>1
  <2>4. s.at \in 1..t.at - 1 /\ \A j \in 1..s.at - 1 : j \in 1..t.at - 1
    BY <1>1, <2>1
  <2> HIDE DEF t, n
  <2>5. CASE n \notin s.completed /\ ToSet(graph[n]) \subseteq s.completed
    <3>1. n \notin ToSet(s.taken)
      <4>1. SUFFICES ASSUME n \in ToSet(s.taken) PROVE FALSE
        OBVIOUS
      <4>2. PICK j \in 1..s.at - 1 : order[j] = n
        BY <2>5, <4>1 DEF RoundHolds
      <4>3. j \in 1..Len(order) /\ j # s.at
        BY <1>1, <2>2
      <4> QED BY <2>2, <4>2, <4>3 DEF NoneTwice, n
    <3>2. /\ t.taken = Append(s.taken, n) /\ t.taken \in Seq(DOMAIN graph)
          /\ Len(t.taken) = Len(s.taken) + 1 /\ t.taken[Len(s.taken) + 1] = n
          /\ \A i \in 1..Len(s.taken) : t.taken[i] = s.taken[i]
      BY <1>1, <2>1, <2>2, <2>5
    <3>3. \A i \in 1..Len(t.taken) : i \in 1..Len(s.taken) \/ i = Len(s.taken) + 1
      BY <1>1, <3>2
    <3>4. ToSet(t.taken) = ToSet(s.taken) \cup {n}
      <4>1. ToSet(t.taken) = {t.taken[i] : i \in 1..Len(t.taken)}
        BY <3>2 DEF ToSet
      <4>2. Len(s.taken) + 1 \in 1..Len(t.taken) /\ \A i \in 1..Len(s.taken) : i \in 1..Len(t.taken)
        BY <1>1, <3>2
      <4>3. ToSet(t.taken) \subseteq ToSet(s.taken) \cup {n}
        BY <1>3, <3>2, <3>3, <4>1
      <4>4. ToSet(s.taken) \cup {n} \subseteq ToSet(t.taken)
        BY <1>3, <3>2, <4>1, <4>2
      <4> QED BY <4>3, <4>4
    <3>5. NoneTwice(t.taken)
      <4>1. \A i \in 1..Len(s.taken) : s.taken[i] # n
        BY <1>3, <3>1
      <4>2. NoneTwice(s.taken)
        BY DEF RoundHolds
      <4> QED BY <3>2, <3>3, <4>1, <4>2 DEF NoneTwice
    <3>6. InOrder(graph, t.taken)
      <4> SUFFICES ASSUME NEW i \in 1..Len(t.taken), NEW m \in ToSet(graph[t.taken[i]])
                   PROVE  \E j \in 1..i - 1 : t.taken[j] = m
        BY DEF InOrder
      <4>1. CASE i \in 1..Len(s.taken)
        <5>1. PICK j \in 1..i - 1 : s.taken[j] = m
          BY <3>2, <4>1 DEF RoundHolds, InOrder
        <5>2. j \in 1..Len(s.taken)
          BY <1>1, <4>1
        <5> QED BY <3>2, <5>1, <5>2
      <4>2. CASE i = Len(s.taken) + 1
        <5>1. m \in ToSet(s.taken)
          BY <2>5, <3>2, <4>2 DEF RoundHolds
        <5>2. PICK j \in 1..Len(s.taken) : s.taken[j] = m
          BY <1>3, <5>1
        <5>3. j \in 1..i - 1
          BY <1>1, <4>2
        <5> QED BY <3>2, <5>2, <5>3
      <4> QED BY <3>3, <4>1, <4>2
    <3>7. \A m \in ToSet(t.taken) \ t.completed : \E j \in 1..t.at - 1 : order[j] = m
      BY <2>1, <2>4, <3>4 DEF RoundHolds, n
    <3>8. \A j \in 1..t.at - 1 : ToSet(graph[order[j]]) \subseteq t.completed => order[j] \in ToSet(t.taken)
      BY <2>1, <2>3, <3>4 DEF RoundHolds, n
    <3>9. t.completed \subseteq ToSet(t.taken)
      BY <2>1, <3>4 DEF RoundHolds
    <3>10. RoundHolds(graph, order, t)
      BY <1>2, <2>2, <3>5, <3>6, <3>7, <3>8, <3>9 DEF RoundHolds, t
    <3> QED BY <1>5, <2>1, <2>2, <3>10 DEF t
  <2>6. CASE ~(n \notin s.completed /\ ToSet(graph[n]) \subseteq s.completed)
    <3>1. t.taken = s.taken
      BY <2>1, <2>6
    <3>2. \A m \in ToSet(t.taken) \ t.completed : \E j \in 1..t.at - 1 : order[j] = m
      BY <2>1, <2>4, <3>1 DEF RoundHolds
    <3>3. \A j \in 1..t.at - 1 : ToSet(graph[order[j]]) \subseteq t.completed => order[j] \in ToSet(t.taken)
      BY <2>1, <2>3, <2>6, <3>1 DEF RoundHolds, n
    <3>4. RoundHolds(graph, order, t)
      <4>1. t.completed \subseteq ToSet(t.taken) /\ NoneTwice(t.taken)
        BY <2>1, <3>1 DEF RoundHolds
      <4>2. InOrder(graph, t.taken)
        BY <3>1 DEF RoundHolds
      <4>3. t \in Rounds(graph)
        BY <1>2 DEF t
      <4> QED BY <2>2, <3>2, <3>3, <4>1, <4>2, <4>3 DEF RoundHolds
    <3> QED BY <1>5, <2>1, <2>2, <3>4 DEF t
  <2> QED BY <2>5, <2>6
<1> QED BY <1>4, <1>5

\* The rounds come to an end, and then their invariant tells what has been taken.
LEMMA TakenComesTo ==
  ASSUME NEW graph, NEW order, IsGraph(graph, order), NoneTwice(order)
  PROVE  \E s : /\ RoundHolds(graph, order, s) /\ RoundsEnd(order, s)
                /\ Taken(graph, order) = s.taken
<1> DEFINE S == Rounds(graph)
           E == {s \in S : RoundsEnd(order, s)}
           step == [s \in S |-> IF s \in E THEN s ELSE Round(graph, order, s)]
           first == [taken |-> <<>>, completed |-> {}, at |-> 1]
           f == CHOOSE g : g = [s \in S |-> IF RoundsEnd(order, s) THEN s ELSE g[Round(graph, order, s)]]
           I == {s \in S : RoundHolds(graph, order, s)}
           x == [s \in I |-> Cardinality(DOMAIN graph \ s.completed)]
           y == [s \in I |-> Len(order) + 1 - s.at]
           z == [s \in I |-> 0]
<1>1. order \in Seq(DOMAIN graph) /\ Len(order) \in Nat /\ IsFiniteSet(DOMAIN graph)
  BY DEF IsGraph
<1>2. \A s \in S : Round(graph, order, s) \in S
  BY <1>1, RoundIsInRounds
<1>3. step \in [S -> S] /\ E \in SUBSET S /\ I \in SUBSET S
  BY <1>2
<1>4. PICK g : g = [s \in S |-> IF s \in E THEN s ELSE g[step[s]]]
  <2> HIDE DEF S, E, step
  <2> QED BY <1>3, LoopExists
<1>5. \A h : [s \in S |-> IF s \in E THEN s ELSE h[step[s]]]
             = [s \in S |-> IF RoundsEnd(order, s) THEN s ELSE h[Round(graph, order, s)]]
  <2> TAKE h
  <2> \A s \in S : (IF s \in E THEN s ELSE h[step[s]])
                   = IF RoundsEnd(order, s) THEN s ELSE h[Round(graph, order, s)]
    OBVIOUS
  <2> QED OBVIOUS
<1>6. f = [s \in S |-> IF s \in E THEN s ELSE f[step[s]]]
  <2>1. g = [s \in S |-> IF RoundsEnd(order, s) THEN s ELSE g[Round(graph, order, s)]]
    <3> HIDE DEF S, E, step
    <3> QED BY <1>4, <1>5
  <2>2. f = [s \in S |-> IF RoundsEnd(order, s) THEN s ELSE f[Round(graph, order, s)]]
    <3> HIDE DEF S
    <3> QED BY <2>1
  <2> HIDE DEF S, E, step, f
  <2> QED BY <1>5, <2>2
<1>7. Taken(graph, order) = f[first].taken
  BY DEF Taken
<1> HIDE DEF f
<1>8. ASSUME NEW s \in I PROVE /\ IsFiniteSet(DOMAIN graph \ s.completed)
                               /\ Cardinality(DOMAIN graph \ s.completed) \in Nat
                               /\ Len(order) + 1 - s.at \in Nat
  <2>1. IsFiniteSet(DOMAIN graph \ s.completed) /\ Cardinality(DOMAIN graph \ s.completed) \in Nat
    BY <1>1, FS_Subset, FS_CardinalityType
  <2>2. s.at \in Nat /\ s.at <= Len(order) + 1
    BY DEF RoundHolds, Rounds
  <2> QED BY <1>1, <2>1, <2>2
<1>9. x \in [I -> Nat] /\ y \in [I -> Nat] /\ z \in [I -> Nat]
  BY <1>8
<1>10. ASSUME NEW s \in I \ E
       PROVE  /\ step[s] \in I
              /\ \/ x[step[s]] < x[s]
                 \/ x[step[s]] = x[s] /\ y[step[s]] < y[s]
                 \/ x[step[s]] = x[s] /\ y[step[s]] = y[s] /\ z[step[s]] < z[s]
  <2> DEFINE t == Round(graph, order, s)
  <2>1. s \in S /\ step[s] = t /\ ~RoundsEnd(order, s) /\ RoundHolds(graph, order, s)
    OBVIOUS
  <2>2. /\ RoundHolds(graph, order, t)
        /\ \/ s.completed \subseteq t.completed /\ s.completed # t.completed
           \/ t.completed = s.completed /\ t.at = s.at + 1 /\ s.at <= Len(order)
    BY <2>1, RoundKeeps
  <2> HIDE DEF t, step
  <2>3. t \in I /\ s.at \in Nat /\ t.completed \subseteq DOMAIN graph
    BY <2>1, <2>2 DEF RoundHolds, Rounds
  <2>4. /\ x[t] = Cardinality(DOMAIN graph \ t.completed) /\ x[s] = Cardinality(DOMAIN graph \ s.completed)
        /\ y[t] = Len(order) + 1 - t.at /\ y[s] = Len(order) + 1 - s.at
    BY <2>3
  <2> HIDE DEF x, y, z, I
  <2>5. CASE s.completed \subseteq t.completed /\ s.completed # t.completed
    <3>1. /\ DOMAIN graph \ t.completed \subseteq DOMAIN graph \ s.completed
          /\ DOMAIN graph \ t.completed # DOMAIN graph \ s.completed
      BY <2>3, <2>5
    <3>2. IsFiniteSet(DOMAIN graph \ s.completed)
      BY <1>8
    <3>3. Cardinality(DOMAIN graph \ t.completed) < Cardinality(DOMAIN graph \ s.completed)
      <4> DEFINE A == DOMAIN graph \ t.completed
                 B == DOMAIN graph \ s.completed
      <4>1. A \subseteq B /\ A # B /\ IsFiniteSet(B)
        BY <3>1, <3>2
      <4> HIDE DEF A, B
      <4>2. Cardinality(A) < Cardinality(B)
        BY <4>1, FS_Subset, FS_CardinalityType
      <4> QED BY <4>2 DEF A, B
    <3> QED BY <2>1, <2>3, <2>4, <3>3
  <2>6. CASE t.completed = s.completed /\ t.at = s.at + 1 /\ s.at <= Len(order)
    <3>1. Len(order) + 1 - t.at < Len(order) + 1 - s.at
      BY <1>1, <2>3, <2>6
    <3> QED BY <2>1, <2>3, <2>4, <2>6, <3>1
  <2> QED BY <2>2, <2>5, <2>6
<1>11. first \in I
  <2>1. <<>> \in Seq(DOMAIN graph) /\ ToSet(<<>>) = {} /\ Len(<<>>) = 0
    BY DEF ToSet
  <2>2. first.taken = <<>> /\ first.completed = {} /\ first.at = 1
    OBVIOUS
  <2>3. first \in Rounds(graph)
    BY <2>1 DEF Rounds
  <2> HIDE DEF first
  <2>4. NoneTwice(first.taken) /\ InOrder(graph, first.taken)
    BY <2>1, <2>2 DEF NoneTwice, InOrder
  <2> QED BY <1>1, <2>1, <2>2, <2>3, <2>4 DEF RoundHolds
<1>12. f[first] \in I \cap E
  <2> HIDE DEF S, E, step, I, x, y, z, first
  <2>1. \A s \in I : f[s] \in I \cap E
    BY <1>3, <1>6, <1>9, <1>10, LoopEnds
  <2> QED BY <1>11, <2>1
<1> QED BY <1>7, <1>12

\* Where everything that a process depends on comes before it, nothing is on a cycle.
LEMMA OrderedIsAcyclic ==
  ASSUME NEW graph, NEW q \in Seq(DOMAIN graph), NoneTwice(q), InOrder(graph, q),
         ToSet(q) = DOMAIN graph
  PROVE  OnCycle(graph) = {}
<1> SUFFICES ASSUME NEW n \in DOMAIN graph, n \in Reaches(graph, n) PROVE FALSE
  BY DEF OnCycle
<1>1. Len(q) \in Nat /\ ToSet(q) = {q[i] : i \in 1..Len(q)}
  BY DEF ToSet
<1>2. PICK i \in 1..Len(q) : q[i] = n
  BY <1>1
<1> DEFINE before == {q[j] : j \in 1..i - 1}
<1>3. \A j \in 1..i - 1 : j \in 1..Len(q) /\ j # i
  BY <1>1
<1>4. ASSUME NEW j \in 1..i, NEW m \in ToSet(graph[q[j]]) PROVE m \in before
  <2>1. j \in 1..Len(q)
    BY <1>1
  <2>2. PICK k \in 1..j - 1 : q[k] = m
    BY <2>1 DEF InOrder
  <2>3. k \in 1..i - 1
    BY <1>1
  <2> QED BY <2>2, <2>3
<1>5. before \subseteq DOMAIN graph
  BY <1>3
<1>6. Closed(graph, before)
  <2>1. \A j \in 1..i - 1 : j \in 1..i
    BY <1>1
  <2>2. ASSUME NEW b \in before, NEW m \in ToSet(graph[b]) PROVE m \in before
    <3>1. PICK j \in 1..i - 1 : q[j] = b
      OBVIOUS
    <3>2. j \in 1..i
      BY <2>1
    <3> HIDE DEF before
    <3> QED BY <1>4, <2>2, <3>1, <3>2
  <2> HIDE DEF before
  <2> QED BY <2>2 DEF Closed
<1>7. ToSet(graph[n]) \cap DOMAIN graph \subseteq before
  <2>1. i \in 1..i
    BY <1>1
  <2> HIDE DEF before
  <2> QED BY <1>2, <1>4, <2>1
<1>8. n \in before
  <2> HIDE DEF before
  <2> QED BY <1>5, <1>6, <1>7, ReachesIs
<1>9. PICK j \in 1..i - 1 : q[j] = n
  BY <1>8
<1> QED BY <1>2, <1>3, <1>9 DEF NoneTwice

\* Processes are ordered just when every dependency is there and none is circular, and then each
\* comes once, after all that it depends on (orderedProcesses): for any number of processes.
THEOREM RoundsOrderProcesses ==
  ASSUME NEW graph, NEW order, IsGraph(graph, order), NoneTwice(order)
  PROVE  LET answer == OrderedProcesses(graph, order) IN
         /\ answer.ok <=> /\ \A n \in DOMAIN graph : ToSet(graph[n]) \subseteq DOMAIN graph
                          /\ OnCycle(graph) = {}
         /\ answer.ok =>
              /\ Len(answer.processes) = Len(order) /\ ToSet(answer.processes) = ToSet(order)
              /\ \A i \in 1..Len(order) :
                   ToSet(graph[answer.processes[i]]) \subseteq {answer.processes[j] : j \in 1..i-1}
<1> DEFINE answer == OrderedProcesses(graph, order)
           Complete == \A n \in DOMAIN graph : ToSet(graph[n]) \subseteq DOMAIN graph
<1>1. PICK s : /\ RoundHolds(graph, order, s) /\ RoundsEnd(order, s) /\ Taken(graph, order) = s.taken
  BY TakenComesTo
<1>2. /\ s.taken \in Seq(DOMAIN graph) /\ Len(s.taken) \in Nat /\ s.completed \subseteq DOMAIN graph
      /\ s.at \in Nat /\ order \in Seq(DOMAIN graph) /\ Len(order) \in Nat
      /\ ToSet(order) = DOMAIN graph /\ IsFiniteSet(DOMAIN graph)
  BY <1>1 DEF RoundHolds, Rounds, IsGraph
<1>3. Len(s.taken) = Cardinality(ToSet(s.taken)) /\ Len(order) = Cardinality(DOMAIN graph)
  BY <1>1, <1>2, NoneTwiceIs DEF RoundHolds
<1>4. ToSet(s.taken) = {s.taken[i] : i \in 1..Len(s.taken)}
  BY <1>2 DEF ToSet
<1>5. ToSet(s.taken) \subseteq DOMAIN graph
  BY <1>2, <1>4
<1>6. Len(s.taken) = Len(order) <=> ToSet(s.taken) = DOMAIN graph
  BY <1>2, <1>3, <1>5, FS_Subset
<1>7. /\ answer.ok <=> Complete /\ Len(s.taken) = Len(order)
      /\ answer.ok => answer.processes = s.taken
  BY <1>1 DEF OrderedProcesses
<1>8. ASSUME Len(s.taken) = Len(order) PROVE OnCycle(graph) = {}
  BY <1>1, <1>2, <1>6, <1>8, OrderedIsAcyclic DEF RoundHolds
<1>9. ASSUME Complete, Len(s.taken) # Len(order) PROVE OnCycle(graph) # {}
  <2> DEFINE U == DOMAIN graph \ s.completed
  <2>1. ToSet(s.taken) = s.completed /\ s.at > Len(order)
    BY <1>1, <1>9 DEF RoundsEnd
  <2>2. U # {}
    BY <1>2, <1>6, <1>9, <2>1
  <2>3. ASSUME NEW n \in U PROVE ToSet(graph[n]) \cap U # {}
    <3>1. ToSet(order) = {order[j] : j \in 1..Len(order)}
      BY <1>2 DEF ToSet
    <3>2. PICK j \in 1..Len(order) : order[j] = n
      BY <1>2, <3>1
    <3>3. j \in 1..s.at - 1
      BY <1>2, <2>1
    <3>4. ~(ToSet(graph[n]) \subseteq s.completed)
      BY <1>1, <2>1, <3>2, <3>3 DEF RoundHolds
    <3> QED BY <1>9, <3>4
  <2> HIDE DEF U
  <2> QED BY <1>2, <2>2, <2>3, EndlessIsCircular DEF U
<1>10. ASSUME Len(s.taken) = Len(order), NEW i \in 1..Len(order)
       PROVE  ToSet(graph[s.taken[i]]) \subseteq {s.taken[j] : j \in 1..i-1}
  <2>1. \A n \in ToSet(graph[s.taken[i]]) : \E j \in 1..i - 1 : s.taken[j] = n
    BY <1>1, <1>10 DEF RoundHolds, InOrder
  <2> QED BY <2>1
<1> HIDE DEF Complete, answer
<1>11. answer.ok <=> Complete /\ OnCycle(graph) = {}
  BY <1>7, <1>8, <1>9
<1>12. answer.ok =>
         /\ Len(answer.processes) = Len(order) /\ ToSet(answer.processes) = ToSet(order)
         /\ \A i \in 1..Len(order) :
              ToSet(graph[answer.processes[i]]) \subseteq {answer.processes[j] : j \in 1..i-1}
  <2> SUFFICES ASSUME answer.ok
               PROVE  /\ Len(answer.processes) = Len(order) /\ ToSet(answer.processes) = ToSet(order)
                      /\ \A i \in 1..Len(order) :
                           ToSet(graph[answer.processes[i]]) \subseteq {answer.processes[j] : j \in 1..i-1}
    OBVIOUS
  <2>1. answer.processes = s.taken /\ Len(s.taken) = Len(order)
    BY <1>7
  <2>2. ToSet(s.taken) = ToSet(order)
    BY <1>2, <1>6, <2>1
  <2>3. ASSUME NEW i \in 1..Len(order), NEW n \in ToSet(graph[answer.processes[i]])
        PROVE  \E j \in 1..i - 1 : n = answer.processes[j]
    BY <1>10, <2>1
  <2> QED BY <2>1, <2>2, <2>3
<1> QED BY <1>11, <1>12 DEF Complete, answer
=============================================================================
