----------------------------- MODULE PathPatterns ----------------------------
(***************************************************************************)
(* How .governance/governance_check.py matches a path with a pattern, and   *)
(* decides whether two patterns may share a path or one covers the other.    *)
(* A name is a sequence of letters, a path a sequence of names, a pattern a   *)
(* sequence of segments: a name, pre*suf, or the globstar.                    *)
(***************************************************************************)
EXTENDS Naturals, Sequences, SequencesExt

Name(n)      == [pre |-> n, suf |-> <<>>, stars |-> 0]
Glob(p, s)   == [pre |-> p, suf |-> s, stars |-> 1]
Globstar     == [pre |-> <<>>, suf |-> <<>>, stars |-> 2]

\* The segments over a set of letters.
Segments(letters) ==
  {s \in [pre : Seq(letters), suf : Seq(letters), stars : 0..2] :
     (s.stars = 0 => s.suf = <<>>) /\ (s.stars = 2 => s = Globstar)}

Magic(s) == s.stars > 0

\* fnmatch.fnmatchcase of one name with one segment.
NameMatches(n, s) ==
  IF Magic(s) THEN /\ Len(n) >= Len(s.pre) + Len(s.suf)
                   /\ IsPrefix(s.pre, n) /\ IsSuffix(s.suf, n)
  ELSE n = s.pre

\* Where a walk along two sequences can be, their ends included.
Places(s, t) == (1..Len(s) + 1) \X (1..Len(t) + 1)

Matches(path, pattern) ==
  LET visit[at \in Places(path, pattern)] ==
        LET i == at[1] j == at[2] IN
        IF j > Len(pattern) THEN i > Len(path)
        ELSE IF pattern[j] = Globstar
             THEN visit[<<i, j + 1>>] \/ (i <= Len(path) /\ visit[<<i + 1, j>>])
        ELSE i <= Len(path) /\ NameMatches(path[i], pattern[j]) /\ visit[<<i + 1, j + 1>>]
  IN  visit[<<1, 1>>]

\* Two globs overlap when of their literal ends one begins, and one ends, the other.
SegmentsMayOverlap(s, t) ==
  IF ~Magic(s) THEN NameMatches(s.pre, t)
  ELSE IF ~Magic(t) THEN NameMatches(t.pre, s)
  ELSE /\ IsPrefix(s.pre, t.pre) \/ IsPrefix(t.pre, s.pre)
       /\ IsSuffix(s.suf, t.suf) \/ IsSuffix(t.suf, s.suf)

PatternsMayOverlap(p, q) ==
  LET rest(r, k) == \A i \in k..Len(r) : r[i] = Globstar
      visit[at \in Places(p, q)] ==
        LET i == at[1] j == at[2] IN
        IF i > Len(p) THEN rest(q, j)
        ELSE IF j > Len(q) THEN rest(p, i)
        ELSE IF p[i] = Globstar \/ q[j] = Globstar
             THEN visit[<<i + 1, j>>] \/ visit[<<i, j + 1>>]
        ELSE SegmentsMayOverlap(p[i], q[j]) /\ visit[<<i + 1, j + 1>>]
  IN  visit[<<1, 1>>]

\* Mutant: only what the two segments begin with is compared.
SegmentBeginsWithin(s, owner) ==
  \/ s = owner
  \/ ~Magic(s) /\ NameMatches(s.pre, owner)
  \/ Magic(s) /\ owner.stars = 1 /\ IsPrefix(owner.pre, s.pre)

\* Any segment is within a lone star; one with literal ends is within another
\* when its ends extend those.
SegmentCoveredBy(s, owner) ==
  \/ s = owner
  \/ ~Magic(s) /\ NameMatches(s.pre, owner)
  \/ Magic(s) /\ owner = Glob(<<>>, <<>>)
  \/ /\ Magic(s) /\ owner.stars = 1
     /\ IsPrefix(owner.pre, s.pre) /\ IsSuffix(owner.suf, s.suf)

\* pattern_covered_by: compared segment by segment, up to the trailing globstar
\* of the owner or along two patterns of one length.
CoveredBy(p, owner) ==
  LET along(n) == \A i \in 1..n : SegmentCoveredBy(p[i], owner[i]) IN
  IF \A i \in 1..Len(p) : ~Magic(p[i])
  THEN Matches([i \in 1..Len(p) |-> p[i].pre], owner)
  ELSE \/ p = owner
       \/ Last(owner) = Globstar /\ Len(p) >= Len(owner) - 1 /\ along(Len(owner) - 1)
       \/ /\ Last(owner) # Globstar
          /\ Len(p) = Len(owner) /\ Globstar \notin ToSet(owner) /\ along(Len(p))
==============================================================================
