-------------------------- MODULE CloneHygieneProofs --------------------------
(***************************************************************************)
(* What holds of a clone however many tickets, worktrees, edits and commits*)
(* it has: pruning loses no work, the overlap check misses no collision and*)
(* blames nobody for imported content, a released ticket is integrated, and*)
(* work is admitted only where nobody else has some.                       *)
(*                                                                         *)
(* The proofs rest on the shape of the commit graph (part 1), which people *)
(* keep (part 2); each tool adds what it remembers of the clone (part 3).  *)
(***************************************************************************)
EXTENDS CloneHygiene, FiniteSetTheorems, SequenceTheorems, WellFoundedInduction, TLAPS

------------------------------------------------------------------------------
(* Part 1: commit graphs.                                                  *)

Node == [parents : SUBSET Nat, anc : SUBSET Nat, edits : SUBSET Edits,
         carriers : SUBSET Tickets, by : Tickets \cup {0}]

\* A commit is younger than its parents, descends from the first one, has the ancestors of
\* its parents and itself, and its tree has the edits of every ancestor.
SoundAt(g, c) ==
  /\ g[c].parents \subseteq 1..(c - 1)
  /\ g[c].anc \subseteq 1..c
  /\ 1 \in g[c].anc /\ c \in g[c].anc
  /\ \A x : x \in g[c].anc <=> x = c \/ \E p \in g[c].parents : x \in g[p].anc
  /\ \A d \in g[c].anc : g[d].anc \subseteq g[c].anc /\ g[d].edits \subseteq g[c].edits

Sound(g) ==
  /\ g \in Seq(Node)
  /\ \A c \in 1..Len(g) : SoundAt(g, c)

\* Commits never change, so those that are there stay sound.
LEMMA Grown ==
  ASSUME NEW g, Sound(g), NEW h \in Seq(Node), Len(g) <= Len(h),
         \A c \in 1..Len(g) : h[c] = g[c],
         \A c \in (Len(g) + 1)..Len(h) : SoundAt(h, c)
  PROVE  Sound(h)
<1>0. Len(g) \in Nat /\ Len(h) \in Nat
  BY DEF Sound
<1> SUFFICES ASSUME NEW c \in 1..Len(g) PROVE SoundAt(h, c)
  BY <1>0 DEF Sound
<1>1. SoundAt(g, c) /\ h[c] = g[c]
  BY DEF Sound
<1>2. \A p \in 1..c : h[p] = g[p]
  BY <1>0
<1>3. \A p \in g[c].parents : h[p] = g[p]
  BY <1>0, <1>1, <1>2 DEF SoundAt
<1>4. \A p \in g[c].anc : h[p] = g[p]
  BY <1>1, <1>2 DEF SoundAt
<1> QED BY <1>1, <1>3, <1>4 DEF SoundAt

\* Looking back along the graph.
LEMMA LooksBack ==
  ASSUME NEW g, Sound(g), NEW c \in 1..Len(g), NEW d \in g[c].anc
  PROVE  /\ d \in 1..Len(g) /\ d <= c
         /\ g[d].anc \subseteq g[c].anc /\ g[d].edits \subseteq g[c].edits
BY DEF Sound, SoundAt

\* A commit with parents that are there, and a tree with all that the parents have.
LEMMA NodeAdded ==
  ASSUME Sound(commits), NEW P \in SUBSET Ids, P # {},
         NEW E \in SUBSET Edits, NEW C \in SUBSET Tickets, NEW b \in Tickets \cup {0},
         \A p \in P : EditsOf(p) \subseteq E
  PROVE  Sound(Append(commits, NewCommit(P, E, C, b)))
<1> DEFINE n == Len(commits) + 1
           x == NewCommit(P, E, C, b)
           h == Append(commits, x)
<1>0. /\ Len(commits) \in Nat /\ Ids = 1..Len(commits)
      /\ commits \in Seq(Node)
  BY DEF Sound, Ids
<1>1. \A p \in P : SoundAt(commits, p) /\ p < n /\ p \in Nat
  BY <1>0 DEF Sound
<1>2. /\ x.parents = P /\ x.edits = E
      /\ x.anc = {n} \cup UNION {Anc(p) : p \in P}
  BY DEF NewCommit
<1>3. \A y : y \in x.anc <=> y = n \/ \E p \in P : y \in commits[p].anc
  BY <1>2 DEF Anc
<1>4. x.anc \subseteq 1..n
  BY <1>0, <1>1, <1>3 DEF SoundAt
<1>5. x \in Node
  <2>1. P \in SUBSET Nat /\ x.anc \in SUBSET Nat
    BY <1>0, <1>4
  <2> QED BY <2>1, <1>2 DEF NewCommit, Node
<1> HIDE DEF x
<1>6. /\ h \in Seq(Node) /\ Len(h) = n /\ h[n] = x
      /\ \A c \in 1..Len(commits) : h[c] = commits[c]
  BY <1>0, <1>5
<1>7. SoundAt(h, n)
  <2>1. \A p \in P : h[p] = commits[p]
    BY <1>0, <1>6
  <2>2. P \subseteq 1..(n - 1)
    BY <1>0
  <2>3. 1 \in x.anc
    BY <1>1, <1>3 DEF SoundAt
  <2>4. ASSUME NEW d \in x.anc
        PROVE  h[d].anc \subseteq x.anc /\ h[d].edits \subseteq x.edits
    <3>1. CASE d = n
      BY <3>1, <1>6
    <3>2. CASE \E p \in P : d \in commits[p].anc
      <4>1. PICK p \in P : d \in commits[p].anc
        BY <3>2
      <4>2. /\ d \in 1..Len(commits)
            /\ commits[d].anc \subseteq commits[p].anc
            /\ commits[d].edits \subseteq commits[p].edits
        BY <4>1, <1>0, LooksBack
      <4> QED BY <4>1, <4>2, <1>2, <1>3, <1>6 DEF EditsOf
    <3> QED BY <1>3, <3>1, <3>2
  <2> QED BY <1>2, <1>3, <1>4, <1>6, <2>1, <2>2, <2>3, <2>4 DEF SoundAt
<1>8. \A c \in (Len(commits) + 1)..Len(h) : c = n
  BY <1>0, <1>6
<1>9. Len(commits) <= Len(h)
  BY <1>0, <1>6
<1> HIDE DEF h
<1>10. Sound(h)
  BY <1>6, <1>7, <1>8, <1>9, Grown
<1> QED BY <1>10 DEF h, x

\* An interval and its last number.
LEMMA OneMore ==
  ASSUME NEW n \in Nat, NEW i \in Nat, 1 <= i
  PROVE  /\ \A u \in (n + 1)..(n + i) : u \in (n + 1)..(n + i - 1) \/ u = n + i
         /\ \A u \in (n + 1)..(n + i - 1) : u \in (n + 1)..(n + i)
         /\ n + i \in (n + 1)..(n + i)
  OBVIOUS

\* A chain of commits on top of one that is there, whose trees only grow.
LEMMA ChainAdded ==
  ASSUME NEW g, Sound(g), NEW o \in 1..Len(g), NEW x \in Seq(Node),
         \A i \in 1..Len(x) :
           /\ x[i].parents = {IF i = 1 THEN o ELSE Len(g) + i - 1}
           /\ x[i].anc = g[o].anc \cup (Len(g) + 1)..(Len(g) + i)
           /\ g[o].edits \subseteq x[i].edits
           /\ \A j \in 1..i : x[j].edits \subseteq x[i].edits
  PROVE  Sound(g \o x)
<1> DEFINE n == Len(g)
           h == g \o x
<1>0. n \in Nat /\ Len(x) \in Nat /\ g \in Seq(Node)
  BY DEF Sound
<1>1. /\ h \in Seq(Node) /\ Len(h) = n + Len(x)
      /\ \A c \in 1..n : h[c] = g[c]
      /\ \A i \in 1..Len(x) : h[n + i] = x[i]
  BY <1>0
<1> HIDE DEF h
<1>2. o \in Nat /\ SoundAt(g, o) /\ h[o] = g[o] /\ o <= n /\ 1 <= o
  BY <1>0, <1>1 DEF Sound
<1>3. ASSUME NEW i \in 1..Len(x) PROVE SoundAt(h, n + i)
  <2> DEFINE y == x[i]
  <2>0. i \in Nat /\ 1 <= i /\ h[n + i] = y
    BY <1>0, <1>1
  <2>1. /\ y.parents = {IF i = 1 THEN o ELSE n + i - 1}
        /\ y.anc = g[o].anc \cup (n + 1)..(n + i)
        /\ g[o].edits \subseteq y.edits
        /\ \A j \in 1..i : x[j].edits \subseteq y.edits
    OBVIOUS
  <2> HIDE DEF y
  <2>2. y.parents \subseteq 1..(n + i - 1)
    BY <1>0, <1>2, <2>0, <2>1
  <2>3. y.anc \subseteq 1..(n + i)
    BY <1>0, <1>2, <2>0, <2>1 DEF SoundAt
  <2>4. 1 \in y.anc /\ n + i \in y.anc
    BY <1>0, <1>2, <2>0, <2>1 DEF SoundAt
  <2>5. ASSUME NEW z
        PROVE  z \in y.anc <=> z = n + i \/ \E p \in y.parents : z \in h[p].anc
    <3>1. CASE i = 1
      <4>1. y.parents = {o} /\ y.anc = g[o].anc \cup {n + 1}
        BY <3>1, <2>1, <1>0
      <4> QED BY <4>1, <1>2, <3>1
    <3>2. CASE i # 1
      <4>1. y.parents = {n + i - 1} /\ i - 1 \in 1..Len(x)
        BY <3>2, <2>0, <2>1, <1>0
      <4>2. h[n + i - 1] = x[i - 1]
        <5>1. n + i - 1 = n + (i - 1)
          BY <1>0, <2>0
        <5> QED BY <1>1, <4>1, <5>1
      <4>3. h[n + i - 1].anc = g[o].anc \cup (n + 1)..(n + i - 1)
        <5>1. x[i - 1].anc = g[o].anc \cup (n + 1)..(n + (i - 1))
          BY <4>1
        <5>2. n + (i - 1) = n + i - 1
          BY <1>0, <2>0
        <5> QED BY <4>2, <5>1, <5>2
      <4>4. /\ \A u \in (n + 1)..(n + i) : u \in (n + 1)..(n + i - 1) \/ u = n + i
            /\ \A u \in (n + 1)..(n + i - 1) : u \in (n + 1)..(n + i)
            /\ n + i \in (n + 1)..(n + i)
        BY <1>0, <2>0, OneMore
      <4> QED BY <4>1, <4>3, <4>4, <2>1
    <3> QED BY <3>1, <3>2
  <2>6. ASSUME NEW d \in y.anc
        PROVE  h[d].anc \subseteq y.anc /\ h[d].edits \subseteq y.edits
    <3>1. CASE d \in g[o].anc
      <4>1. d \in 1..n /\ g[d].anc \subseteq g[o].anc /\ g[d].edits \subseteq g[o].edits
        BY <3>1, LooksBack
      <4>2. h[d] = g[d]
        BY <4>1, <1>1
      <4> QED BY <4>1, <4>2, <2>1
    <3>2. CASE d \in (n + 1)..(n + i)
      <4>1. d - n \in 1..i /\ d - n \in 1..Len(x) /\ d = n + (d - n)
        BY <3>2, <1>0, <2>0
      <4>2. h[d] = x[d - n]
        BY <4>1, <1>1
      <4>3. x[d - n].anc = g[o].anc \cup (n + 1)..(n + (d - n))
        BY <4>1
      <4>4. (n + 1)..(n + (d - n)) \subseteq (n + 1)..(n + i)
        BY <3>2, <4>1, <1>0, <2>0
      <4> QED BY <4>1, <4>2, <4>3, <4>4, <2>1
    <3> QED BY <2>1, <3>1, <3>2
  <2>7. n + i - 1 = (n + i) - 1
    BY <1>0, <2>0
  <2> QED BY <2>0, <2>2, <2>3, <2>4, <2>5, <2>6, <2>7 DEF SoundAt
<1>4. ASSUME NEW c \in (Len(g) + 1)..Len(h) PROVE SoundAt(h, c)
  <2>1. PICK i \in 1..Len(x) : c = n + i
    <3>1. c - n \in 1..Len(x) /\ c = n + (c - n)
      BY <1>0, <1>1
    <3> QED BY <3>1
  <2>2. SoundAt(h, n + i)
    BY <1>3
  <2> QED BY <2>1, <2>2
<1>5. Len(g) <= Len(h)
  BY <1>0, <1>1
<1>6. Sound(h)
  BY <1>1, <1>4, <1>5, Grown
<1> QED BY <1>6 DEF h

\* A finite set of numbers that is not empty has a largest one.
LEMMA LargestIs ==
  ASSUME NEW m \in Nat, NEW S \in SUBSET (0..m), S # {}
  PROVE  \E x \in S : \A y \in S : y <= x
<1> DEFINE T == {m - i : i \in S}
           R == OpToRel(<, Nat)
<1>1. T \subseteq Nat /\ T # {}
  <2>1. \A i \in S : i \in 0..m /\ m - i \in Nat
    OBVIOUS
  <2> QED BY <2>1
<1>2. PICK x \in T : \A y \in T : ~(<<y, x>> \in R)
  BY <1>1, WFMin, NatLessThanWellFounded
<1>3. \A y \in T : x <= y
  <2> SUFFICES ASSUME NEW y \in T PROVE x <= y
    OBVIOUS
  <2>1. x \in Nat /\ y \in Nat
    BY <1>1
  <2>2. <<y, x>> \in R <=> y < x
    BY <2>1 DEF OpToRel
  <2> HIDE DEF R, T
  <2> QED BY <1>2, <2>1, <2>2
<1>4. PICK last \in S : x = m - last
  BY <1>2
<1>5. \A y \in S : y <= last
  BY <1>3, <1>4
<1> QED BY <1>5

LEMMA SmallestIs ==
  ASSUME NEW S \in SUBSET Nat, S # {}
  PROVE  \E x \in S : \A y \in S : x <= y
<1> DEFINE R == OpToRel(<, Nat)
<1>1. PICK x \in S : \A y \in S : ~(<<y, x>> \in R)
  BY WFMin, NatLessThanWellFounded
<1>2. ASSUME NEW y \in S PROVE x <= y
  <2>1. x \in Nat /\ y \in Nat
    OBVIOUS
  <2>2. <<y, x>> \in R <=> y < x
    BY <2>1 DEF OpToRel
  <2> HIDE DEF R
  <2> QED BY <1>1, <2>1, <2>2
<1> QED BY <1>2

\* The merge base is an ancestor of both sides, which have its edits.
LEMMA MergeBaseIsCommon ==
  ASSUME Sound(commits), NEW a \in Ids, NEW b \in Ids
  PROVE  /\ MergeBase(a, b) \in Ids /\ MergeBase(a, b) \in Anc(a) \cap Anc(b)
         /\ EditsOf(MergeBase(a, b)) \subseteq EditsOf(a) \cap EditsOf(b)
<1> DEFINE S == Anc(a) \cap Anc(b)
<1>0. Len(commits) \in Nat /\ Ids = 1..Len(commits)
  BY DEF Sound, Ids
<1>1. S # {} /\ S \in SUBSET (0..Len(commits))
  BY <1>0 DEF Sound, SoundAt, Anc
<1>2. \E c \in S : \A d \in S : d <= c
  BY <1>0, <1>1, LargestIs
<1>3. MergeBase(a, b) \in S
  BY <1>2 DEF MergeBase
<1> HIDE DEF S
<1>4. MergeBase(a, b) \in Anc(a) /\ MergeBase(a, b) \in Anc(b)
  BY <1>3 DEF S
<1>5. /\ MergeBase(a, b) \in 1..Len(commits)
      /\ commits[MergeBase(a, b)].edits \subseteq commits[a].edits
      /\ commits[MergeBase(a, b)].edits \subseteq commits[b].edits
  BY <1>0, <1>4, LooksBack DEF Anc
<1> QED BY <1>0, <1>4, <1>5 DEF EditsOf

\* An ancestor is there, and what it has its descendants have.
LEMMA AncestorsAreBelow ==
  ASSUME Sound(commits), NEW c \in Ids
  PROVE  /\ c \in Anc(c) /\ Anc(c) \subseteq Ids
         /\ \A d \in Anc(c) : d <= c /\ Anc(d) \subseteq Anc(c) /\ EditsOf(d) \subseteq EditsOf(c)
<1>1. Ids = 1..Len(commits)
  BY DEF Sound, Ids
<1>2. c \in Anc(c)
  BY <1>1 DEF Sound, SoundAt, Anc
<1> QED BY <1>1, <1>2, LooksBack DEF Anc, EditsOf

\* The i-th smallest member of a finite set of numbers, as Series picks it.
Rank(S, c) == Cardinality({d \in S : d <= c})
Nth(S, i) == CHOOSE c \in S : Rank(S, c) = i

\* Each place is taken by one member, and members come in their order.
LEMMA PlacesAreTaken ==
  ASSUME NEW m \in Nat, NEW S \in SUBSET (1..m)
  PROVE  /\ IsFiniteSet(S) /\ Cardinality(S) \in Nat /\ (Cardinality(S) = 0 <=> S = {})
         /\ \A i \in 1..Cardinality(S) : Nth(S, i) \in S
         /\ \A c \in S : \E i \in 1..Cardinality(S) : Nth(S, i) = c
         /\ \A i, j \in 1..Cardinality(S) : i <= j => Nth(S, i) <= Nth(S, j)
<1> DEFINE n == Cardinality(S)
<1>1. IsFiniteSet(S) /\ n \in Nat
  <2>1. IsFiniteSet(1..m)
    BY FS_Interval
  <2> QED BY <2>1, FS_Subset, FS_CardinalityType
<1>2. n = 0 <=> S = {}
  BY <1>1, FS_EmptySet
<1>3. \A c \in S : Rank(S, c) \in 1..n
  <2> TAKE c \in S
  <2> DEFINE B == {d \in S : d <= c}
  <2>1. B \in SUBSET S /\ c \in B
    OBVIOUS
  <2> HIDE DEF B
  <2>2. IsFiniteSet(B) /\ Cardinality(B) <= n /\ Cardinality(B) \in Nat
    BY <1>1, <2>1, FS_Subset, FS_CardinalityType
  <2>3. Cardinality(B) # 0
    BY <2>1, <2>2, FS_EmptySet
  <2> QED BY <1>1, <2>2, <2>3 DEF B, Rank
<1>4. ASSUME NEW c \in S, NEW d \in S, c < d PROVE Rank(S, c) < Rank(S, d)
  <2> DEFINE B == {x \in S : x <= c}
             D == {x \in S : x <= d}
  <2>0. c \in Nat /\ d \in Nat /\ \A x \in S : x \in Nat
    OBVIOUS
  <2>1. B \in SUBSET D /\ d \in D /\ d \notin B
    <3>1. \A x \in S : x <= c => x <= d
      BY <1>4, <2>0
    <3>2. ~(d <= c) /\ d <= d
      BY <1>4, <2>0
    <3> QED BY <3>1, <3>2
  <2>2. Cardinality(B) = Rank(S, c) /\ Cardinality(D) = Rank(S, d)
    BY DEF Rank
  <2>3. IsFiniteSet(D)
    BY <1>1, FS_Subset
  <2>5. Rank(S, c) \in 1..n /\ Rank(S, d) \in 1..n
    BY <1>3
  <2> HIDE DEF B, D
  <2>4. Cardinality(B) <= Cardinality(D) /\ (Cardinality(D) = Cardinality(B) => D = B)
    BY <2>1, <2>3, FS_Subset
  <2> QED BY <1>1, <2>1, <2>2, <2>4, <2>5
<1>5. \A c, d \in S : Rank(S, c) = Rank(S, d) => c = d
  <2> SUFFICES ASSUME NEW c \in S, NEW d \in S, Rank(S, c) = Rank(S, d), c # d
               PROVE  FALSE
    OBVIOUS
  <2>1. c < d \/ d < c
    OBVIOUS
  <2>2. Rank(S, c) \in 1..n /\ Rank(S, d) \in 1..n
    BY <1>3
  <2>3. Rank(S, c) < Rank(S, d) \/ Rank(S, d) < Rank(S, c)
    BY <2>1, <1>4
  <2> QED BY <1>1, <2>2, <2>3
<1>6. \A i \in 1..n : \E c \in S : Rank(S, c) = i
  <2> DEFINE f == [c \in S |-> Rank(S, c)]
  <2>1. f \in [S -> 1..n] /\ \A c, d \in S : f[c] = f[d] => c = d
    BY <1>3, <1>5
  <2> HIDE DEF f
  <2>2. f \in Injection(S, 1..n)
    BY <2>1 DEF Injection, IsInjective
  <2>3. IsFiniteSet(1..n) /\ Cardinality(1..n) = n
    BY <1>1, FS_Interval
  <2>4. f \in Surjection(S, 1..n)
    BY <2>2, <2>3, FS_Injection
  <2>5. \A i \in 1..n : \E c \in S : f[c] = i
    BY <2>4 DEF Surjection
  <2> QED BY <2>5 DEF f
<1>7. \A i \in 1..n : Nth(S, i) \in S /\ Rank(S, Nth(S, i)) = i
  BY <1>6 DEF Nth
<1>8. \A c \in S : \E i \in 1..n : Nth(S, i) = c
  BY <1>3, <1>5, <1>7
<1>9. \A i, j \in 1..n : i <= j => Nth(S, i) <= Nth(S, j)
  <2> SUFFICES ASSUME NEW i \in 1..n, NEW j \in 1..n, i <= j,
                      ~(Nth(S, i) <= Nth(S, j))
               PROVE  FALSE
    OBVIOUS
  <2>1. /\ Nth(S, i) \in S /\ Nth(S, j) \in S
        /\ Rank(S, Nth(S, i)) = i /\ Rank(S, Nth(S, j)) = j
    BY <1>7
  <2>2. Nth(S, j) < Nth(S, i)
    <3>1. Nth(S, i) \in 1..m /\ Nth(S, j) \in 1..m
      BY <2>1
    <3> QED BY <3>1
  <2>3. j < i
    BY <1>4, <2>1, <2>2
  <2> QED BY <2>3
<1> QED BY <1>1, <1>2, <1>7, <1>8, <1>9

\* Where every commit that head has and base lacks has one parent, these commits form a chain.
LEMMA SingleParentsChain ==
  ASSUME Sound(commits), NEW head \in Ids, NEW base \in Ids,
         \A c \in Anc(head) \ Anc(base) : Cardinality(commits[c].parents) = 1,
         NEW c \in Anc(head) \ Anc(base), NEW d \in Anc(head) \ Anc(base), c <= d
  PROVE  c \in Anc(d)
<1> SUFFICES ASSUME c \notin Anc(d) PROVE FALSE
  OBVIOUS
<1> DEFINE Z == {x \in Anc(head) : c \in Anc(x) /\ d \in Anc(x)}
<1>0. Ids = 1..Len(commits) /\ Len(commits) \in Nat
  BY DEF Sound, Ids
<1>1. Z \in SUBSET Nat /\ head \in Z
  <2>1. head \in Anc(head) /\ Anc(head) \subseteq Nat
    BY <1>0, AncestorsAreBelow
  <2> QED BY <2>1
<1>2. PICK x \in Z : \A y \in Z : x <= y
  <2> HIDE DEF Z
  <2> QED BY <1>1, SmallestIs
<1>3. x \in Ids /\ x \in Anc(head) /\ c \in Anc(x) /\ d \in Anc(x) /\ SoundAt(commits, x)
  BY <1>0, <1>2, AncestorsAreBelow DEF Sound
<1>4. x \notin Anc(base)
  BY <1>3, AncestorsAreBelow
<1>5. PICK p : commits[x].parents = {p}
  <2>1. commits[x].parents \subseteq 1..(x - 1) /\ x \in Int
    BY <1>0, <1>3 DEF SoundAt
  <2>2. IsFiniteSet(commits[x].parents)
    <3>1. IsFiniteSet(1..(x - 1))
      <4>1. 1 \in Int /\ x - 1 \in Int
        BY <2>1
      <4> QED BY <4>1, FS_Interval
    <3> QED BY <2>1, <3>1, FS_Subset
  <2>3. Cardinality(commits[x].parents) = 1
    BY <1>3, <1>4
  <2> QED BY <2>2, <2>3, FS_Singleton
<1>6. /\ p < x /\ p \in Ids
      /\ \A z : z \in Anc(x) <=> z = x \/ z \in Anc(p)
  BY <1>0, <1>3, <1>5 DEF SoundAt, Anc
<1>7. c # x /\ d # x
  <2>1. d # x
    BY <1>3
  <2>2. ASSUME c = x PROVE FALSE
    <3>1. d <= c
      BY <1>3, <2>2, AncestorsAreBelow
    <3>2. c = d
      BY <3>1, <1>0, <1>3, AncestorsAreBelow
    <3> QED BY <2>1, <2>2, <3>2
  <2> QED BY <2>1, <2>2
<1>8. p \in Z
  <2>1. p \in Anc(x)
    BY <1>6, AncestorsAreBelow
  <2> QED BY <1>3, <1>6, <1>7, <2>1, AncestorsAreBelow
<1> QED BY <1>0, <1>2, <1>3, <1>6, <1>8
------------------------------------------------------------------------------
(* Part 2: people at work keep the clone sound.                            *)

\* A branch is there from the opening of its worktree on, and has all that was committed
\* for its ticket; a pending merge has staged what it brings; a closed worktree is clean.
TicketHolds(t) ==
  /\ present[t] = "none" => refs[t] = 0
  /\ present[t] = "open" => refs[t] # 0
  /\ present[t] # "open" => dirty[t] = {} /\ mergeHead[t] = 0
  /\ mergeHead[t] # 0 => EditsOf(mergeHead[t]) \subseteq EditsOf(refs[t]) \cup dirty[t]
  /\ \A c \in Ids : commits[c].by = t =>
       present[t] # "none" /\ (refs[t] # 0 => c \in Anc(refs[t]))

CloneHolds == Sound(commits) /\ TypeOK /\ \A t \in Tickets : TicketHolds(t)

\* The history only grows.
Longer ==
  /\ Len(commits) <= Len(commits')
  /\ \A c \in Ids : commits'[c] = commits[c]

\* What a step of people may do to a ticket and its branch.
TicketMoves(t) ==
  /\ refs[t] <= refs'[t]
  /\ refs[t] # 0 => refs'[t] # 0 /\ refs[t] \in commits'[refs'[t]].anc
  /\ refs'[t] # refs[t] =>
       present[t] = "none" \/ \E c \in DOMAIN commits' \ Ids : commits'[c].by = t
  /\ refs'[t] = refs[t] => dirty[t] \subseteq dirty'[t]
  /\ present'[t] = "gone" => dirty[t] = {}
  /\ present[t] # "none" => present'[t] # "none"
  /\ present[t] = "gone" => present'[t] = "gone"

\* The target only moves on, and what is new is on it or on a branch.
CloneMoves ==
  /\ Longer
  /\ origin <= origin' /\ origin \in commits'[origin'].anc
  /\ \A c \in DOMAIN commits' \ Ids :
       c \in commits'[origin'].anc \/ \E t \in Tickets : refs'[t] # 0 /\ c \in commits'[refs'[t]].anc
  /\ \A t \in Tickets : TicketMoves(t)

LEMMA IdsAreNumbers ==
  ASSUME Sound(commits)
  PROVE  Ids = 1..Len(commits) /\ Len(commits) \in Nat /\ 0 \notin Ids /\ Ids \subseteq Nat
BY DEF Sound, Ids

\* A ticket whose worktree and branch nobody touched, and for which nobody committed.
LEMMA TicketKept ==
  ASSUME CloneHolds, Longer, Sound(commits)', NEW t \in Tickets,
         refs'[t] = refs[t], present'[t] = present[t], dirty'[t] = dirty[t],
         mergeHead'[t] = mergeHead[t],
         \A c \in DOMAIN commits' \ Ids : commits'[c].by # t
  PROVE  TicketHolds(t)' /\ TicketMoves(t)
<1>1. Ids = 1..Len(commits) /\ Len(commits) \in Nat /\ 0 \notin Ids /\ Ids \subseteq Nat
  BY IdsAreNumbers DEF CloneHolds
<1>2. /\ refs[t] \in Ids \cup {0} /\ mergeHead[t] \in Ids \cup {0} /\ dirty[t] \subseteq Edits
      /\ present[t] \in {"none", "open", "gone"}
  BY DEF CloneHolds, TypeOK
<1>3. TicketHolds(t)
  BY DEF CloneHolds
<1>4. TicketHolds(t)'
  <2>1. \A c \in Ids : Anc(c)' = Anc(c) /\ EditsOf(c)' = EditsOf(c)
    BY DEF Longer, Anc, EditsOf
  <2>2. refs[t] # 0 => commits'[refs[t]] = commits[refs[t]]
    BY <1>2 DEF Longer
  <2>3. mergeHead[t] # 0 => commits'[mergeHead[t]] = commits[mergeHead[t]] /\ refs[t] # 0
    BY <1>2, <1>3 DEF Longer, TicketHolds
  <2>4. ASSUME NEW c \in Ids', commits'[c].by = t
        PROVE  present[t] # "none" /\ (refs[t] # 0 => c \in commits[refs[t]].anc)
    <3>1. c \in Ids /\ commits'[c] = commits[c]
      BY <2>4 DEF Longer, Ids
    <3> QED BY <1>3, <2>4, <3>1 DEF TicketHolds, Anc
  <2> QED BY <1>3, <2>2, <2>3, <2>4 DEF TicketHolds, Anc, EditsOf
<1>5. refs[t] # 0 => refs[t] \in commits'[refs[t]].anc
  <2> SUFFICES ASSUME refs[t] # 0 PROVE refs[t] \in commits'[refs[t]].anc
    OBVIOUS
  <2>1. refs[t] \in Anc(refs[t])
    BY <1>2, AncestorsAreBelow DEF CloneHolds
  <2> QED BY <1>2, <2>1 DEF Longer, Anc
<1>6. present[t] = "gone" => dirty[t] = {}
  BY <1>3 DEF TicketHolds
<1> QED BY <1>1, <1>2, <1>4, <1>5, <1>6 DEF TicketMoves

LEMMA SameHistory ==
  ASSUME CloneHolds, commits' = commits
  PROVE  /\ Longer /\ Sound(commits)' /\ DOMAIN commits' \ Ids = {} /\ Ids' = Ids
         /\ commits' \in Seq(Node)
  BY DEF CloneHolds, Longer, Sound, Ids, Node, SoundAt

\* Where the target stays, the clone has moved when every ticket has.
LEMMA TargetKept ==
  ASSUME CloneHolds, commits' = commits, origin' = origin, \A t \in Tickets : TicketMoves(t)
  PROVE  CloneMoves
<1>1. Longer /\ DOMAIN commits' \ Ids = {}
  BY SameHistory
<1>2. origin \in Anc(origin) /\ origin <= origin
  BY AncestorsAreBelow, IdsAreNumbers DEF CloneHolds, TypeOK
<1> QED BY <1>1, <1>2 DEF CloneMoves, Anc

\* A step in a worktree that leaves the branch alone.
LEMMA BranchKept ==
  ASSUME CloneHolds, commits' = commits, NEW t \in Tickets, refs'[t] = refs[t],
         dirty[t] \subseteq dirty'[t], present'[t] = "gone" => dirty[t] = {},
         present[t] # "none" => present'[t] # "none",
         present[t] = "gone" => present'[t] = "gone"
  PROVE  TicketMoves(t)
<1>1. refs[t] \in Ids \cup {0} /\ Ids \subseteq Nat
  BY IdsAreNumbers DEF CloneHolds, TypeOK
<1>2. refs[t] <= refs'[t]
  <2>1. 0 \in Nat
    OBVIOUS
  <2>2. refs[t] \in Nat
    BY <1>1, <2>1
  <2> QED BY <2>2
<1>3. refs[t] # 0 => refs'[t] # 0 /\ refs[t] \in commits'[refs'[t]].anc
  BY <1>1, AncestorsAreBelow DEF CloneHolds, Anc
<1> QED BY <1>2, <1>3 DEF TicketMoves

LEMMA OpenKeeps ==
  ASSUME CloneHolds, NEW t \in Tickets, OpenWorktree(t)
  PROVE  CloneHolds' /\ CloneMoves
<1> USE DEF OpenWorktree
<1>0. Longer /\ Sound(commits)' /\ DOMAIN commits' \ Ids = {} /\ Ids' = Ids
  BY SameHistory
<1>1. origin \in Ids /\ refs \in [Tickets -> Ids \cup {0}] /\ Ids \subseteq Nat /\ 0 \notin Ids
  BY IdsAreNumbers DEF CloneHolds, TypeOK
<1>2. TypeOK'
  BY <1>0, <1>1 DEF CloneHolds, TypeOK
<1>3. ASSUME NEW u \in Tickets PROVE TicketHolds(u)' /\ TicketMoves(u)
  <2>0. TicketHolds(u)
    BY DEF CloneHolds
  <2>1. CASE u # t
    BY <2>1, <1>0, <1>1, TicketKept DEF CloneHolds, TypeOK
  <2>2. CASE u = t
    <3>1. /\ present[t] = "none" /\ refs[t] = 0 /\ dirty[t] = {} /\ mergeHead[t] = 0
          /\ \A c \in Ids : commits[c].by # t
      BY <2>0, <2>2 DEF TicketHolds
    <3>2. /\ present'[t] = "open" /\ refs'[t] = origin /\ dirty'[t] = {} /\ mergeHead'[t] = 0
      BY <3>1 DEF CloneHolds, TypeOK
    <3>3. TicketHolds(t)'
      BY <1>0, <1>1, <3>1, <3>2 DEF TicketHolds
    <3> QED BY <1>1, <2>2, <3>1, <3>2, <3>3 DEF TicketMoves
  <2> QED BY <2>1, <2>2
<1> QED BY <1>0, <1>2, <1>3, TargetKept DEF CloneHolds

LEMMA EditKeeps ==
  ASSUME CloneHolds, NEW t \in Tickets, NEW e \in Edits, Edit(t, e)
  PROVE  CloneHolds' /\ CloneMoves
<1> USE DEF Edit
<1>0. Longer /\ Sound(commits)' /\ DOMAIN commits' \ Ids = {} /\ Ids' = Ids
  BY SameHistory
<1>1. refs \in [Tickets -> Ids \cup {0}] /\ Ids \subseteq Nat /\ 0 \notin Ids /\ present[t] = "open"
  BY IdsAreNumbers DEF CloneHolds, TypeOK, Open
<1>2. TypeOK'
  BY <1>0, <1>1 DEF CloneHolds, TypeOK
<1>3. ASSUME NEW u \in Tickets PROVE TicketHolds(u)' /\ TicketMoves(u)
  <2>0. TicketHolds(u)
    BY DEF CloneHolds
  <2>1. CASE u # t
    BY <2>1, <1>0, <1>1, TicketKept DEF CloneHolds, TypeOK
  <2>2. CASE u = t
    <3>1. dirty'[t] = dirty[t] \cup {e}
      BY DEF CloneHolds, TypeOK
    <3>2. TicketHolds(t)'
      BY <1>0, <1>1, <2>0, <2>2, <3>1 DEF TicketHolds, EditsOf, Anc
    <3>3. TicketMoves(t)
      BY <1>1, <3>1, BranchKept DEF CloneHolds, TypeOK
    <3> QED BY <2>2, <3>2, <3>3
  <2> QED BY <2>1, <2>2
<1> QED BY <1>0, <1>2, <1>3, TargetKept DEF CloneHolds

LEMMA StartMergeKeeps ==
  ASSUME CloneHolds, NEW t \in Tickets, StartMerge(t)
  PROVE  CloneHolds' /\ CloneMoves
<1> USE DEF StartMerge
<1>0. Longer /\ Sound(commits)' /\ DOMAIN commits' \ Ids = {} /\ Ids' = Ids
  BY SameHistory
<1>1. /\ refs \in [Tickets -> Ids \cup {0}] /\ Ids \subseteq Nat /\ 0 \notin Ids /\ origin \in Ids
      /\ present[t] = "open"
  BY IdsAreNumbers DEF CloneHolds, TypeOK, Open
<1>2. EditsOf(origin) \subseteq Edits
  <2>1. commits \in Seq(Node) /\ origin \in 1..Len(commits)
    BY <1>1, IdsAreNumbers DEF CloneHolds, Sound
  <2>2. commits[origin] \in Node
    BY <2>1
  <2> QED BY <2>2 DEF Node, EditsOf
<1>3. TypeOK'
  BY <1>0, <1>1, <1>2 DEF CloneHolds, TypeOK
<1>4. ASSUME NEW u \in Tickets PROVE TicketHolds(u)' /\ TicketMoves(u)
  <2>0. TicketHolds(u)
    BY DEF CloneHolds
  <2>1. CASE u # t
    BY <2>1, <1>0, <1>1, TicketKept DEF CloneHolds, TypeOK
  <2>2. CASE u = t
    <3>1. /\ dirty'[t] = EditsOf(origin) \ EditsOf(refs[t]) /\ dirty[t] = {}
          /\ mergeHead'[t] = origin
      BY DEF CloneHolds, TypeOK
    <3>2. TicketHolds(t)'
      BY <1>0, <1>1, <2>0, <2>2, <3>1 DEF TicketHolds, EditsOf, Anc
    <3>3. TicketMoves(t)
      BY <1>1, <3>1, BranchKept DEF CloneHolds, TypeOK
    <3> QED BY <2>2, <3>2, <3>3
  <2> QED BY <2>1, <2>2
<1> QED BY <1>0, <1>3, <1>4, TargetKept DEF CloneHolds

LEMMA LeaveKeeps ==
  ASSUME CloneHolds, NEW t \in Tickets, Leave(t)
  PROVE  CloneHolds' /\ CloneMoves
<1> USE DEF Leave
<1>0. Longer /\ Sound(commits)' /\ DOMAIN commits' \ Ids = {} /\ Ids' = Ids
  BY SameHistory
<1>1. /\ refs \in [Tickets -> Ids \cup {0}] /\ Ids \subseteq Nat /\ 0 \notin Ids
      /\ present[t] = "open" /\ dirty[t] = {} /\ mergeHead[t] = 0
  BY IdsAreNumbers DEF CloneHolds, TypeOK, Open, Clean
<1>2. TypeOK'
  BY <1>0, <1>1 DEF CloneHolds, TypeOK
<1>3. ASSUME NEW u \in Tickets PROVE TicketHolds(u)' /\ TicketMoves(u)
  <2>0. TicketHolds(u)
    BY DEF CloneHolds
  <2>1. CASE u # t
    BY <2>1, <1>0, <1>1, TicketKept DEF CloneHolds, TypeOK
  <2>2. CASE u = t
    <3>1. present'[t] = "gone"
      BY DEF CloneHolds, TypeOK
    <3>2. TicketHolds(t)'
      BY <1>0, <1>1, <2>0, <2>2, <3>1 DEF TicketHolds, EditsOf, Anc
    <3>3. TicketMoves(t)
      BY <1>1, <3>1, BranchKept DEF CloneHolds, TypeOK
    <3> QED BY <2>2, <3>2, <3>3
  <2> QED BY <2>1, <2>2
<1> QED BY <1>0, <1>2, <1>3, TargetKept DEF CloneHolds

\* A commit of everything in the worktree has all that its parents have.
LEMMA CommitKeeps ==
  ASSUME CloneHolds, NEW t \in Tickets, Commit(t)
  PROVE  CloneHolds' /\ CloneMoves
<1> DEFINE n == Len(commits) + 1
           P == {refs[t]} \cup ({mergeHead[t]} \ {0})
           E == EditsOf(refs[t]) \cup dirty[t]
           C == commits[refs[t]].carriers \cup {t}
                  \cup UNION {commits[c].carriers : c \in {mergeHead[t]} \ {0}}
           x == NewCommit(P, E, C, t)
<1>0. /\ Ids = 1..Len(commits) /\ Len(commits) \in Nat /\ 0 \notin Ids /\ Ids \subseteq Nat
      /\ commits \in Seq(Node) /\ Sound(commits)
  BY IdsAreNumbers DEF CloneHolds, Sound
<1>1. /\ TicketHolds(t) /\ present[t] = "open" /\ refs[t] \in Ids /\ dirty[t] \subseteq Edits
      /\ mergeHead[t] \in Ids \cup {0} /\ t # 0
  BY RepositoryAssumption DEF CloneHolds, TypeOK, TicketHolds, Commit, Open
<1>2. \A c \in Ids : commits[c] \in Node
  BY <1>0
<1>3. P \in SUBSET Ids /\ P # {} /\ E \in SUBSET Edits /\ C \in SUBSET Tickets
  BY <1>1, <1>2 DEF Node, EditsOf
<1>4. \A p \in P : EditsOf(p) \subseteq E
  BY <1>1 DEF TicketHolds
<1>5. commits' = Append(commits, x)
  BY DEF Commit
<1> HIDE DEF P, E, C
<1>6. Sound(commits')
  BY <1>0, <1>3, <1>4, <1>5, NodeAdded
<1>7. x.by = t /\ x.edits = E /\ P \subseteq x.anc \cup {} /\ n \in x.anc
  BY <1>0, <1>3, AncestorsAreBelow DEF NewCommit
<1> HIDE DEF x
<1>8. /\ Len(commits') = n /\ commits'[n] = x /\ Ids' = 1..n
      /\ \A c \in Ids : commits'[c] = commits[c]
      /\ DOMAIN commits' \ Ids = {n}
  BY <1>0, <1>5 DEF Ids
<1>9. Longer /\ refs[t] \in x.anc
  BY <1>0, <1>7, <1>8 DEF Longer, P
<1>10. /\ refs' = [refs EXCEPT ![t] = n] /\ dirty' = [dirty EXCEPT ![t] = {}]
       /\ mergeHead' = [mergeHead EXCEPT ![t] = 0] /\ UNCHANGED <<origin, present>>
  BY <1>8 DEF Commit
<1>11. TypeOK'
  <2>1. commits' \in Seq(Node)
    BY <1>6 DEF Sound
  <2>2. Ids \subseteq Ids' /\ n \in Ids'
    BY <1>0, <1>8
  <2> QED BY <2>1, <2>2, <1>10 DEF CloneHolds, TypeOK, Node
<1>12. ASSUME NEW u \in Tickets PROVE TicketHolds(u)' /\ TicketMoves(u)
  <2>1. CASE u # t
    <3>1. /\ refs'[u] = refs[u] /\ present'[u] = present[u] /\ dirty'[u] = dirty[u]
          /\ mergeHead'[u] = mergeHead[u]
      BY <2>1, <1>10 DEF CloneHolds, TypeOK
    <3> QED BY <2>1, <3>1, <1>6, <1>7, <1>8, <1>9, TicketKept
  <2>2. CASE u = t
    <3>1. /\ refs'[t] = n /\ present'[t] = "open" /\ dirty'[t] = {} /\ mergeHead'[t] = 0
      BY <1>1, <1>10 DEF CloneHolds, TypeOK
    <3>2. ASSUME NEW c \in Ids', commits'[c].by = t PROVE c \in x.anc
      <4>1. CASE c = n
        BY <4>1, <1>7
      <4>2. CASE c \in Ids
        <5>1. c \in Anc(refs[t])
          BY <4>2, <3>2, <1>0, <1>1, <1>8 DEF TicketHolds
        <5>2. commits'[refs[t]].anc \subseteq x.anc
          <6>1. refs[t] \in commits'[n].anc /\ n \in 1..Len(commits')
            BY <1>0, <1>8, <1>9
          <6>2. commits'[refs[t]].anc \subseteq commits'[n].anc
            BY <6>1, <1>6, LooksBack
          <6> QED BY <6>1, <6>2, <1>8
        <5> QED BY <5>1, <5>2, <1>1, <1>8 DEF Anc
      <4> QED BY <4>1, <4>2, <1>0, <1>8
    <3>3. n # 0 /\ refs[t] <= n
      BY <1>0, <1>1
    <3>4. TicketHolds(t)'
      BY <3>1, <3>2, <3>3, <1>8 DEF TicketHolds, Anc
    <3>5. TicketMoves(t)
      BY <3>1, <3>3, <1>1, <1>7, <1>8, <1>9 DEF TicketMoves
    <3> QED BY <2>2, <3>4, <3>5
  <2> QED BY <2>1, <2>2
<1>13. CloneMoves
  <2>1. origin \in Ids /\ origin <= origin /\ origin \in Anc(origin)
    BY <1>0, AncestorsAreBelow DEF CloneHolds, TypeOK
  <2>2. origin' = origin /\ origin \in commits'[origin].anc
    BY <2>1, <1>8, <1>10 DEF Anc
  <2>3. refs'[t] = n /\ n # 0 /\ n \in commits'[n].anc
    BY <1>0, <1>7, <1>8, <1>10 DEF CloneHolds, TypeOK
  <2> QED BY <2>1, <2>2, <2>3, <1>8, <1>9, <1>12 DEF CloneMoves
<1> QED BY <1>6, <1>11, <1>12, <1>13 DEF CloneHolds

\* The commits a rebase copies, in the order of their making.
Between(base, head) == {c \in Anc(head) \ Anc(base) : base \in Anc(c)}

LEMMA SeriesIsOrdered ==
  ASSUME Sound(commits), NEW base \in Ids, NEW head \in Ids
  PROVE  /\ Len(Series(base, head)) \in Nat /\ Series(base, head) \in Seq(Between(base, head))
         /\ (Between(base, head) # {} => Len(Series(base, head)) > 0)
         /\ \A c \in Between(base, head) :
              \E i \in 1..Len(Series(base, head)) : Series(base, head)[i] = c
         /\ \A i, j \in 1..Len(Series(base, head)) :
              i <= j => Series(base, head)[i] <= Series(base, head)[j]
<1> DEFINE s == Series(base, head)
<1> DEFINE S == Between(base, head)
<1>1. s = [i \in 1..Cardinality(S) |-> Nth(S, i)]
  BY DEF Series, Between, Nth, Rank
<1>2. S \in SUBSET (1..Len(commits)) /\ Len(commits) \in Nat
  BY IdsAreNumbers, AncestorsAreBelow DEF Between
<1> HIDE DEF S, s
<1>3. /\ Cardinality(S) \in Nat /\ (Cardinality(S) = 0 <=> S = {})
      /\ \A i \in 1..Cardinality(S) : Nth(S, i) \in S
      /\ \A c \in S : \E i \in 1..Cardinality(S) : Nth(S, i) = c
      /\ \A i, j \in 1..Cardinality(S) : i <= j => Nth(S, i) <= Nth(S, j)
  BY <1>2, PlacesAreTaken
<1>4. s \in Seq(S) /\ Len(s) = Cardinality(S)
  BY <1>1, <1>3
<1>5. \A i \in 1..Len(s) : s[i] = Nth(S, i)
  BY <1>1, <1>4
<1>6. (S # {} => Len(s) > 0) /\ Len(s) \in Nat
  BY <1>3, <1>4
<1> QED BY <1>3, <1>4, <1>5, <1>6 DEF S, s

\* The history grows by commits of nobody's branch, up to the new target.
LEMMA TargetMoves ==
  ASSUME CloneHolds, Longer, Sound(commits'), NEW n, n = Len(commits'), n >= 1,
         \A c \in DOMAIN commits' \ Ids : commits'[c].by = 0 /\ c \in commits'[n].anc,
         origin \in commits'[n].anc, origin' = n, 0 \notin Tickets,
         UNCHANGED <<refs, present, dirty, mergeHead>>
  PROVE  CloneHolds' /\ CloneMoves
<1>1. /\ Ids = 1..Len(commits) /\ Len(commits) \in Nat /\ 0 \notin Ids /\ origin \in Ids
  BY IdsAreNumbers DEF CloneHolds, TypeOK
<1>2. commits' \in Seq(Node) /\ Len(commits') \in Nat /\ Ids' = 1..n
  BY DEF Sound, Ids
<1>3. Ids \subseteq Ids' /\ n \in Ids' /\ origin <= n
  BY <1>1, <1>2 DEF Longer
<1>4. TypeOK'
  BY <1>2, <1>3 DEF CloneHolds, TypeOK, Node
<1>5. \A u \in Tickets : TicketHolds(u)' /\ TicketMoves(u)
  BY TicketKept DEF CloneHolds
<1>6. CloneMoves
  BY <1>3, <1>5 DEF CloneMoves
<1> QED BY <1>4, <1>5, <1>6 DEF CloneHolds

\* A pull request landed by one commit.
LEMMA OneLands ==
  ASSUME CloneHolds, NEW head \in Ids,
         NEW P, P = {origin, head} \/ P = {origin}, NEW C \in SUBSET Tickets,
         NEW E, E = EditsOf(origin) \cup (EditsOf(head) \ EditsOf(MergeBase(head, origin))),
         commits' = Append(commits, NewCommit(P, E, C, 0)),
         origin' = Len(commits'), UNCHANGED <<refs, present, dirty, mergeHead>>
  PROVE  CloneHolds' /\ CloneMoves
<1> DEFINE n == Len(commits) + 1
           x == NewCommit(P, E, C, 0)
<1>0. /\ Ids = 1..Len(commits) /\ Len(commits) \in Nat /\ 0 \notin Ids
      /\ commits \in Seq(Node) /\ Sound(commits) /\ origin \in Ids
  BY IdsAreNumbers DEF CloneHolds, Sound, TypeOK
<1>1. P \in SUBSET Ids /\ P # {} /\ origin \in P
  BY <1>0
<1>2. E \in SUBSET Edits
  <2>1. commits[origin] \in Node /\ commits[head] \in Node
    BY <1>0
  <2> QED BY <2>1 DEF Node, EditsOf
<1>3. \A p \in P : EditsOf(p) \subseteq E
  BY <1>0, MergeBaseIsCommon
<1>4. Sound(commits')
  BY <1>0, <1>1, <1>2, <1>3, NodeAdded
<1>5. x.by = 0 /\ n \in x.anc /\ origin \in x.anc
  BY <1>0, <1>1, AncestorsAreBelow DEF NewCommit
<1>6. commits' = Append(commits, x)
  OBVIOUS
<1> HIDE DEF x
<1>7. /\ Len(commits') = n /\ commits'[n] = x
      /\ \A c \in Ids : commits'[c] = commits[c]
      /\ DOMAIN commits' \ Ids = {n}
  BY <1>0, <1>6 DEF Ids
<1>8. Longer /\ n >= 1
  BY <1>0, <1>7 DEF Longer
<1>9. 0 \notin Tickets
  BY RepositoryAssumption
<1>10. /\ \A c \in DOMAIN commits' \ Ids : commits'[c].by = 0 /\ c \in commits'[n].anc
       /\ origin \in commits'[n].anc /\ origin' = n /\ n = Len(commits')
  BY <1>5, <1>7
<1> HIDE DEF n
<1> QED BY <1>4, <1>8, <1>9, <1>10, TargetMoves

\* The copy that a rebase makes of the i-th commit of a series.
Copy(base, s, i) ==
  [parents |-> {IF i = 1 THEN origin ELSE Len(commits) + i - 1},
   anc |-> Anc(origin) \cup (Len(commits) + 1)..(Len(commits) + i),
   edits |-> EditsOf(origin) \cup (EditsOf(s[i]) \ EditsOf(base)),
   carriers |-> commits[origin].carriers \cup commits[s[i]].carriers,
   by |-> 0]

\* A chain on top of the target, landed.
LEMMA ChainLands ==
  ASSUME CloneHolds, NEW x \in Seq(Node), Len(x) > 0,
         \A i \in 1..Len(x) :
           /\ x[i].parents = {IF i = 1 THEN origin ELSE Len(commits) + i - 1}
           /\ x[i].anc = Anc(origin) \cup (Len(commits) + 1)..(Len(commits) + i)
           /\ x[i].by = 0
           /\ EditsOf(origin) \subseteq x[i].edits
           /\ \A j \in 1..i : x[j].edits \subseteq x[i].edits,
         commits' = commits \o x,
         origin' = Len(commits'), UNCHANGED <<refs, present, dirty, mergeHead>>
  PROVE  CloneHolds' /\ CloneMoves
<1> DEFINE n == Len(commits)
<1>0. /\ Ids = 1..n /\ n \in Nat /\ 0 \notin Ids /\ Ids \subseteq Nat
      /\ commits \in Seq(Node) /\ Sound(commits) /\ origin \in Ids
  BY IdsAreNumbers DEF CloneHolds, Sound, TypeOK
<1>1. Sound(commits')
  <2>1. \A i \in 1..Len(x) :
           /\ x[i].parents = {IF i = 1 THEN origin ELSE Len(commits) + i - 1}
           /\ x[i].anc = commits[origin].anc \cup (Len(commits) + 1)..(Len(commits) + i)
           /\ commits[origin].edits \subseteq x[i].edits
           /\ \A j \in 1..i : x[j].edits \subseteq x[i].edits
    BY DEF Anc, EditsOf
  <2>2. origin \in 1..Len(commits)
    BY <1>0
  <2>3. Sound(commits \o x)
    BY <1>0, <2>1, <2>2, ChainAdded
  <2> QED BY <2>3
<1>2. /\ Len(commits') = n + Len(x) /\ Len(x) \in 1..Len(x)
      /\ \A c \in Ids : commits'[c] = commits[c]
      /\ \A c \in DOMAIN commits' \ Ids : c - n \in 1..Len(x) /\ commits'[c] = x[c - n]
      /\ commits'[n + Len(x)] = x[Len(x)]
  BY <1>0
<1>3. Longer /\ Len(commits') >= 1
  BY <1>0, <1>2 DEF Longer
<1>4. commits'[Len(commits')].anc = Anc(origin) \cup (n + 1)..(n + Len(x))
  BY <1>2
<1>5. \A c \in DOMAIN commits' \ Ids : commits'[c].by = 0 /\ c \in (n + 1)..(n + Len(x))
  BY <1>0, <1>2
<1>6. 0 \notin Tickets /\ origin \in Anc(origin)
  BY <1>0, AncestorsAreBelow, RepositoryAssumption
<1> QED BY <1>1, <1>3, <1>4, <1>5, <1>6, TargetMoves

\* A branch without merges, copied commit by commit: each copy has what the one before has.
LEMMA CopiesChain ==
  ASSUME CloneHolds, NEW head \in Ids, ~IsAncestor(head, origin),
         NEW base, NEW s, base = MergeBase(head, origin), s = Series(base, head),
         \A c \in Anc(head) \ Anc(base) : Cardinality(commits[c].parents) = 1
  PROVE  /\ Len(s) \in Nat /\ Len(s) > 0 /\ [i \in 1..Len(s) |-> Copy(base, s, i)] \in Seq(Node)
         /\ \A i \in 1..Len(s) :
              /\ Copy(base, s, i) \in Node
              /\ \A j \in 1..i : Copy(base, s, j).edits \subseteq Copy(base, s, i).edits
<1>0. /\ Ids = 1..Len(commits) /\ Len(commits) \in Nat /\ 0 \notin Ids /\ Ids \subseteq Nat
      /\ commits \in Seq(Node) /\ Sound(commits) /\ origin \in Ids
      /\ \A c \in Ids : commits[c] \in Node
  BY IdsAreNumbers DEF CloneHolds, Sound, TypeOK
<1>1. base \in Ids /\ base \in Anc(head) /\ base \in Anc(origin)
  BY <1>0, MergeBaseIsCommon
<1>2. head \in Between(base, head)
  BY <1>0, <1>1, AncestorsAreBelow DEF Between, IsAncestor
<1>3. /\ Len(s) \in Nat /\ s \in Seq(Between(base, head))
      /\ (Between(base, head) # {} => Len(s) > 0)
      /\ \A i, j \in 1..Len(s) : i <= j => s[i] <= s[j]
  <2>1. Sound(commits) /\ base \in Ids /\ head \in Ids
    BY <1>0, <1>1
  <2> QED BY <2>1, SeriesIsOrdered, Zenon
<1>4. Between(base, head) \subseteq Ids
  BY <1>0, AncestorsAreBelow DEF Between
<1>5. \A i \in 1..Len(s) : s[i] \in Between(base, head)
  BY <1>3
<1>6. \A i \in 1..Len(s) : s[i] \in Ids /\ commits[s[i]] \in Node
  BY <1>0, <1>4, <1>5
<1>7. ASSUME NEW i \in 1..Len(s), NEW j \in 1..i
      PROVE  Copy(base, s, j).edits \subseteq Copy(base, s, i).edits
  <2>1. j \in 1..Len(s) /\ j <= i
    BY <1>3
  <2>2. s[j] \in Anc(s[i])
    <3>1. s[j] <= s[i]
      BY <1>3, <2>1
    <3>2. s[j] \in Anc(head) \ Anc(base) /\ s[i] \in Anc(head) \ Anc(base)
      BY <1>5, <2>1 DEF Between
    <3> QED BY <1>0, <1>1, <3>1, <3>2, SingleParentsChain
  <2>3. EditsOf(s[j]) \subseteq EditsOf(s[i])
    BY <1>0, <1>6, <2>2, AncestorsAreBelow
  <2> QED BY <2>3 DEF Copy
<1>8. ASSUME NEW i \in 1..Len(s) PROVE Copy(base, s, i) \in Node
  <2>1. (IF i = 1 THEN origin ELSE Len(commits) + i - 1) \in Nat
    BY <1>0, <1>3
  <2>2. Anc(origin) \subseteq Nat /\ (Len(commits) + 1)..(Len(commits) + i) \subseteq Nat
    BY <1>0, <1>3, AncestorsAreBelow
  <2>3. EditsOf(origin) \cup (EditsOf(s[i]) \ EditsOf(base)) \subseteq Edits
    BY <1>0, <1>6 DEF Node, EditsOf
  <2>4. commits[origin].carriers \cup commits[s[i]].carriers \subseteq Tickets
    BY <1>0, <1>6 DEF Node
  <2> QED BY <2>1, <2>2, <2>3, <2>4 DEF Node, Copy
<1>9. [i \in 1..Len(s) |-> Copy(base, s, i)] \in Seq(Node)
  BY <1>3, <1>8
<1> QED BY <1>2, <1>3, <1>7, <1>8, <1>9

LEMMA LandKeeps ==
  ASSUME CloneHolds, NEW t \in Tickets, NEW method \in Methods,
         Land(t, method)
  PROVE  CloneHolds' /\ CloneMoves
<1> DEFINE head == refs[t]
           base == MergeBase(head, origin)
           s == Series(base, head)
           C == commits[origin].carriers \cup commits[head].carriers
           E == EditsOf(origin) \cup (EditsOf(head) \ EditsOf(base))
           x == [i \in 1..Len(s) |-> Copy(base, s, i)]
<1>1. /\ head # 0 /\ ~IsAncestor(head, origin)
      /\ origin' = Len(commits') /\ UNCHANGED <<refs, present, dirty, mergeHead>>
  BY DEF Land
<1>2. head \in Ids /\ C \in SUBSET Tickets
  <2>1. head \in Ids /\ origin \in Ids
    BY <1>1 DEF CloneHolds, TypeOK
  <2>2. commits[head] \in Node /\ commits[origin] \in Node
    BY <2>1, IdsAreNumbers DEF CloneHolds, Sound
  <2> QED BY <2>1, <2>2 DEF Node
<1>3. \/ commits' = Append(commits, NewCommit({origin, head}, E, C, 0))
      \/ commits' = Append(commits, NewCommit({origin}, E, C, 0))
      \/ /\ \A c \in Anc(head) \ Anc(base) : Cardinality(commits[c].parents) = 1
         /\ commits' = commits \o [i \in 1..Len(s) |->
                      [parents |-> {IF i = 1 THEN origin ELSE Len(commits) + i - 1},
                       anc |-> Anc(origin) \cup (Len(commits) + 1)..(Len(commits) + i),
                       edits |-> [k \in 1..Len(s) |->
                          EditsOf(origin) \cup (EditsOf(s[k]) \ EditsOf(base))][i],
                       carriers |-> commits[origin].carriers \cup commits[s[i]].carriers,
                       by |-> 0]]
  BY DEF Land, EditsOf, Anc
<1>4. \A i \in 1..Len(s) : [k \in 1..Len(s) |->
          EditsOf(origin) \cup (EditsOf(s[k]) \ EditsOf(base))][i]
        = EditsOf(origin) \cup (EditsOf(s[i]) \ EditsOf(base))
  OBVIOUS
<1>5. \/ commits' = Append(commits, NewCommit({origin, head}, E, C, 0))
      \/ commits' = Append(commits, NewCommit({origin}, E, C, 0))
      \/ /\ \A c \in Anc(head) \ Anc(base) : Cardinality(commits[c].parents) = 1
         /\ commits' = commits \o x
  BY <1>3, <1>4 DEF Copy
<1>6. base = MergeBase(head, origin) /\ s = Series(base, head)
  OBVIOUS
<1>7. E = EditsOf(origin) \cup (EditsOf(head) \ EditsOf(MergeBase(head, origin)))
  OBVIOUS
<1> HIDE DEF head, base, s, C, E
<1>9. CASE commits' = Append(commits, NewCommit({origin, head}, E, C, 0))
  BY <1>1, <1>2, <1>7, <1>9, OneLands
<1>10. CASE commits' = Append(commits, NewCommit({origin}, E, C, 0))
  BY <1>1, <1>2, <1>7, <1>10, OneLands
<1>11. CASE /\ \A c \in Anc(head) \ Anc(base) : Cardinality(commits[c].parents) = 1
            /\ commits' = commits \o x
  <2>1. /\ head \in Ids /\ ~IsAncestor(head, origin)
        /\ origin' = Len(commits') /\ UNCHANGED <<refs, present, dirty, mergeHead>>
        /\ \A c \in Anc(head) \ Anc(base) : Cardinality(commits[c].parents) = 1
    BY <1>1, <1>2, <1>11
  <2>2. /\ Len(s) \in Nat /\ Len(s) > 0 /\ x \in Seq(Node)
        /\ \A i \in 1..Len(s) :
             \A j \in 1..i : Copy(base, s, j).edits \subseteq Copy(base, s, i).edits
    BY <1>6, <2>1, CopiesChain
  <2>3. Len(x) = Len(s) /\ \A i \in 1..Len(s) : x[i] = Copy(base, s, i)
    BY <2>2
  <2>4. commits' = commits \o x
    BY <1>11
  <2> HIDE DEF x
  <2>5. ASSUME NEW i \in 1..Len(x)
        PROVE  /\ x[i].parents = {IF i = 1 THEN origin ELSE Len(commits) + i - 1}
               /\ x[i].anc = Anc(origin) \cup (Len(commits) + 1)..(Len(commits) + i)
               /\ x[i].by = 0
               /\ EditsOf(origin) \subseteq x[i].edits
    <3>1. x[i] = Copy(base, s, i)
      BY <2>3
    <3>2. x[i].edits = EditsOf(origin) \cup (EditsOf(s[i]) \ EditsOf(base))
      BY <3>1 DEF Copy
    <3> QED BY <3>1, <3>2 DEF Copy
  <2>6. ASSUME NEW i \in 1..Len(x), NEW j \in 1..i PROVE x[j].edits \subseteq x[i].edits
    <3>1. i \in 1..Len(s) /\ j \in 1..Len(s)
      BY <2>2, <2>3
    <3>2. Copy(base, s, j).edits \subseteq Copy(base, s, i).edits
      BY <2>2, <3>1
    <3> QED BY <2>3, <3>1, <3>2
  <2> QED BY <2>1, <2>2, <2>3, <2>4, <2>5, <2>6, ChainLands
<1> QED BY <1>5, <1>9, <1>10, <1>11

\* A step of people keeps the clone and moves it on.
LEMMA DevelopersKeep ==
  ASSUME CloneHolds, Developers
  PROVE  CloneHolds' /\ CloneMoves
<1>1. PICK t \in Tickets : OpenWorktree(t) \/ Write(t) \/ Leave(t) \/ \E m \in Methods : Land(t, m)
  BY DEF Developers
<1>2. CASE OpenWorktree(t)
  BY <1>2, OpenKeeps
<1>3. CASE Write(t)
  <2>1. \A e \in EditsBy[t] : e \in Edits
    BY RepositoryAssumption
  <2> QED BY <1>3, <2>1, CommitKeeps, StartMergeKeeps, EditKeeps DEF Write
<1>4. CASE Leave(t)
  BY <1>4, LeaveKeeps
<1>5. CASE \E m \in Methods : Land(t, m)
  BY <1>5, LandKeeps
<1> QED BY <1>1, <1>2, <1>3, <1>4, <1>5

LEMMA SameClone ==
  ASSUME CloneHolds, UNCHANGED repository
  PROVE  CloneHolds'
<1>1. /\ commits' = commits /\ refs' = refs /\ origin' = origin /\ present' = present
      /\ dirty' = dirty /\ mergeHead' = mergeHead
  BY DEF repository
<1>2. Longer /\ Sound(commits)' /\ DOMAIN commits' \ Ids = {} /\ Ids' = Ids
  BY <1>1, SameHistory
<1>3. TypeOK'
  BY <1>1, <1>2 DEF CloneHolds, TypeOK
<1>4. \A t \in Tickets : TicketHolds(t)'
  BY <1>1, <1>2, TicketKept
<1> QED BY <1>2, <1>3, <1>4 DEF CloneHolds

------------------------------------------------------------------------------
(* Part 3: pruning.                                                        *)

Pruner == [pc : {"off", "start", "next", "clean", "remove", "delete", "force", "done"},
           listed : SUBSET (Tickets \X Nat), at : Tickets \cup {0},
           result : SUBSET (Tickets \X Actions)]

\* The worktree at hand is a ticket's, and it is gone when its branch is deleted.
PruneHolds ==
  /\ pruner \in Pruner
  /\ pruner.pc \in {"clean", "remove", "delete", "force"} => pruner.at \in Tickets
  /\ pruner.pc \in {"delete", "force"} => present[pruner.at] = "gone"

\* The prune takes worktrees and branches away.
LEMMA RemoveKeeps ==
  ASSUME CloneHolds, Remove, pruner.at \in Tickets
  PROVE  /\ CloneHolds'
         /\ \A t \in Tickets : present'[t] = "gone" => dirty[t] = {}
<1> DEFINE t == pruner.at
<1>1. CASE t \in Open /\ Clean(t)
  <2>1. /\ present' = [present EXCEPT ![t] = "gone"]
        /\ UNCHANGED <<commits, refs, origin, dirty, mergeHead>>
    BY <1>1 DEF Remove
  <2>2. Leave(t)
    BY <1>1, <2>1 DEF Leave
  <2>3. CloneHolds' /\ CloneMoves
    BY <2>2, LeaveKeeps
  <2> QED BY <2>3 DEF CloneMoves, TicketMoves
<1>2. CASE ~(t \in Open /\ Clean(t))
  <2>1. UNCHANGED repository
    BY <1>2 DEF Remove, repository
  <2>2. \A u \in Tickets : present[u] = "gone" => dirty[u] = {}
    BY DEF CloneHolds, TicketHolds
  <2> QED BY <2>1, <2>2, SameClone DEF repository
<1> QED BY <1>1, <1>2

\* A branch whose worktree is gone is deleted.
LEMMA DropKeeps ==
  ASSUME CloneHolds, NEW t \in Tickets, present[t] = "gone",
         refs' = [refs EXCEPT ![t] = 0],
         UNCHANGED <<commits, origin, present, dirty, mergeHead>>
  PROVE  CloneHolds'
<1>1. Longer /\ Sound(commits)' /\ DOMAIN commits' \ Ids = {} /\ Ids' = Ids
  BY SameHistory
<1>2. TypeOK'
  BY <1>1 DEF CloneHolds, TypeOK
<1>3. ASSUME NEW u \in Tickets PROVE TicketHolds(u)'
  <2>1. CASE u # t
    BY <2>1, <1>1, TicketKept DEF CloneHolds, TypeOK
  <2>2. CASE u = t
    <3>1. refs'[t] = 0 /\ mergeHead[t] = 0 /\ dirty[t] = {}
      BY DEF CloneHolds, TypeOK, TicketHolds
    <3> QED BY <2>2, <3>1 DEF TicketHolds
  <2> QED BY <2>1, <2>2
<1> QED BY <1>1, <1>2, <1>3 DEF CloneHolds

\* The worktree taken next is one of the listing.
LEMMA LeastListed ==
  ASSUME pruner \in Pruner, pruner.listed # {},
         NEW w, w = CHOOSE x \in pruner.listed : \A v \in pruner.listed : x[1] <= v[1]
  PROVE  w \in pruner.listed /\ w[1] \in Tickets
<1> DEFINE N == {v[1] : v \in pruner.listed}
<1>1. \A v \in pruner.listed : v[1] \in Tickets
  BY DEF Pruner
<1>2. N \in SUBSET Nat /\ N # {}
  <2>1. \A v \in pruner.listed : v[1] \in Nat
    BY <1>1, RepositoryAssumption
  <2> QED BY <2>1
<1>3. PICK n \in N : \A m \in N : n <= m
  <2> HIDE DEF N
  <2> QED BY <1>2, SmallestIs
<1>4. \E x \in pruner.listed : \A v \in pruner.listed : x[1] <= v[1]
  BY <1>3
<1>5. w \in pruner.listed
  BY <1>4
<1> QED BY <1>1, <1>5

LEMMA SkipIsTyped ==
  ASSUME pruner \in Pruner, NEW t \in Tickets
  PROVE  /\ Skip(t) \in Pruner /\ Skip(t).pc = "next" /\ Skip(t).listed = Rest(t)
         /\ Deleted(t) \in Pruner /\ Deleted(t).pc = "next" /\ Deleted(t).listed = Rest(t)
<1>1. /\ Rest(t) \in SUBSET (Tickets \X Nat)
      /\ Result(t, "skipped") \in SUBSET (Tickets \X Actions)
      /\ Result(t, "removed") \in SUBSET (Tickets \X Actions)
  BY DEF Rest, Result, Pruner, Actions
<1> QED BY <1>1 DEF Skip, Deleted, Pruner

\* Steps that only look, and steps that change the clone.
LEMMA LookKeeps ==
  ASSUME CloneHolds, UNCHANGED repository, pruner' \in Pruner,
         pruner'.pc \in {"clean", "remove", "delete", "force"} => pruner'.at \in Tickets,
         pruner'.pc \in {"delete", "force"} => present[pruner'.at] = "gone"
  PROVE  /\ CloneHolds' /\ PruneHolds'
         /\ \A t \in Tickets : present'[t] = "gone" => dirty[t] = {}
<1>1. CloneHolds'
  BY SameClone
<1>2. present' = present
  BY DEF repository
<1>3. \A t \in Tickets : present[t] = "gone" => dirty[t] = {}
  BY DEF CloneHolds, TicketHolds
<1> QED BY <1>1, <1>2, <1>3 DEF PruneHolds

LEMMA PruneKeeps ==
  ASSUME CloneHolds, PruneHolds, Prune
  PROVE  /\ CloneHolds' /\ PruneHolds'
         /\ \A t \in Tickets : present'[t] = "gone" => dirty[t] = {}
<1>0. /\ \A u \in Tickets : present[u] = "gone" => dirty[u] = {}
      /\ present \in [Tickets -> {"none", "open", "gone"}]
      /\ refs \in [Tickets -> Ids \cup {0}] /\ Ids \subseteq Nat
      /\ pruner \in Pruner
  BY IdsAreNumbers DEF CloneHolds, TicketHolds, TypeOK, PruneHolds
<1>1. CASE List
  <2> DEFINE r == [pruner EXCEPT !.pc = "next", !.listed = {<<t, refs[t]>> : t \in Open}]
  <2>1. {<<t, refs[t]>> : t \in Open} \in SUBSET (Tickets \X Nat)
    <3>1. \A t \in Open : t \in Tickets /\ refs[t] \in Nat
      <4>1. 0 \in Nat
        OBVIOUS
      <4> QED BY <1>0, <4>1 DEF Open
    <3> QED BY <3>1
  <2>2. r \in Pruner /\ r.pc = "next"
    BY <1>0, <2>1 DEF Pruner
  <2>3. pruner' = r /\ UNCHANGED repository
    BY <1>1 DEF List
  <2> HIDE DEF r
  <2> QED BY <2>2, <2>3, LookKeeps
<1>2. CASE Take
  <2> DEFINE w == CHOOSE x \in pruner.listed : \A v \in pruner.listed : x[1] <= v[1]
             t == w[1]
             r == [pruner EXCEPT !.pc = "clean", !.at = t]
             q == [pruner EXCEPT !.listed = Rest(t), !.result = Result(t, "skipped")]
  <2>1. /\ pruner.pc = "next" /\ UNCHANGED repository
        /\ pruner' = IF t \in Open THEN r ELSE q
        /\ pruner.listed # {}
    BY <1>2 DEF Take
  <2>2. t \in Tickets
    BY <1>0, <2>1, LeastListed
  <2>3. r \in Pruner /\ r.pc = "clean" /\ r.at = t
    BY <1>0, <2>2 DEF Pruner
  <2>4. q \in Pruner /\ q.pc = "next"
    <3>1. /\ Rest(t) \in SUBSET (Tickets \X Nat)
          /\ Result(t, "skipped") \in SUBSET (Tickets \X Actions)
      <4> HIDE DEF t
      <4> QED BY <1>0, <2>2 DEF Rest, Result, Pruner, Actions
    <3> QED BY <1>0, <2>1, <3>1 DEF Pruner
  <2> HIDE DEF r, q, t
  <2> QED BY <2>1, <2>2, <2>3, <2>4, LookKeeps
<1>3. CASE Judge
  <2> DEFINE r == [pruner EXCEPT !.pc = "remove"]
  <2>1. /\ UNCHANGED repository /\ pruner.at \in Tickets
        /\ pruner' = r \/ pruner' = Skip(pruner.at)
    BY <1>3 DEF Judge, PruneHolds
  <2>2. r \in Pruner /\ r.pc = "remove" /\ r.at = pruner.at
    BY <1>0 DEF Pruner
  <2>3. Skip(pruner.at) \in Pruner /\ Skip(pruner.at).pc = "next"
    BY <1>0, <2>1, SkipIsTyped
  <2> HIDE DEF r
  <2> QED BY <2>1, <2>2, <2>3, LookKeeps
<1>4. CASE Remove
  <2> DEFINE r == [pruner EXCEPT !.pc = "delete"]
             t == pruner.at
  <2>1. t \in Tickets
    BY <1>4 DEF Remove, PruneHolds
  <2>2. /\ CloneHolds'
        /\ \A u \in Tickets : present'[u] = "gone" => dirty[u] = {}
    BY <1>4, <2>1, RemoveKeeps
  <2>3. \/ pruner' = Skip(t)
        \/ pruner' = r /\ present' = [present EXCEPT ![t] = "gone"]
    BY <1>4 DEF Remove
  <2>4. r \in Pruner /\ r.pc = "delete" /\ r.at = t
    BY <1>0 DEF Pruner
  <2>5. Skip(t) \in Pruner /\ Skip(t).pc = "next"
    BY <1>0, <2>1, SkipIsTyped
  <2>6. PruneHolds'
    <3> HIDE DEF r
    <3>1. CASE pruner' = Skip(t)
      BY <2>5, <3>1 DEF PruneHolds
    <3>2. CASE pruner' = r /\ present' = [present EXCEPT ![t] = "gone"]
      <4>1. present'[t] = "gone"
        BY <1>0, <2>1, <3>2
      <4> QED BY <2>1, <2>4, <3>2, <4>1 DEF PruneHolds
    <3> QED BY <2>3, <3>1, <3>2
  <2> QED BY <2>2, <2>6
<1>5. CASE Delete
  <2> DEFINE r == [pruner EXCEPT !.pc = "force"]
             t == pruner.at
  <2>1. /\ t \in Tickets /\ present[t] = "gone"
        /\ UNCHANGED <<commits, origin, present, dirty, mergeHead>>
    BY <1>5 DEF Delete, PruneHolds
  <2>2. \/ refs' = [refs EXCEPT ![t] = 0] /\ pruner' = Deleted(t)
        \/ pruner' = r /\ refs' = refs
    BY <1>5 DEF Delete
  <2>3. Deleted(t) \in Pruner /\ Deleted(t).pc = "next"
    BY <1>0, <2>1, SkipIsTyped
  <2>4. r \in Pruner /\ r.pc = "force" /\ r.at = t
    BY <1>0 DEF Pruner
  <2> HIDE DEF r
  <2>5. CASE refs' = [refs EXCEPT ![t] = 0] /\ pruner' = Deleted(t)
    <3>1. CloneHolds'
      BY <2>1, <2>5, DropKeeps
    <3> QED BY <1>0, <2>1, <2>3, <2>5, <3>1 DEF PruneHolds
  <2>6. CASE pruner' = r /\ refs' = refs
    <3>1. UNCHANGED repository
      BY <2>1, <2>6 DEF repository
    <3> QED BY <2>1, <2>4, <2>6, <3>1, LookKeeps
  <2> QED BY <2>2, <2>5, <2>6
<1>6. CASE ForceDelete
  <2> DEFINE t == pruner.at
  <2>1. /\ t \in Tickets /\ present[t] = "gone"
        /\ UNCHANGED <<commits, origin, present, dirty, mergeHead>>
        /\ refs' = [refs EXCEPT ![t] = 0] /\ pruner' = Deleted(t)
    <3>1. pruner.pc = "force"
      BY <1>6 DEF ForceDelete
    <3> QED BY <1>6, <3>1 DEF ForceDelete, PruneHolds
  <2>2. Deleted(t) \in Pruner /\ Deleted(t).pc = "next"
    BY <1>0, <2>1, SkipIsTyped
  <2>3. CloneHolds'
    BY <2>1, DropKeeps
  <2> QED BY <1>0, <2>1, <2>2, <2>3 DEF PruneHolds
<1>7. CASE Finish
  <2> DEFINE r == [pruner EXCEPT !.pc = "done", !.at = 0]
  <2>1. r \in Pruner /\ r.pc = "done"
    BY <1>0 DEF Pruner
  <2>2. pruner' = r /\ UNCHANGED repository
    BY <1>7 DEF Finish
  <2> HIDE DEF r
  <2> QED BY <2>1, <2>2, LookKeeps
<1> QED BY <1>1, <1>2, <1>3, <1>4, <1>5, <1>6, <1>7 DEF Prune

\* People never disturb what the prune remembers of the worktree at hand.
LEMMA PeopleKeepPrune ==
  ASSUME CloneHolds, PruneHolds, CloneMoves, UNCHANGED pruner
  PROVE  PruneHolds'
<1>1. \A t \in Tickets : present[t] = "gone" => present'[t] = "gone"
  BY DEF CloneMoves, TicketMoves
<1> QED BY <1>1 DEF PruneHolds

HygieneHolds == CloneHolds /\ PruneHolds

LEMMA CloneBegins ==
  ASSUME HygieneInit PROVE HygieneHolds
<1> USE DEF HygieneInit, Init
<1>1. Len(commits) = 1 /\ Ids = {1}
  BY DEF Ids
<1>2. commits \in Seq(Node)
  BY DEF Node
<1>3. Sound(commits)
  <2>1. SoundAt(commits, 1)
    BY DEF SoundAt
  <2> QED BY <1>1, <1>2, <2>1 DEF Sound
<1>4. TypeOK
  BY <1>1, <1>2 DEF TypeOK, Node
<1>5. \A t \in Tickets : TicketHolds(t)
  <2> TAKE t \in Tickets
  <2>1. t # 0
    BY RepositoryAssumption
  <2> QED BY <1>1, <2>1 DEF TicketHolds
<1>6. PruneHolds
  BY DEF PruneInit, PruneHolds, Pruner
<1> QED BY <1>3, <1>4, <1>5, <1>6 DEF CloneHolds, HygieneHolds

\* Every step keeps the clone; only people and the prune change it.
LEMMA CloneStep ==
  ASSUME HygieneHolds, [HygieneNext]_vars
  PROVE  /\ HygieneHolds'
         /\ CloneMoves \/ UNCHANGED repository \/ Prune
         /\ \A t \in Tickets : present'[t] = "gone" => dirty[t] = {}
<1> USE DEF HygieneHolds
<1>0. \A t \in Tickets : present[t] = "gone" => dirty[t] = {}
  BY DEF CloneHolds, TicketHolds
<1>1. CASE Work
  <2>1. CloneHolds' /\ CloneMoves /\ UNCHANGED pruner
    BY <1>1, DevelopersKeep DEF Work, tools
  <2> QED BY <2>1, PeopleKeepPrune DEF CloneMoves, TicketMoves
<1>2. CASE Prune
  BY <1>2, PruneKeeps
<1>3. CASE UNCHANGED repository /\ UNCHANGED pruner
  <2>1. CloneHolds' /\ present' = present
    BY <1>3, SameClone DEF repository
  <2> QED BY <1>0, <1>3, <2>1 DEF PruneHolds
<1>4. Record => UNCHANGED repository
  BY DEF Record
<1>5. Inspect \/ Watch => UNCHANGED repository
  BY DEF Inspect, Watch
<1>6. UNCHANGED vars => UNCHANGED repository /\ UNCHANGED pruner
  BY DEF vars, tools
<1> QED BY <1>1, <1>2, <1>3, <1>4, <1>5, <1>6 DEF HygieneNext, Tool

\* The commit graph, the branches and the worktrees stay in order whatever is done.
THEOREM ClonesStaySound == HygieneSpec => []HygieneHolds
<1>1. HygieneInit => HygieneHolds
  BY CloneBegins
<1>2. HygieneHolds /\ [HygieneNext]_vars => HygieneHolds'
  BY CloneStep
<1> QED BY <1>1, <1>2, PTL DEF HygieneSpec

\* No tool and nobody takes a worktree away that has something uncommitted: git worktree
\* remove looks at it at the moment it removes it (prune_worktrees).
THEOREM UncommittedWorkStays == HygieneSpec => DirtySurvives
<1>1. HygieneHolds /\ [HygieneNext]_vars
        => [\A t \in Tickets : present'[t] = "gone" => dirty[t] = {}]_<<present, dirty>>
  BY CloneStep
<1> QED BY <1>1, ClonesStaySound, PTL DEF HygieneSpec, DirtySurvives

\* The types of the clone and of the prune's run.
THEOREM CloneTypeCorrect == HygieneSpec => [](TypeOK /\ PrunerTypeOK)
<1>1. HygieneHolds => TypeOK /\ PrunerTypeOK
  BY DEF HygieneHolds, CloneHolds, PruneHolds, Pruner, PrunerTypeOK
<1> QED BY <1>1, ClonesStaySound, PTL

------------------------------------------------------------------------------
(* Part 4: the overlap check.                                              *)

\* An open worktree has a branch, whose tree has what the merge base with another head had.
LEMMA OpenHasBranch ==
  ASSUME CloneHolds, NEW t \in Open
  PROVE  /\ t \in Tickets /\ refs[t] \in Ids /\ origin \in Ids
         /\ EditsOf(MergeBase(refs[t], origin)) \subseteq EditsOf(refs[t])
         /\ EditsOf(MergeBase(refs[t], origin)) \subseteq EditsOf(origin)
         /\ \A o \in Open : /\ EditsOf(MergeBase(refs[t], refs[o])) \subseteq EditsOf(refs[t])
                            /\ EditsOf(MergeBase(refs[t], refs[o])) \subseteq EditsOf(refs[o])
<1>1. \A u \in Open : u \in Tickets /\ refs[u] \in Ids
  BY DEF CloneHolds, TicketHolds, TypeOK, Open
<1>2. origin \in Ids
  BY DEF CloneHolds, TypeOK
<1> QED BY <1>1, <1>2, MergeBaseIsCommon DEF CloneHolds

\* An edit of t that neither the target nor the other checkout has.
LEMMA OwnEditCounts ==
  ASSUME CloneHolds, NEW t \in Open, NEW o \in Open,
         NEW e \in Unlanded(t) \ Unlanded(o)
  PROVE  /\ PathOf[e] \in Contribution(t, o)
         /\ e \in dirty[t] => PathOf[e] \in OwnDirty(t)
         /\ e \notin EditsOf(refs[o]) /\ e \notin EditsOf(origin)
         /\ e \in EditsOf(refs[t]) \cup dirty[t]
<1>1. /\ e \in EditsOf(refs[t]) \cup dirty[t] /\ e \notin EditsOf(origin)
      /\ e \notin EditsOf(refs[o])
  BY DEF Unlanded
<1>2. ASSUME e \in dirty[t] PROVE PathOf[e] \in OwnDirty(t)
  <2>1. PathOf[e] \in DirtyPaths(t)
    BY <1>2 DEF DirtyPaths, Places
  <2>2. ASSUME mergeHead[t] = origin PROVE e \notin Staged(t)
    <3>1. origin # 0
      BY OpenHasBranch, IdsAreNumbers DEF CloneHolds
    <3> QED BY <1>1, <2>2, <3>1 DEF Staged
  <2>3. PathOf[e] \notin MainImports(t)
    BY <1>2, <2>2 DEF MainImports, Places
  <2> QED BY <2>1, <2>3 DEF OwnDirty
<1>3. ASSUME e \in EditsOf(refs[t]) PROVE PathOf[e] \in Contribution(t, o)
  <2>1. PathOf[e] \in DiffPaths(MergeBase(refs[t], refs[o]), refs[t])
    BY <1>1, <1>3, OpenHasBranch DEF DiffPaths
  <2>2. PathOf[e] \in DiffPaths(MergeBase(refs[t], origin), refs[t])
    BY <1>1, <1>3, OpenHasBranch DEF DiffPaths
  <2> QED BY <2>1, <2>2 DEF Contribution
<1>4. PathOf[e] \in Contribution(t, o)
  BY <1>1, <1>2, <1>3 DEF Contribution
<1> QED BY <1>1, <1>2, <1>4

\* A checkout with something unlanded is a writer.
LEMMA UnlandedIsPending ==
  ASSUME CloneHolds, NEW t \in Open, Unlanded(t) # {}
  PROVE  Pending(t)
<1> SUFFICES ASSUME Clean(t), IsAncestor(refs[t], origin) PROVE FALSE
  BY DEF Pending
<1>1. EditsOf(refs[t]) \subseteq EditsOf(origin)
  BY OpenHasBranch, AncestorsAreBelow DEF CloneHolds, IsAncestor
<1> QED BY <1>1 DEF Unlanded, Clean

LEMMA CollisionIsContested ==
  ASSUME CloneHolds, NEW t \in Open, NEW o \in Open,
         NEW e \in Unlanded(t) \ Unlanded(o), NEW f \in Unlanded(o) \ Unlanded(t),
         RegionOf[e] = RegionOf[f]
  PROVE  PathOf[e] \in Contested(t, o)
<1> DEFINE x == PathOf[e]
<1>1. /\ x \in Contribution(t, o) /\ (e \in dirty[t] => x \in OwnDirty(t))
      /\ e \notin EditsOf(refs[o]) /\ e \in EditsOf(refs[t]) \cup dirty[t]
  BY OwnEditCounts
<1>2. /\ PathOf[f] \in Contribution(o, t) /\ (f \in dirty[o] => PathOf[f] \in OwnDirty(o))
      /\ f \notin EditsOf(refs[t]) /\ f \in EditsOf(refs[o]) \cup dirty[o]
  BY OwnEditCounts
<1>3. x = PathOf[f]
  <2>1. e \in Edits /\ f \in Edits
    <3>1. \A u \in Open : EditsOf(refs[u]) \subseteq Edits /\ dirty[u] \subseteq Edits
      <4> TAKE u \in Open
      <4>1. u \in Tickets /\ refs[u] \in 1..Len(commits) /\ commits \in Seq(Node)
        BY OpenHasBranch, IdsAreNumbers DEF CloneHolds, Sound
      <4>2. commits[refs[u]] \in Node
        BY <4>1
      <4> QED BY <4>1, <4>2 DEF Node, EditsOf, CloneHolds, TypeOK
    <3> QED BY <1>1, <1>2, <3>1
  <2> QED BY <2>1, RepositoryAssumption
<1>4. CASE e \in dirty[t]
  BY <1>1, <1>2, <1>3, <1>4 DEF Contested
<1>5. CASE f \in dirty[o]
  BY <1>1, <1>2, <1>3, <1>5 DEF Contested
<1>6. CASE e \in EditsOf(refs[t]) /\ f \in EditsOf(refs[o])
  <2>1. ~IsAncestor(refs[t], refs[o]) /\ ~IsAncestor(refs[o], refs[t])
    BY <1>1, <1>2, <1>6, OpenHasBranch, AncestorsAreBelow DEF CloneHolds, IsAncestor
  <2>2. x \in ConflictPaths(refs[t], refs[o])
    <3>1. /\ e \notin EditsOf(MergeBase(refs[t], refs[o]))
          /\ f \notin EditsOf(MergeBase(refs[t], refs[o]))
      BY <1>1, <1>2, OpenHasBranch
    <3> QED BY <1>1, <1>2, <1>6, <3>1 DEF ConflictPaths
  <2> QED BY <1>1, <1>2, <1>3, <2>1, <2>2 DEF Contested
<1> QED BY <1>1, <1>2, <1>4, <1>5, <1>6

\* Two writers with different unlanded edits of one region are in the report of a check made
\* now (overlap_findings, contested_paths): whatever the merges, bases and releases.
LEMMA CollisionsAreReported == HygieneSpec => []CollisionIsReported
<1>1. ASSUME HygieneHolds PROVE CollisionIsReported
  <2> SUFFICES ASSUME NEW pair \in SUBSET Open, NEW t \in pair, NEW o \in pair,
                      pair = {t, o}, t < o,
                      NEW e \in Unlanded(t) \ Unlanded(o), NEW f \in Unlanded(o) \ Unlanded(t),
                      RegionOf[e] = RegionOf[f]
               PROVE  pair \in Findings
    BY DEF CollisionIsReported, Collisions
  <2>1. CloneHolds /\ t \in Open /\ o \in Open
    BY <1>1 DEF HygieneHolds
  <2>2. Pending(t) /\ Pending(o)
    BY <2>1, UnlandedIsPending
  <2>3. Contested(t, o) # {}
    BY <2>1, CollisionIsContested
  <2> QED BY <2>2, <2>3 DEF Findings
<1> QED BY <1>1, ClonesStaySound, PTL

\* What a checkout contributes, it wrote.
LEMMA ContributionIsOwn ==
  ASSUME CloneHolds, NEW t \in Open, NEW o \in Open
  PROVE  Contribution(t, o) \subseteq Places(Own(t)) /\ OwnDirty(t) \subseteq Contribution(t, o)
<1>1. DiffPaths(MergeBase(refs[t], origin), refs[t]) \subseteq Places(Own(t))
  BY OpenHasBranch DEF DiffPaths, Places, Own
<1>2. OwnDirty(t) \subseteq Places(Own(t))
  <2> SUFFICES ASSUME NEW e \in dirty[t], PathOf[e] \notin MainImports(t)
               PROVE  PathOf[e] \in Places(Own(t))
    BY DEF OwnDirty, DirtyPaths, Places
  <2>1. CASE mergeHead[t] # origin
    BY <2>1 DEF Own, Places
  <2>2. CASE mergeHead[t] = origin
    <3>1. \/ PathOf[e] \notin Places(Staged(t))
          \/ PathOf[e] \in Places(dirty[t] \ Staged(t))
          \/ PathOf[e] \in DiffPaths(MergeBase(refs[t], origin), refs[t])
      BY <2>2 DEF MainImports
    <3>2. CASE PathOf[e] \notin Places(Staged(t))
      BY <2>2, <3>2 DEF Own, Places
    <3>3. CASE PathOf[e] \in Places(dirty[t] \ Staged(t))
      BY <2>2, <3>3 DEF Own, Places
    <3> QED BY <1>1, <3>1, <3>2, <3>3
  <2> QED BY <2>1, <2>2
<1> QED BY <1>1, <1>2 DEF Contribution

\* Nobody is blamed for content that came with a merge: the paths that two writers contend
\* for were changed by both (pending_main_imports, changes_against_shared_default).
LEMMA ContendersWrote == HygieneSpec => []ContendersBothWrote
<1>1. ASSUME HygieneHolds PROVE ContendersBothWrote
  <2> SUFFICES ASSUME NEW t \in Open, NEW o \in Open, NEW x \in Contested(t, o)
               PROVE  x \in Places(Own(t)) /\ x \in Places(Own(o))
    BY DEF ContendersBothWrote
  <2>1. /\ Contribution(t, o) \subseteq Places(Own(t)) /\ OwnDirty(t) \subseteq Contribution(t, o)
        /\ Contribution(o, t) \subseteq Places(Own(o)) /\ OwnDirty(o) \subseteq Contribution(o, t)
    BY <1>1, ContributionIsOwn DEF HygieneHolds
  <2>2. x \in Contribution(t, o) /\ x \in Contribution(o, t)
    BY <2>1 DEF Contested
  <2> QED BY <2>1, <2>2
<1> QED BY <1>1, ClonesStaySound, PTL

\* What a check of the clone reports is what there is (contested_paths, overlap_findings).
THEOREM ReportsAreExact == HygieneSpec => []OverlapIsExact
BY CollisionsAreReported, ContendersWrote, PTL DEF OverlapIsExact

------------------------------------------------------------------------------
(* Part 5: releases of tickets.                                            *)

\* A receipt names a commit of the branch of its ticket.
OfItsTicket(r) == r \in Receipt /\ r.head \in Ids /\ commits[r.head].by = r.ticket

ActivityHolds ==
  /\ recorder \in [Recorders -> Reading]
  /\ \A r \in receipts : OfItsTicket(r)
  /\ \A q \in Recorders : recorder[q].pc # "idle" =>
       OfItsTicket(recorder[q].receipt) /\ \A r \in recorder[q].known : OfItsTicket(r)

LEMMA PruneKeepsHistory == Prune => commits' = commits
BY DEF Prune, List, Take, Judge, Remove, Delete, ForceDelete, Finish, repository

LEMMA ReceiptStays ==
  ASSUME Longer, CloneHolds, CloneHolds', NEW r, OfItsTicket(r)
  PROVE  OfItsTicket(r)'
<1>1. Ids = 1..Len(commits) /\ Ids' = 1..Len(commits') /\ Len(commits) \in Nat /\ Len(commits') \in Nat
  BY DEF CloneHolds, Sound, Ids
<1>2. r.head \in Ids' /\ commits'[r.head] = commits[r.head]
  BY <1>1 DEF OfItsTicket, Longer
<1> QED BY <1>2 DEF OfItsTicket

LEMMA RecordKeeps ==
  ASSUME CloneHolds, ActivityHolds, Record
  PROVE  ActivityHolds'
<1>0. UNCHANGED commits /\ recorder \in [Recorders -> Reading]
  BY DEF Record, repository, ActivityHolds
<1>1. \A r : OfItsTicket(r) => OfItsTicket(r)'
  BY <1>0 DEF OfItsTicket, Ids
<1>2. PICK q \in Recorders : Read(q) \/ Verify(q) \/ Replace(q)
  BY DEF Record
<1>3. recorder[q] \in Reading
  BY <1>0
<1>4. CASE Read(q)
  <2>1. PICK t, h, c :
          /\ t \in Tickets /\ h \in Ids /\ commits[h].by = t /\ c \in Ids
          /\ recorder' = [recorder EXCEPT ![q] =
               [pc |-> "read", receipt |-> [ticket |-> t, head |-> h, terminal |-> c],
                known |-> receipts]]
    BY <1>4 DEF Read
  <2> DEFINE r == [ticket |-> t, head |-> h, terminal |-> c]
  <2>2. r \in Receipt /\ OfItsTicket(r)
    BY <2>1, IdsAreNumbers DEF Receipt, OfItsTicket, CloneHolds
  <2>3. receipts' = receipts /\ \A k \in receipts : OfItsTicket(k) /\ k \in Receipt
    BY <1>4 DEF Read, ActivityHolds, OfItsTicket
  <2> DEFINE x == [pc |-> "read", receipt |-> r, known |-> receipts]
  <2>4. x \in Reading /\ x.receipt = r /\ x.known = receipts
    BY <2>2, <2>3 DEF Reading
  <2>5. recorder' = [recorder EXCEPT ![q] = x]
    BY <2>1
  <2> HIDE DEF x, r
  <2> QED BY <1>0, <1>1, <2>2, <2>3, <2>4, <2>5 DEF ActivityHolds
<1>5. CASE Verify(q)
  <2> DEFINE p == IF Verified(Primary, recorder[q].receipt) THEN "verified" ELSE "refused"
             x == [recorder[q] EXCEPT !.pc = p]
  <2>1. recorder[q].pc = "read" /\ receipts' = receipts
    BY <1>5 DEF Verify
  <2>2. recorder' = [recorder EXCEPT ![q] = x]
    BY <1>5 DEF Verify
  <2>3. p \in {"verified", "refused"}
    OBVIOUS
  <2> HIDE DEF p
  <2>4. /\ x \in Reading /\ x.receipt = recorder[q].receipt /\ x.known = recorder[q].known
    BY <1>3, <2>3 DEF Reading
  <2> HIDE DEF x
  <2>5. recorder[q].pc # "idle"
    BY <2>1
  <2> QED BY <1>0, <1>1, <2>1, <2>2, <2>4, <2>5 DEF ActivityHolds
<1>6. CASE Replace(q)
  <2> DEFINE x == [recorder[q] EXCEPT !.pc = "recorded"]
  <2>1. recorder[q].pc # "idle" /\ receipts' = recorder[q].known \cup {recorder[q].receipt}
    BY <1>6 DEF Replace
  <2>2. recorder' = [recorder EXCEPT ![q] = x]
    BY <1>6 DEF Replace
  <2>3. x \in Reading /\ x.receipt = recorder[q].receipt /\ x.known = recorder[q].known
    BY <1>3 DEF Reading
  <2> HIDE DEF x
  <2> QED BY <1>0, <1>1, <2>1, <2>2, <2>3 DEF ActivityHolds
<1> QED BY <1>2, <1>4, <1>5, <1>6

LEMMA ActivityStep ==
  ASSUME HygieneHolds, ActivityHolds, [HygieneNext]_vars
  PROVE  ActivityHolds'
<1>1. HygieneHolds' /\ (CloneMoves \/ UNCHANGED repository \/ Prune)
  BY CloneStep
<1>2. Longer
  BY <1>1, PruneKeepsHistory, SameHistory DEF CloneMoves, repository, HygieneHolds
<1>3. CASE UNCHANGED activity
  <2>1. \A r : OfItsTicket(r) => OfItsTicket(r)'
    BY <1>1, <1>2, ReceiptStays DEF HygieneHolds
  <2> QED BY <1>3, <2>1 DEF ActivityHolds, activity
<1>4. CASE Record
  BY <1>4, RecordKeeps DEF HygieneHolds
<1> QED BY <1>3, <1>4 DEF HygieneNext, Work, Tool, Prune, Inspect, Watch, vars, tools

\* A squashed or rebased branch: what the patches of the branch added, the target has.
LEMMA SquashHasAll ==
  ASSUME CloneHolds, NEW head \in Ids, NEW terminal \in Ids, Squashed(head, terminal)
  PROVE  EditsOf(head) \subseteq EditsOf(terminal)
<1> DEFINE base == MergeBase(head, terminal)
           p == CHOOSE q \in commits[terminal].parents : TRUE
<1>1. Patch(base, head) = Patch(p, terminal)
  BY DEF Squashed
<1>2. EditsOf(head) \ EditsOf(base) = EditsOf(terminal) \ EditsOf(p)
  BY <1>1 DEF Patch
<1>3. EditsOf(base) \subseteq EditsOf(terminal)
  BY MergeBaseIsCommon DEF CloneHolds
<1> HIDE DEF base, p
<1> QED BY <1>2, <1>3

LEMMA RebaseHasAll ==
  ASSUME CloneHolds, NEW head \in Ids, NEW terminal \in Ids, Rebased(head, terminal)
  PROVE  EditsOf(head) \subseteq EditsOf(terminal)
<1> DEFINE base == MergeBase(head, terminal)
           s == Series(base, head)
           onto == Back[terminal, Len(s)]
           copy == Series(onto, terminal)
<1>1. /\ s # <<>> /\ Len(copy) = Len(s)
      /\ \A i \in DOMAIN s : PatchId(base, s, i) = PatchId(onto, copy, i)
  BY DEF Rebased, Linear
<1>2. base \in Ids /\ EditsOf(base) \subseteq EditsOf(terminal) /\ base \in Anc(head)
  BY MergeBaseIsCommon DEF CloneHolds
<1>3. /\ Len(s) \in Nat /\ s \in Seq(Between(base, head))
      /\ \A c \in Between(base, head) : \E i \in 1..Len(s) : s[i] = c
  BY <1>2, SeriesIsOrdered DEF CloneHolds
<1>4. head \in Between(base, head)
  <2>1. s[1] \in Between(base, head)
    <3> HIDE DEF s
    <3>1. Len(s) # 0
      BY <1>1, <1>3, EmptySeq
    <3> QED BY <1>3, <3>1
  <2>2. head \notin Anc(base)
    BY <1>2, <2>1, AncestorsAreBelow DEF Between, CloneHolds
  <2> QED BY <1>2, <2>2, AncestorsAreBelow DEF Between, CloneHolds
<1>5. \A i \in 1..Len(s) : copy[i] \in Anc(terminal)
  <2> DEFINE S == Between(onto, terminal)
  <2>1. copy = [i \in 1..Cardinality(S) |-> Nth(S, i)]
    BY DEF Series, Between, Nth, Rank
  <2>2. S \in SUBSET (1..Len(commits)) /\ Len(commits) \in Nat
    BY IdsAreNumbers, AncestorsAreBelow DEF Between, CloneHolds
  <2>3. S \subseteq Anc(terminal)
    BY DEF Between
  <2> HIDE DEF S, onto
  <2>4. Cardinality(S) \in Nat /\ \A i \in 1..Cardinality(S) : Nth(S, i) \in S
    BY <2>2, PlacesAreTaken
  <2>5. Len(copy) = Cardinality(S) /\ \A i \in 1..Cardinality(S) : copy[i] = Nth(S, i)
    BY <2>1, <2>4
  <2> QED BY <1>1, <2>3, <2>4, <2>5
<1> HIDE DEF base, s, onto, copy
<1>6. \A i \in 1..Len(s) : EditsOf(copy[i]) \subseteq EditsOf(terminal)
  BY <1>5, AncestorsAreBelow DEF CloneHolds
<1>7. \A i \in 1..Len(s) :
        EditsOf(s[i]) \ EditsOf(IF i = 1 THEN base ELSE s[i - 1]) \subseteq EditsOf(copy[i])
  BY <1>1, <1>3 DEF PatchId, Patch
<1> SUFFICES ASSUME NEW e \in EditsOf(head), e \notin EditsOf(terminal) PROVE FALSE
  OBVIOUS
<1> DEFINE N == {i \in 1..Len(s) : e \in EditsOf(s[i])}
<1>8. N \in SUBSET Nat /\ N # {}
  BY <1>3, <1>4
<1>9. PICK i \in N : \A j \in N : i <= j
  <2> HIDE DEF N
  <2> QED BY <1>8, SmallestIs
<1>10. e \in EditsOf(IF i = 1 THEN base ELSE s[i - 1])
  BY <1>6, <1>7, <1>9
<1>11. CASE i = 1
  BY <1>2, <1>10, <1>11
<1>12. CASE i # 1
  <2>1. i - 1 \in N
    BY <1>3, <1>9, <1>10, <1>12
  <2> QED BY <1>3, <1>9, <2>1
<1> QED BY <1>11, <1>12

\* A ticket that its own checkout resolves as released has nothing that the target lacks, be
\* it released by receipts - merged, squashed or rebased - or by its directory's landing.
THEOREM ReleasesAreIntegrated == HygieneSpec => []ReleasedIsIntegrated
<1>1. HygieneInit => ActivityHolds
  <2> SUFFICES ASSUME HygieneInit PROVE ActivityHolds
    OBVIOUS
  <2>1. receipts = {} /\ recorder = [r \in Recorders |->
          [pc |-> "idle", receipt |-> NoReceipt, known |-> {}]]
    BY DEF HygieneInit, ActivityInit
  <2> QED BY <2>1 DEF ActivityHolds, Reading
<1>2. HygieneHolds /\ ActivityHolds /\ [HygieneNext]_vars => ActivityHolds'
  BY ActivityStep
<1>3. ASSUME HygieneHolds, ActivityHolds PROVE ReleasedIsIntegrated
  <2> SUFFICES ASSUME NEW t \in Tickets, refs[t] # 0, Released(t, t)
               PROVE  EditsOf(refs[t]) \subseteq EditsOf(origin)
    BY DEF ReleasedIsIntegrated
  <2>0. CloneHolds /\ origin \in Ids /\ refs[t] \in Ids
    BY <1>3 DEF HygieneHolds, CloneHolds, TypeOK
  <2>1. CASE DeliveryLanded(t, origin)
    BY <2>0, <2>1, AncestorsAreBelow DEF DeliveryLanded, IsAncestor, CloneHolds
  <2>2. CASE \E r \in receipts : r.ticket = t /\ Verified(t, r)
    <3>1. PICK r \in receipts : r.ticket = t /\ Verified(t, r)
      BY <2>2
    <3>2. /\ r.head \in Ids /\ r.terminal \in Ids /\ r.terminal \in Anc(origin)
          /\ ~Advanced(t, t, r.head, r.terminal)
      BY <3>1 DEF Verified, IsAncestor
    <3>3. r.head \in Anc(refs[t])
      BY <1>3, <2>0, <3>1 DEF ActivityHolds, OfItsTicket, CloneHolds, TicketHolds
    <3>4. EditsOf(r.terminal) \subseteq EditsOf(origin) /\ Anc(r.terminal) \subseteq Anc(origin)
      BY <2>0, <3>2, AncestorsAreBelow DEF CloneHolds
    <3>5. CASE refs[t] \in Anc(r.terminal)
      BY <2>0, <3>4, <3>5, AncestorsAreBelow DEF CloneHolds
    <3>6. CASE refs[t] = r.head
      <4>1. EditsOf(r.head) \subseteq EditsOf(r.terminal)
        BY <2>0, <3>1, <3>2, AncestorsAreBelow, SquashHasAll, RebaseHasAll
           DEF Verified, IsAncestor, CloneHolds
      <4> QED BY <3>4, <3>6, <4>1
    <3> QED BY <3>2, <3>3, <3>5, <3>6 DEF Advanced, IsAncestor
  <2> QED BY <2>1, <2>2 DEF Released
<1> QED BY <1>1, <1>2, <1>3, ClonesStaySound, PTL DEF HygieneSpec

------------------------------------------------------------------------------
(* Part 6: pruning beside people who do not commit.                        *)

\* While nobody commits, the listing stays true, and a branch whose worktree is taken away
\* is merged.
ListingIsTrue ==
  /\ \A w \in pruner.listed : w[2] = refs[w[1]] /\ w[2] # 0 /\ present[w[1]] # "none"
  /\ pruner.pc \in {"clean", "remove", "delete", "force"} =>
       \E w \in pruner.listed : w[1] = pruner.at
  /\ pruner.pc \in {"remove", "delete", "force"} => refs[pruner.at] \in Anc(origin)

NothingIsLost == CommitsSurvive /\ (Pruning => ListingIsTrue)

LEMMA PeopleLoseNothing ==
  ASSUME WritersPause, HygieneHolds, NothingIsLost, Work
  PROVE  NothingIsLost'
<1>0. /\ CloneHolds /\ CloneHolds' /\ CloneMoves /\ UNCHANGED pruner
      /\ Pruning => \A c \in DOMAIN commits' \ Ids : commits'[c].by = 0
      /\ pruner \in Pruner
  BY DevelopersKeep DEF Work, tools, HygieneHolds, PruneHolds
<1>1. /\ Sound(commits') /\ Ids' = 1..Len(commits') /\ origin' \in Ids' /\ origin \in Ids
      /\ refs \in [Tickets -> Ids \cup {0}] /\ refs' \in [Tickets -> Ids' \cup {0}]
  BY <1>0 DEF CloneHolds, Sound, Ids, TypeOK
<1>2. \A c \in Ids : Anc(c) = commits'[c].anc
  BY <1>0 DEF CloneMoves, Longer, Anc
<1>3. Anc(origin) \subseteq commits'[origin'].anc
  BY <1>0, <1>1, <1>2, LooksBack DEF CloneMoves
<1>4. \A t \in Tickets : refs[t] # 0 =>
        refs'[t] # 0 /\ Anc(refs[t]) \subseteq commits'[refs'[t]].anc
  <2> SUFFICES ASSUME NEW t \in Tickets, refs[t] # 0
               PROVE  refs'[t] # 0 /\ Anc(refs[t]) \subseteq commits'[refs'[t]].anc
    OBVIOUS
  <2>1. refs'[t] # 0 /\ refs[t] \in commits'[refs'[t]].anc /\ refs[t] \in Ids /\ refs'[t] \in Ids'
    BY <1>0, <1>1 DEF CloneMoves, TicketMoves
  <2> QED BY <1>1, <1>2, <2>1, LooksBack
<1>5. CommitsSurvive'
  <2> SUFFICES ASSUME NEW c \in Ids'
               PROVE  \/ c \in commits'[origin'].anc
                      \/ \E t \in Tickets : refs'[t] # 0 /\ c \in commits'[refs'[t]].anc
    BY DEF CommitsSurvive, IsAncestor, Anc
  <2>1. CASE c \in Ids
    BY <2>1, <1>3, <1>4 DEF NothingIsLost, CommitsSurvive, IsAncestor
  <2>2. CASE c \notin Ids
    BY <2>2, <1>0 DEF CloneMoves, Ids
  <2> QED BY <2>1, <2>2
<1>6. ASSUME Pruning' PROVE ListingIsTrue'
  <2>1. Pruning /\ ListingIsTrue
    BY <1>0, <1>6 DEF Pruning, NothingIsLost
  <2>2. \A t \in Tickets : present[t] # "none" => refs'[t] = refs[t] /\ present'[t] # "none"
    BY <1>0, <2>1, RepositoryAssumption DEF CloneMoves, TicketMoves
  <2>3. \A w \in pruner.listed : w[1] \in Tickets
    BY <1>0 DEF Pruner
  <2>4. pruner.pc \in {"remove", "delete", "force"} => refs'[pruner.at] = refs[pruner.at]
    BY <2>1, <2>2, <2>3 DEF ListingIsTrue
  <2> QED BY <1>0, <1>3, <2>1, <2>2, <2>3, <2>4 DEF ListingIsTrue, Anc
<1> QED BY <1>5, <1>6 DEF NothingIsLost

\* A branch that is merged may go.
LEMMA MergedMayGo ==
  ASSUME CloneHolds, CommitsSurvive, NEW t \in Tickets, refs[t] \in Anc(origin),
         refs' = [refs EXCEPT ![t] = 0], UNCHANGED <<commits, origin>>
  PROVE  CommitsSurvive'
<1>1. origin \in Ids /\ refs \in [Tickets -> Ids \cup {0}]
  BY DEF CloneHolds, TypeOK
<1>2. Anc(refs[t]) \subseteq Anc(origin)
  BY <1>1, AncestorsAreBelow DEF CloneHolds
<1>3. Ids' = Ids /\ \A c \in Ids : c \in Anc(origin)' <=> c \in Anc(origin)
  BY DEF Ids, Anc
<1> SUFFICES ASSUME NEW c \in Ids, c \notin Anc(origin)
             PROVE  \E u \in Tickets : refs'[u] # 0 /\ c \in commits[refs'[u]].anc
  BY <1>3 DEF CommitsSurvive, IsAncestor, Anc
<1>4. PICK u \in Tickets : refs[u] # 0 /\ c \in Anc(refs[u])
  BY DEF CommitsSurvive, IsAncestor
<1>5. u # t /\ refs'[u] = refs[u]
  BY <1>1, <1>2, <1>4
<1> QED BY <1>4, <1>5 DEF Anc

LEMMA PruneLosesNothing ==
  ASSUME HygieneHolds, NothingIsLost, Prune
  PROVE  NothingIsLost'
<1>0. /\ CloneHolds /\ pruner \in Pruner /\ PruneHolds
      /\ refs \in [Tickets -> Ids \cup {0}] /\ present \in [Tickets -> {"none", "open", "gone"}]
  BY DEF HygieneHolds, PruneHolds, CloneHolds, TypeOK
<1>1. ASSUME UNCHANGED repository PROVE CommitsSurvive' /\ UNCHANGED <<refs, present, origin, commits>>
  <2>1. UNCHANGED <<refs, present, origin, commits>>
    BY <1>1 DEF repository
  <2> QED BY <2>1 DEF NothingIsLost, CommitsSurvive, IsAncestor, Anc, Ids
<1>2. ASSUME NEW t PROVE Skip(t).listed = Rest(t) /\ Skip(t).pc = "next"
                      /\ Deleted(t).listed = Rest(t) /\ Deleted(t).pc = "next"
  BY <1>0 DEF Skip, Deleted, Pruner
<1>3. \A t : Rest(t) \subseteq pruner.listed /\ \A w \in Rest(t) : w[1] # t
  BY DEF Rest
<1>4. ASSUME NEW t, pruner' = Skip(t), UNCHANGED repository, Pruning PROVE NothingIsLost'
  <2>1. pruner'.pc = "next" /\ pruner'.listed \subseteq pruner.listed
    BY <1>2, <1>3, <1>4
  <2> QED BY <1>1, <1>4, <2>1 DEF NothingIsLost, ListingIsTrue
<1>5. CASE List
  <2> DEFINE L == {<<t, refs[t]>> : t \in Open}
             r == [pruner EXCEPT !.pc = "next", !.listed = L]
  <2>1. pruner' = r /\ UNCHANGED repository
    BY <1>5 DEF List
  <2>2. r.pc = "next" /\ r.listed = L
    BY <1>0 DEF Pruner
  <2>3. \A w \in L : w[2] = refs[w[1]] /\ w[2] # 0 /\ present[w[1]] # "none"
    BY <1>0 DEF Open, CloneHolds, TicketHolds
  <2> HIDE DEF r, L
  <2> QED BY <1>1, <2>1, <2>2, <2>3 DEF NothingIsLost, ListingIsTrue
<1>6. CASE Take
  <2> DEFINE w == CHOOSE x \in pruner.listed : \A v \in pruner.listed : x[1] <= v[1]
             t == w[1]
             r == [pruner EXCEPT !.pc = "clean", !.at = t]
             q == [pruner EXCEPT !.listed = Rest(t), !.result = Result(t, "skipped")]
  <2>1. /\ pruner.pc = "next" /\ UNCHANGED repository
        /\ pruner' = IF t \in Open THEN r ELSE q
        /\ pruner.listed # {}
    BY <1>6 DEF Take
  <2>2. w \in pruner.listed
    BY <1>0, <2>1, LeastListed
  <2>3. r.pc = "clean" /\ r.at = t /\ r.listed = pruner.listed
    BY <1>0 DEF Pruner
  <2>4. q.pc = "next" /\ q.listed = Rest(t)
    BY <1>0, <2>1 DEF Pruner
  <2>5. ListingIsTrue
    BY <2>1 DEF NothingIsLost, Pruning
  <2> HIDE DEF w
  <2>6. \E x \in pruner.listed : x[1] = t
    BY <2>2
  <2> HIDE DEF r, q, t
  <2>7. CASE pruner' = r
    BY <1>1, <2>1, <2>3, <2>5, <2>6, <2>7 DEF NothingIsLost, ListingIsTrue
  <2>8. CASE pruner' = q
    BY <1>1, <1>3, <2>1, <2>4, <2>5, <2>8 DEF NothingIsLost, ListingIsTrue
  <2> QED BY <2>1, <2>7, <2>8
<1>7. CASE Judge
  <2> DEFINE t == pruner.at
             r == [pruner EXCEPT !.pc = "remove"]
  <2>1. /\ pruner.pc = "clean" /\ UNCHANGED repository
        /\ \/ pruner' = r /\ ListedHead(t) \in Anc(origin)
           \/ pruner' = Skip(t)
    BY <1>7 DEF Judge, IsAncestor
  <2>2. r.pc = "remove" /\ r.at = t /\ r.listed = pruner.listed
    BY <1>0 DEF Pruner
  <2>3. ListingIsTrue /\ Pruning
    BY <2>1 DEF NothingIsLost, Pruning
  <2>4. ListedHead(t) = refs[t]
    BY <2>1, <2>3 DEF ListedHead, ListingIsTrue
  <2> HIDE DEF r
  <2>5. CASE pruner' = r /\ ListedHead(t) \in Anc(origin)
    <3>1. Anc(origin)' = Anc(origin)
      BY <1>1, <2>1 DEF Anc
    <3> QED BY <1>1, <2>1, <2>2, <2>3, <2>4, <2>5, <3>1 DEF NothingIsLost, ListingIsTrue
  <2> QED BY <1>4, <2>1, <2>3, <2>5
<1>8. CASE Remove
  <2> DEFINE t == pruner.at
             r == [pruner EXCEPT !.pc = "delete"]
  <2>1. /\ pruner.pc = "remove" /\ UNCHANGED <<commits, refs, origin>>
        /\ \/ pruner' = r /\ present' = [present EXCEPT ![t] = "gone"]
           \/ pruner' = Skip(t) /\ UNCHANGED repository
    BY <1>8 DEF Remove, repository
  <2>2. r.pc = "delete" /\ r.at = t /\ r.listed = pruner.listed
    BY <1>0 DEF Pruner
  <2>3. ListingIsTrue /\ Pruning
    BY <2>1 DEF NothingIsLost, Pruning
  <2> HIDE DEF r
  <2>4. CASE pruner' = r /\ present' = [present EXCEPT ![t] = "gone"]
    <3>1. CommitsSurvive' /\ Anc(origin)' = Anc(origin)
      BY <2>1 DEF NothingIsLost, CommitsSurvive, IsAncestor, Anc, Ids
    <3>2. \A u \in Tickets : present[u] # "none" => present'[u] # "none"
      BY <1>0, <2>4
    <3>3. \A w \in pruner.listed : w[1] \in Tickets
      BY <1>0 DEF Pruner
    <3> QED BY <2>1, <2>2, <2>3, <2>4, <3>1, <3>2, <3>3 DEF NothingIsLost, ListingIsTrue
  <2> QED BY <1>4, <2>1, <2>3, <2>4
<1>9. ASSUME pruner.pc \in {"delete", "force"}, UNCHANGED <<commits, origin, present, dirty, mergeHead>>,
             refs' = [refs EXCEPT ![pruner.at] = 0], pruner' = Deleted(pruner.at)
      PROVE  NothingIsLost'
  <2> DEFINE t == pruner.at
  <2>1. ListingIsTrue /\ t \in Tickets
    BY <1>0, <1>9 DEF NothingIsLost, Pruning, PruneHolds
  <2>2. refs[t] \in Anc(origin)
    BY <1>9, <2>1 DEF ListingIsTrue
  <2>3. CommitsSurvive'
    BY <1>0, <1>9, <2>1, <2>2, MergedMayGo DEF NothingIsLost
  <2>4. pruner'.pc = "next" /\ pruner'.listed = Rest(t)
    BY <1>2, <1>9
  <2>5. \A w \in Rest(t) : refs'[w[1]] = refs[w[1]]
    <3>1. \A w \in pruner.listed : w[1] \in Tickets
      BY <1>0 DEF Pruner
    <3> QED BY <1>0, <1>3, <1>9, <3>1
  <2> QED BY <1>3, <1>9, <2>1, <2>3, <2>4, <2>5 DEF NothingIsLost, ListingIsTrue
<1>10. CASE Delete
  <2> DEFINE r == [pruner EXCEPT !.pc = "force"]
  <2>1. /\ pruner.pc = "delete" /\ UNCHANGED <<commits, origin, present, dirty, mergeHead>>
        /\ \/ refs' = [refs EXCEPT ![pruner.at] = 0] /\ pruner' = Deleted(pruner.at)
           \/ pruner' = r /\ refs' = refs
    BY <1>10 DEF Delete
  <2>2. r.pc = "force" /\ r.at = pruner.at /\ r.listed = pruner.listed
    BY <1>0 DEF Pruner
  <2>3. ListingIsTrue
    BY <2>1 DEF NothingIsLost, Pruning
  <2> HIDE DEF r
  <2>4. CASE pruner' = r /\ refs' = refs
    <3>1. UNCHANGED repository /\ Anc(origin)' = Anc(origin)
      BY <2>1, <2>4 DEF repository, Anc
    <3> QED BY <1>1, <2>1, <2>2, <2>3, <2>4, <3>1 DEF NothingIsLost, ListingIsTrue
  <2> QED BY <1>9, <2>1, <2>4
<1>11. CASE ForceDelete
  BY <1>9, <1>11 DEF ForceDelete
<1>12. CASE Finish
  <2> DEFINE r == [pruner EXCEPT !.pc = "done", !.at = 0]
  <2>1. pruner' = r /\ UNCHANGED repository
    BY <1>12 DEF Finish
  <2>2. r.pc = "done"
    BY <1>0 DEF Pruner
  <2> HIDE DEF r
  <2> QED BY <1>1, <2>1, <2>2 DEF NothingIsLost, Pruning
<1> QED BY <1>5, <1>6, <1>7, <1>8, <1>10, <1>11, <1>12 DEF Prune

\* While nobody commits in the worktrees, the prune loses no commit: a branch is deleted, by
\* force even, only after the head that was listed was found on the target
\* (prune_worktrees: is_ancestor before remove_worktree and delete_branch).
THEOREM PruningLosesNothing ==
  ASSUME WritersPause
  PROVE  HygieneSpec => []CommitsSurvive
<1>1. HygieneInit => NothingIsLost
  <2> SUFFICES ASSUME HygieneInit PROVE NothingIsLost
    OBVIOUS
  <2>1. \A c \in Ids : c \in Anc(origin)
    BY DEF HygieneInit, Init, Ids, Anc
  <2>2. ~Pruning
    BY DEF HygieneInit, PruneInit, Pruning
  <2> QED BY <2>1, <2>2 DEF NothingIsLost, CommitsSurvive, IsAncestor
<1>2. HygieneHolds /\ NothingIsLost /\ [HygieneNext]_vars => NothingIsLost'
  <2> SUFFICES ASSUME HygieneHolds, NothingIsLost, [HygieneNext]_vars PROVE NothingIsLost'
    OBVIOUS
  <2>1. CASE UNCHANGED repository /\ UNCHANGED pruner
    <3>1. UNCHANGED <<commits, refs, origin, present, pruner>>
      BY <2>1 DEF repository
    <3> QED BY <3>1 DEF NothingIsLost, CommitsSurvive, IsAncestor, Anc, Ids, Pruning, ListingIsTrue
  <2>2. Record \/ Inspect \/ Watch => UNCHANGED repository
    BY DEF Record, Inspect, Watch
  <2>3. UNCHANGED vars => UNCHANGED repository /\ UNCHANGED pruner
    BY DEF vars, tools
  <2>4. Work => NothingIsLost'
    BY PeopleLoseNothing
  <2>5. Prune => NothingIsLost'
    BY PruneLosesNothing
  <2> QED BY <2>1, <2>2, <2>3, <2>4, <2>5 DEF HygieneNext, Tool
<1>3. NothingIsLost => CommitsSurvive
  BY DEF NothingIsLost
<1> QED BY <1>1, <1>2, <1>3, ClonesStaySound, PTL DEF HygieneSpec

------------------------------------------------------------------------------
(* Part 7: the work-start inspection.                                      *)

\* A record with the fields of an inspection.
Whole(x) ==
  x = [pc |-> x.pc, selected |-> x.selected, stream |-> x.stream, requested |-> x.requested,
       expected |-> x.expected, refs |-> x.refs, registered |-> x.registered, dirty |-> x.dirty,
       released |-> x.released, reread |-> x.reread, route |-> x.route, contested |-> x.contested]

Observing == {"checkouts", "again"}
Admissions == {"NEW_TICKET_CANDIDATE", "REUSE_EXISTING"}

\* The refs that were read are those of the clone now; they may fall behind and never catch up.
Current == inspection.refs = <<refs, origin>>
Behind ==
  inspection.pc \in Observing =>
    \E r, o : /\ inspection.refs = <<r, o>> /\ r \in [Tickets -> Nat] /\ o \in Nat
              /\ o <= origin /\ \A t \in Tickets : r[t] <= refs[t]

\* The registered checkouts have the heads that the refs had, and those visited are registered.
RegistrationHolds ==
  /\ inspection.pc \in Observing /\ Current =>
       \A w \in inspection.registered :
         w[1] \in Tickets => w[2] = refs[w[1]] /\ w[2] # 0
  /\ inspection.pc \in {"start", "refs", "checkouts"} => Visited \subseteq Registered
  /\ inspection.pc \in {"start", "refs"} => inspection.registered = {}

\* An edit on a requested path which neither the target nor the selected branch has.
Counts(e) ==
  /\ PathOf[e] \in inspection.requested
  /\ e \notin EditsOf(origin)
  /\ inspection.selected \in Tickets /\ refs[inspection.selected] # 0 =>
       e \notin EditsOf(refs[inspection.selected])

\* It is committed on the branch of another ticket, or was read from its checkout, or will be.
Noticed(t, e) ==
  /\ t # inspection.selected /\ refs[t] # 0
  /\ \/ e \in EditsOf(refs[t])
     \/ /\ t \in Registered
        /\ t \in Visited => e \in inspection.dirty[t][1]
        /\ t \notin Visited => e \in dirty[t]

WitnessKept ==
  /\ inspection.pc = "checkouts" /\ inspection.registered # {} /\ Current /\ inspection.contested =>
       \E t \in Tickets : \E e : Counts(e) /\ Noticed(t, e)
  /\ inspection.pc = "again" /\ Current /\ inspection.route \in Admissions =>
       ~inspection.contested
  /\ inspection.pc \in {"report", "reread", "accepted"} /\ inspection.route \in Admissions =>
       ~inspection.contested

InspectHolds ==
  /\ Whole(inspection)
  /\ inspection.pc = "off" \/ pruner.pc = "off"
  /\ Behind /\ RegistrationHolds /\ WitnessKept

\* What people do either leaves the refs as they were read, or leaves the readings behind.
LEMMA CurrentStays ==
  ASSUME HygieneHolds, HygieneHolds', CloneMoves, Behind, UNCHANGED inspection,
         inspection.pc \in Observing, Current'
  PROVE  Current /\ refs' = refs /\ origin' = origin
<1>1. PICK r, o : /\ inspection.refs = <<r, o>> /\ r \in [Tickets -> Nat] /\ o \in Nat
                  /\ o <= origin /\ \A t \in Tickets : r[t] <= refs[t]
  BY DEF Behind
<1>2. r = refs' /\ o = origin'
  BY <1>1 DEF Current
<1>3. /\ origin \in Nat /\ origin <= origin'
      /\ \A t \in Tickets : refs[t] \in Nat /\ refs[t] <= refs'[t]
      /\ refs \in [Tickets -> Ids \cup {0}]
  <2>1. 0 \in Nat
    OBVIOUS
  <2> QED BY <2>1, IdsAreNumbers DEF HygieneHolds, CloneHolds, TypeOK, CloneMoves, TicketMoves
<1>4. origin = origin'
  BY <1>1, <1>2, <1>3
<1>5. \A t \in Tickets : r[t] = refs[t]
  BY <1>1, <1>2, <1>3
<1>6. r = refs
  BY <1>1, <1>3, <1>5
<1> QED BY <1>1, <1>2, <1>4, <1>6 DEF Current

\* The commits an edit is looked up in never change.
LEMMA NoticedStays ==
  ASSUME HygieneHolds, CloneMoves, UNCHANGED inspection, refs' = refs, origin' = origin,
         NEW t \in Tickets, NEW e, Counts(e), Noticed(t, e)
  PROVE  Counts(e)' /\ Noticed(t, e)'
<1>1. /\ origin \in Ids /\ refs \in [Tickets -> Ids \cup {0}]
      /\ \A c \in Ids : commits'[c] = commits[c]
  BY DEF HygieneHolds, CloneHolds, TypeOK, CloneMoves, Longer
<1>2. commits'[origin] = commits[origin]
  BY <1>1
<1>3. \A u \in Tickets : refs[u] # 0 => commits'[refs[u]] = commits[refs[u]]
  BY <1>1
<1>4. dirty[t] \subseteq dirty'[t]
  BY DEF CloneMoves, TicketMoves
<1>5. Counts(e)'
  BY <1>2, <1>3 DEF Counts, EditsOf
<1>6. Noticed(t, e)'
  BY <1>3, <1>4 DEF Noticed, EditsOf, Registered, Visited
<1> QED BY <1>5, <1>6

LEMMA PeopleKeepInspection ==
  ASSUME HygieneHolds, HygieneHolds', CloneMoves, InspectHolds, UNCHANGED <<inspection, pruner>>
  PROVE  InspectHolds'
<1>1. Behind'
  <2> SUFFICES ASSUME inspection.pc \in Observing
               PROVE  \E r, o : /\ inspection.refs = <<r, o>> /\ r \in [Tickets -> Nat] /\ o \in Nat
                                /\ o <= origin' /\ \A t \in Tickets : r[t] <= refs'[t]
    BY DEF Behind
  <2>1. PICK r, o : /\ inspection.refs = <<r, o>> /\ r \in [Tickets -> Nat] /\ o \in Nat
                    /\ o <= origin /\ \A t \in Tickets : r[t] <= refs[t]
    BY DEF InspectHolds, Behind
  <2>2. /\ origin \in Nat /\ origin' \in Nat /\ origin <= origin'
        /\ \A t \in Tickets : refs[t] \in Nat /\ refs'[t] \in Nat /\ refs[t] <= refs'[t]
    <3>1. 0 \in Nat
      OBVIOUS
    <3>2. Ids \subseteq Nat /\ Ids' \subseteq Nat
      BY DEF HygieneHolds, CloneHolds, Sound, Ids
    <3>3. origin \in Ids /\ origin' \in Ids' /\ origin <= origin'
      BY DEF HygieneHolds, CloneHolds, TypeOK, CloneMoves
    <3>4. \A t \in Tickets :
            refs[t] \in Ids \cup {0} /\ refs'[t] \in Ids' \cup {0} /\ refs[t] <= refs'[t]
      BY DEF HygieneHolds, CloneHolds, TypeOK, CloneMoves, TicketMoves
    <3> QED BY <3>1, <3>2, <3>3, <3>4
  <2>3. o <= origin' /\ \A t \in Tickets : r[t] <= refs'[t]
    BY <2>1, <2>2
  <2> QED BY <2>1, <2>3
<1>2. ASSUME inspection.pc \in Observing, Current' PROVE Current /\ refs' = refs /\ origin' = origin
  BY <1>2, CurrentStays DEF InspectHolds
<1>3. RegistrationHolds'
  BY <1>2 DEF InspectHolds, RegistrationHolds, Visited, Registered
<1>4. WitnessKept'
  <2>1. ASSUME inspection.pc = "checkouts", inspection.registered # {}, Current', inspection.contested
        PROVE  \E t \in Tickets : \E e : Counts(e)' /\ Noticed(t, e)'
    <3>1. Current /\ refs' = refs /\ origin' = origin
      BY <1>2, <2>1 DEF Observing
    <3>2. PICK t, e : t \in Tickets /\ Counts(e) /\ Noticed(t, e)
      BY <2>1, <3>1 DEF InspectHolds, WitnessKept
    <3>3. Counts(e)' /\ Noticed(t, e)'
      BY <3>1, <3>2, NoticedStays
    <3> QED BY <3>2, <3>3
  <2>2. inspection.pc = "again" /\ Current' => Current
    BY <1>2 DEF Observing
  <2> QED BY <2>1, <2>2 DEF InspectHolds, WitnessKept
<1> QED BY <1>1, <1>3, <1>4 DEF InspectHolds, Whole

\* An edit that the target, or whatever else was compared, lacks is a change of the branch.
LEMMA EditIsChange ==
  ASSUME CloneHolds, NEW a \in Ids, NEW head \in Ids, NEW e \in EditsOf(head), e \notin EditsOf(a)
  PROVE  PathOf[e] \in DiffPaths(MergeBase(a, head), head) /\ head \notin Anc(a)
<1>1. EditsOf(MergeBase(a, head)) \subseteq EditsOf(a)
  BY MergeBaseIsCommon DEF CloneHolds
<1>2. head \notin Anc(a)
  BY AncestorsAreBelow DEF CloneHolds
<1> QED BY <1>1, <1>2 DEF DiffPaths

\* A branch with an edit that the target lacks was never a tree of the target.
LEMMA EditIsNoSnapshot ==
  ASSUME CloneHolds, NEW head \in Ids, Target \in Ids, NEW e \in EditsOf(head),
         e \notin EditsOf(Target)
  PROVE  ~Snapshotted(head)
<1> SUFFICES ASSUME Snapshotted(head) PROVE FALSE
  OBVIOUS
<1> DEFINE base == MergeBase(Target, head)
<1>1. head \in Anc(head) /\ head \notin Anc(Target)
  BY AncestorsAreBelow DEF CloneHolds
<1>2. <<commits[head].edits, commits[head].carriers>> \in Trees(Anc(head) \ Anc(Target))
  BY <1>1 DEF Trees
<1>3. <<commits[head].edits, commits[head].carriers>>
        \in Trees({c \in Anc(Target) \ Anc(base) : base \in Anc(c)})
  BY <1>2 DEF Snapshotted
<1>4. PICK c \in Anc(Target) : commits[c].edits = commits[head].edits
  BY <1>3 DEF Trees
<1>5. EditsOf(c) \subseteq EditsOf(Target)
  BY AncestorsAreBelow DEF CloneHolds
<1> QED BY <1>4, <1>5 DEF EditsOf

\* Work that was noticed on a requested path bars every admission.
LEMMA NoticedBars ==
  ASSUME CloneHolds, InspectHolds, inspection.pc = "checkouts", Current,
         inspection.registered # {}, Registered \ Visited = {}, Selectable,
         NEW t \in Tickets, NEW e, Counts(e), Noticed(t, e)
  PROVE  Route \notin Admissions
<1>0. /\ Seen = refs /\ Target = origin /\ origin \in Ids
      /\ refs \in [Tickets -> Ids \cup {0}]
  BY DEF Current, Seen, Target, CloneHolds, TypeOK
<1>1. \A u \in Registered : u \in Tickets /\ RegisteredHead(u) = refs[u] /\ refs[u] \in Ids
  <2> SUFFICES ASSUME NEW u \in Registered
               PROVE  u \in Tickets /\ RegisteredHead(u) = refs[u] /\ refs[u] \in Ids
    OBVIOUS
  <2>1. u \in Tickets /\ \E w \in inspection.registered : w[1] = u
    BY DEF Registered
  <2>2. \A w \in inspection.registered : w[1] = u => w[2] = refs[u] /\ w[2] # 0
    BY <2>1 DEF InspectHolds, RegistrationHolds, Observing
  <2>3. RegisteredHead(u) = refs[u] /\ refs[u] # 0
    BY <2>1, <2>2 DEF RegisteredHead
  <2> QED BY <1>0, <2>1, <2>3
<1>2. Compared \in Ids /\ e \notin EditsOf(Compared)
  <2>1. CASE inspection.selected = 0
    BY <1>0, <2>1 DEF Compared, Counts
  <2>2. CASE inspection.selected # 0
    <3>1. inspection.selected \in Registered
      BY <2>2 DEF Selectable
    <3>2. refs[inspection.selected] # 0
      BY <1>1, <3>1, IdsAreNumbers DEF CloneHolds
    <3> QED BY <1>1, <2>2, <3>1, <3>2 DEF Compared, Counts
  <2> QED BY <2>1, <2>2
<1>3. /\ t # inspection.selected /\ refs[t] \in Ids
      /\ PathOf[e] \in inspection.requested /\ e \notin EditsOf(origin)
  BY <1>0 DEF Noticed, Counts
<1>4. CASE e \in EditsOf(refs[t])
  <2>1. PathOf[e] \in Changes(refs[t]) /\ ~IsAncestor(refs[t], Target)
    BY <1>0, <1>2, <1>3, <1>4, EditIsChange DEF Changes, IsAncestor
  <2>2. CASE t \in Registered
    <3>1. Blocking(t)
      BY <1>1, <1>3, <2>1, <2>2 DEF Blocking, IsPending
    <3> QED BY <2>2, <3>1 DEF Route, Admissions
  <2>3. CASE t \notin Registered
    <3>1. ~Snapshotted(refs[t])
      BY <1>0, <1>3, <1>4, EditIsNoSnapshot
    <3>2. Unassigned(t)
      BY <1>0, <1>3, <2>1, <2>3, <3>1 DEF Unassigned, Noticed
    <3> QED BY <3>2 DEF Route, Admissions
  <2> QED BY <2>2, <2>3
<1>5. CASE t \in Registered /\ e \in inspection.dirty[t][1]
  <2>1. PathOf[e] \in SeenDirty(t)
    BY <1>5 DEF SeenDirty, Places
  <2>2. inspection.dirty[t] # Calm
    <3>1. Calm[1] = {}
      BY DEF Calm
    <3> QED BY <1>5, <3>1
  <2>3. Blocking(t)
    BY <1>3, <2>1, <2>2 DEF Blocking, IsPending
  <2> QED BY <1>5, <2>3 DEF Route, Admissions
<1> QED BY <1>4, <1>5 DEF Noticed

\* What TrulyContested says, edit by edit.
LEMMA ContestedIsEdit ==
  ASSUME CloneHolds, TrulyContested
  PROVE  \E t \in Tickets : \E e :
           /\ Counts(e) /\ t # inspection.selected /\ refs[t] # 0
           /\ e \in EditsOf(refs[t]) \/ (e \in dirty[t] /\ t \in Open)
<1> DEFINE held == UNION {EditsOf(c) : c \in {refs[o] : o \in Tickets \cap {inspection.selected}} \ {0}}
<1>1. PICK t \in Tickets \ {inspection.selected} :
        refs[t] # 0 /\ inspection.requested \cap Places(Unlanded(t) \ held) # {}
  BY DEF TrulyContested
<1>2. PICK e \in Unlanded(t) \ held : PathOf[e] \in inspection.requested
  BY <1>1 DEF Places
<1>3. inspection.selected \in Tickets /\ refs[inspection.selected] # 0 =>
        e \notin EditsOf(refs[inspection.selected])
  BY <1>2
<1>4. e \in dirty[t] => t \in Open
  BY DEF CloneHolds, TicketHolds, Open
<1> QED BY <1>1, <1>2, <1>3, <1>4 DEF Counts, Unlanded

\* The inspection begins to read the clone.
LEMMA BeginsToRead ==
  ASSUME HygieneHolds, InspectHolds, UNCHANGED <<repository, pruner>>, Ask \/ ReadRefs \/ Register
  PROVE  InspectHolds'
<1> DEFINE x == inspection
<1>0. /\ CloneHolds /\ Whole(x) /\ UNCHANGED <<commits, refs, origin, dirty, present, mergeHead>>
      /\ (x.pc = "off" \/ pruner.pc = "off") /\ Behind /\ RegistrationHolds /\ WitnessKept
  BY DEF HygieneHolds, InspectHolds, repository
<1>1. CASE Ask
  <2>1. PICK r \in Requests : x' = [x EXCEPT !.pc = "refs", !.selected = r.selected,
           !.stream = r.stream, !.requested = r.requested, !.expected = r.expected]
    BY <1>1 DEF Ask
  <2>2. /\ x.pc = "start" /\ Whole(x') /\ x'.pc = "refs" /\ x'.registered = x.registered
        /\ x'.dirty = x.dirty
    BY <1>0, <1>1, <2>1 DEF Ask, Whole
  <2> QED BY <1>0, <2>2
          DEF InspectHolds, Behind, RegistrationHolds, WitnessKept, Observing, Visited, Registered
<1>2. CASE ReadRefs
  <2>1. /\ x.pc = "refs" /\ x' = [x EXCEPT !.pc = "checkouts", !.refs = <<refs, origin>>]
    BY <1>2 DEF ReadRefs
  <2>2. /\ Whole(x') /\ x'.pc = "checkouts" /\ x'.registered = x.registered /\ x'.dirty = x.dirty
        /\ x'.refs = <<refs, origin>>
    BY <1>0, <2>1 DEF Whole
  <2>3. refs \in [Tickets -> Nat] /\ origin \in Nat
    <3>1. 0 \in Nat
      OBVIOUS
    <3> QED BY <1>0, <3>1, IdsAreNumbers DEF CloneHolds, TypeOK
  <2>4. origin <= origin /\ \A t \in Tickets : refs[t] <= refs[t]
    BY <2>3
  <2>5. Behind'
    BY <1>0, <2>2, <2>3, <2>4 DEF Behind
  <2>6. x.registered = {} /\ Visited \subseteq Registered
    BY <1>0, <2>1 DEF RegistrationHolds
  <2>7. RegistrationHolds' /\ WitnessKept'
    BY <2>2, <2>6 DEF RegistrationHolds, WitnessKept, Visited, Registered
  <2> QED BY <1>0, <2>1, <2>2, <2>5, <2>7 DEF InspectHolds
<1>3. CASE Register
  <2>1. /\ x.pc = "checkouts" /\ x.registered = {}
        /\ x' = [x EXCEPT !.registered = Snapshot, !.contested = TrulyContested]
    BY <1>3 DEF Register
  <2>2. /\ Whole(x') /\ x'.pc = "checkouts" /\ x'.registered = Snapshot
        /\ x'.contested = TrulyContested
        /\ x'.dirty = x.dirty /\ x'.refs = x.refs /\ x'.selected = x.selected
        /\ x'.requested = x.requested
    BY <1>0, <2>1 DEF Whole
  <2>3. Visited = {} /\ Visited' = {}
    BY <1>0, <2>1, <2>2 DEF RegistrationHolds, Registered, Visited
  <2>4. \A t \in Open : t \in Registered'
    <3> SUFFICES ASSUME NEW t \in Open PROVE t \in Registered'
      OBVIOUS
    <3>1. <<t, refs[t]>> \in x'.registered /\ <<t, refs[t]>>[1] = t
      BY <2>2 DEF Snapshot
    <3>2. t \in Tickets
      BY DEF Open
    <3> QED BY <3>1, <3>2 DEF Registered
  <2>5. \A w \in Snapshot : w[1] \in Tickets => w[2] = refs[w[1]] /\ w[2] # 0
    <3> SUFFICES ASSUME NEW w \in Snapshot, w[1] \in Tickets
                 PROVE  w[2] = refs[w[1]] /\ w[2] # 0
      OBVIOUS
    <3>1. w # <<Primary, 1>>
      BY ActivityAssumption
    <3>2. PICK t \in Open : w = <<t, refs[t]>>
      BY <3>1 DEF Snapshot
    <3>3. refs[t] # 0
      BY <1>0 DEF CloneHolds, TicketHolds, Open
    <3> QED BY <3>2, <3>3
  <2>6. Behind' /\ RegistrationHolds'
    BY <1>0, <2>1, <2>2, <2>3, <2>5 DEF Behind, RegistrationHolds, Observing
  <2>7. ASSUME x'.contested PROVE \E t \in Tickets : \E e : Counts(e)' /\ Noticed(t, e)'
    <3>1. PICK t, e :
            /\ t \in Tickets /\ Counts(e) /\ t # x.selected /\ refs[t] # 0
            /\ e \in EditsOf(refs[t]) \/ (e \in dirty[t] /\ t \in Open)
      BY <1>0, <2>2, <2>7, ContestedIsEdit
    <3>2. Counts(e)'
      BY <1>0, <2>2, <3>1 DEF Counts, EditsOf
    <3>3. Noticed(t, e)'
      BY <1>0, <2>2, <2>3, <2>4, <3>1 DEF Noticed, EditsOf
    <3> QED BY <3>1, <3>2, <3>3
  <2>8. WitnessKept'
    BY <2>2, <2>7 DEF WitnessKept
  <2> QED BY <1>0, <2>1, <2>2, <2>6, <2>8 DEF InspectHolds
<1> QED BY <1>1, <1>2, <1>3

\* A failed inspection admits nothing.
LEMMA FailKeeps ==
  ASSUME Whole(inspection), inspection' = Fail, pruner.pc = "off", UNCHANGED pruner
  PROVE  InspectHolds'
<1>1. Whole(inspection') /\ inspection'.pc = "failed"
  BY DEF Whole, Fail
<1> QED BY <1>1 DEF InspectHolds, Behind, RegistrationHolds, WitnessKept, Observing

\* A checkout is visited: whatever was to be read from it has been read.
LEMMA VisitKeeps ==
  ASSUME HygieneHolds, InspectHolds, UNCHANGED <<repository, pruner>>, Visit
  PROVE  InspectHolds'
<1> DEFINE x == inspection
           u == NextCheckout
<1>0. /\ CloneHolds /\ Whole(x) /\ UNCHANGED <<commits, refs, origin, dirty, present, mergeHead>>
      /\ (x.pc = "off" \/ pruner.pc = "off") /\ Behind /\ RegistrationHolds /\ WitnessKept
      /\ x.pc = "checkouts" /\ x.registered # {}
  BY DEF HygieneHolds, InspectHolds, repository, Visit
<1>1. u \in Registered \ Visited
  <2>1. Registered \ Visited \in SUBSET Nat /\ Registered \ Visited # {}
    BY RepositoryAssumption DEF Registered, Visit
  <2> QED BY <2>1, SmallestIs DEF NextCheckout
<1>2. CASE u \in Open /\ refs[u] = RegisteredHead(u)
  <2> DEFINE seen == [o \in Visited \cup {u} |-> IF o = u THEN Observation(u) ELSE x.dirty[o]]
             over == IF Released(u, u) THEN x.released \cup {u} ELSE x.released
             held == x.contested /\ TrulyContested
  <2>1. x' = [x EXCEPT !.dirty = seen, !.released = over, !.contested = held]
    BY <1>2 DEF Visit
  <2> HIDE DEF seen, over, held
  <2>2. /\ Whole(x') /\ x'.pc = "checkouts" /\ x'.registered = x.registered
        /\ x'.contested = held
        /\ x'.dirty = seen /\ x'.refs = x.refs /\ x'.selected = x.selected
        /\ x'.requested = x.requested
    BY <1>0, <2>1 DEF Whole
  <2>3. Visited' = Visited \cup {u} /\ Registered' = Registered
    BY <2>2 DEF Visited, Registered, seen
  <2>4. Behind' /\ RegistrationHolds'
    BY <1>0, <1>1, <2>2, <2>3 DEF Behind, RegistrationHolds, Observing, Current
  <2>5. ASSUME NEW t \in Tickets, NEW e, Counts(e), Noticed(t, e)
        PROVE  Counts(e)' /\ Noticed(t, e)'
    <3>1. Counts(e)'
      BY <1>0, <2>2, <2>5 DEF Counts, EditsOf
    <3>2. CASE e \in EditsOf(refs[t])
      BY <1>0, <2>2, <2>5, <3>1, <3>2 DEF Noticed, EditsOf
    <3>3. CASE t \in Registered /\ t \in Visited /\ e \in x.dirty[t][1]
      <4>1. seen[t] = x.dirty[t]
        BY <1>1, <3>3 DEF seen
      <4> QED BY <1>0, <2>2, <2>3, <2>5, <3>1, <3>3, <4>1 DEF Noticed
    <3>4. CASE t \in Registered /\ t \notin Visited /\ e \in dirty[t]
      <4>1. CASE t = u
        <5>1. seen[t] = Observation(t)
          BY <4>1 DEF seen
        <5>2. Observation(t)[1] = dirty[t]
          BY DEF Observation
        <5> QED BY <1>0, <2>2, <2>3, <2>5, <3>1, <3>4, <4>1, <5>1, <5>2 DEF Noticed
      <4>2. CASE t # u
        BY <1>0, <2>2, <2>3, <2>5, <3>1, <3>4, <4>2 DEF Noticed
      <4> QED BY <4>1, <4>2
    <3> QED BY <2>5, <3>1, <3>2, <3>3, <3>4 DEF Noticed
  <2>6. x'.contested => x.contested
    BY <2>2 DEF held
  <2>7. Current' => Current
    BY <1>0, <2>2 DEF Current
  <2>8. WitnessKept'
    BY <1>0, <2>2, <2>5, <2>6, <2>7 DEF WitnessKept
  <2> QED BY <1>0, <2>2, <2>4, <2>8 DEF InspectHolds
<1>3. CASE ~(u \in Open /\ refs[u] = RegisteredHead(u))
  <2>1. x' = Fail
    BY <1>3 DEF Visit
  <2> QED BY <1>0, <2>1, FailKeeps DEF InspectHolds
<1> QED BY <1>2, <1>3

\* The decision: what was noticed bars the admission of contested work.
LEMMA ReportKeeps ==
  ASSUME HygieneHolds, InspectHolds, UNCHANGED <<repository, pruner>>, Report
  PROVE  InspectHolds'
<1> DEFINE x == inspection
<1>0. /\ CloneHolds /\ Whole(x) /\ UNCHANGED <<commits, refs, origin, dirty, present, mergeHead>>
      /\ (x.pc = "off" \/ pruner.pc = "off") /\ Behind /\ RegistrationHolds /\ WitnessKept
      /\ x.pc = "checkouts" /\ x.registered # {} /\ Registered \ Visited = {}
  BY DEF HygieneHolds, InspectHolds, repository, Report
<1>1. CASE Selectable
  <2> DEFINE held == x.contested /\ TrulyContested
             decided == Route
  <2>1. x' = [x EXCEPT !.pc = "again", !.route = decided, !.contested = held]
    BY <1>1 DEF Report
  <2> HIDE DEF held, decided
  <2>2. /\ Whole(x') /\ x'.pc = "again" /\ x'.registered = x.registered
        /\ x'.contested = held /\ x'.route = decided /\ x'.refs = x.refs
    BY <1>0, <2>1 DEF Whole
  <2>3. Behind' /\ RegistrationHolds'
    BY <1>0, <2>2 DEF Behind, RegistrationHolds, Observing, Current
  <2>4. ASSUME Current', x'.route \in Admissions PROVE ~x'.contested
    <3> SUFFICES ASSUME x'.contested PROVE FALSE
      OBVIOUS
    <3>1. Current /\ x.contested
      BY <1>0, <2>2, <2>4 DEF Current, held
    <3>2. PICK t, e : t \in Tickets /\ Counts(e) /\ Noticed(t, e)
      BY <1>0, <3>1 DEF WitnessKept
    <3>3. Route \notin Admissions
      BY <1>0, <1>1, <3>1, <3>2, NoticedBars
    <3> QED BY <2>2, <2>4, <3>3 DEF decided
  <2> QED BY <1>0, <2>2, <2>3, <2>4 DEF InspectHolds, WitnessKept
<1>2. CASE ~Selectable
  <2>1. x' = Fail
    BY <1>2 DEF Report
  <2> QED BY <1>0, <2>1, FailKeeps
<1> QED BY <1>1, <1>2

\* The second reading either finds what the first found, or fails.
LEMMA SecondReadingKeeps ==
  ASSUME HygieneHolds, InspectHolds, UNCHANGED <<repository, pruner>>,
         ReadRefsAgain \/ RegisterAgain \/ VisitAgain \/ Accept
  PROVE  InspectHolds'
<1> DEFINE x == inspection
<1>0. /\ Whole(x) /\ UNCHANGED <<refs, origin>>
      /\ (x.pc = "off" \/ pruner.pc = "off") /\ WitnessKept
  BY DEF InspectHolds, repository
<1>1. CASE x' = Fail
  <2>1. x.pc # "off"
    BY DEF ReadRefsAgain, RegisterAgain, VisitAgain, Accept
  <2> QED BY <1>0, <1>1, <2>1, FailKeeps
<1>2. CASE x' # Fail
  <2>1. ASSUME Whole(x'), x'.pc \in {"report", "reread", "accepted"}, x.pc # "off",
               x'.route = x.route, x'.contested = x.contested,
               x.route \in Admissions => ~x.contested
        PROVE  InspectHolds'
    BY <1>0, <2>1 DEF InspectHolds, Behind, RegistrationHolds, WitnessKept, Observing
  <2>2. CASE ReadRefsAgain
    <3>1. x.pc = "again" /\ Current /\ x' = [x EXCEPT !.pc = "report"]
      BY <1>2, <2>2 DEF ReadRefsAgain, Current
    <3>2. /\ Whole(x') /\ x'.pc = "report" /\ x'.route = x.route /\ x'.contested = x.contested
      BY <1>0, <3>1 DEF Whole
    <3> QED BY <1>0, <2>1, <3>1, <3>2 DEF WitnessKept
  <2>3. CASE RegisterAgain
    <3>1. x.pc = "report" /\ x' = [x EXCEPT !.pc = "reread"]
      BY <1>2, <2>3 DEF RegisterAgain
    <3>2. /\ Whole(x') /\ x'.pc = "reread" /\ x'.route = x.route /\ x'.contested = x.contested
      BY <1>0, <3>1 DEF Whole
    <3> QED BY <1>0, <2>1, <3>1, <3>2 DEF WitnessKept
  <2>4. CASE VisitAgain
    <3>1. x.pc = "reread" /\ \E t : x' = [x EXCEPT !.reread = x.reread \cup {t}]
      BY <1>2, <2>4 DEF VisitAgain
    <3>2. /\ Whole(x') /\ x'.pc = "reread" /\ x'.route = x.route /\ x'.contested = x.contested
      BY <1>0, <3>1 DEF Whole
    <3> QED BY <1>0, <2>1, <3>1, <3>2 DEF WitnessKept
  <2>5. CASE Accept
    <3>1. x.pc = "reread" /\ x' = [x EXCEPT !.pc = "accepted"]
      BY <2>5 DEF Accept
    <3>2. /\ Whole(x') /\ x'.pc = "accepted" /\ x'.route = x.route /\ x'.contested = x.contested
      BY <1>0, <3>1 DEF Whole
    <3> QED BY <1>0, <2>1, <3>1, <3>2 DEF WitnessKept
  <2> QED BY <2>2, <2>3, <2>4, <2>5
<1> QED BY <1>1, <1>2

\* An inspection that admits work was right at one moment of its making: work of somebody
\* else that was there at every moment of the readings is in what was read, and bars every
\* route that admits; and readings that somebody has overtaken are thrown away (Route, the
\* second reading of work_start_check.py).
THEOREM AdmissionsAreUncontested == HygieneSpec => []AdmittedIsUncontested
<1>1. HygieneInit => InspectHolds
  BY DEF HygieneInit, InspectInit, PruneInit, InspectHolds, Whole, Behind, RegistrationHolds,
         WitnessKept, Observing, Visited, Registered
<1>2. ASSUME HygieneHolds, HygieneHolds', InspectHolds, [HygieneNext]_vars PROVE InspectHolds'
  <2>1. CASE Work
    <3>1. CloneMoves /\ UNCHANGED <<inspection, pruner>>
      BY <1>2, <2>1, DevelopersKeep DEF Work, tools, HygieneHolds
    <3> QED BY <1>2, <3>1, PeopleKeepInspection
  <2>2. CASE Prune /\ UNCHANGED inspection
    <3>1. pruner.pc # "off" /\ inspection.pc = "off"
      BY <1>2, <2>2
         DEF Prune, List, Take, Judge, Remove, Delete, ForceDelete, Finish, InspectHolds
    <3> QED BY <1>2, <2>2, <3>1
            DEF InspectHolds, Behind, RegistrationHolds, WitnessKept, Observing, Whole
  <2>3. CASE Inspect /\ UNCHANGED pruner
    <3>1. UNCHANGED <<repository, pruner>>
      BY <2>3 DEF Inspect
    <3> QED BY <1>2, <2>3, <3>1, BeginsToRead, VisitKeeps, ReportKeeps, SecondReadingKeeps
            DEF Inspect
  <2>4. CASE UNCHANGED <<repository, inspection, pruner>>
    BY <1>2, <2>4 DEF repository, InspectHolds, Whole, Behind, RegistrationHolds, WitnessKept,
                      Observing, Current, Visited, Registered, Counts, Noticed, EditsOf
  <2>5. UNCHANGED vars => UNCHANGED <<repository, inspection, pruner>>
    BY DEF vars, tools
  <2>6. Record \/ Watch => UNCHANGED repository
    BY DEF Record, Watch
  <2> QED BY <1>2, <2>1, <2>2, <2>3, <2>4, <2>5, <2>6 DEF HygieneNext, Tool
<1>3. InspectHolds => AdmittedIsUncontested
  BY DEF InspectHolds, WitnessKept, AdmittedIsUncontested, Admissions
<1> QED BY <1>1, <1>2, <1>3, ClonesStaySound, PTL DEF HygieneSpec
==============================================================================
