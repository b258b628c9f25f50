-------------------------- MODULE SliceScopesProofs --------------------------
(***************************************************************************)
(* Proofs about SliceScopes, for any globs and paths: two allowlists that  *)
(* the scheduler does not take to overlap share no path, and no path of    *)
(* one leads into a path of the other.                                     *)
(*                                                                         *)
(* What a glob matches begins with its literal prefix; two prefixes of one *)
(* path are comparable; and comparable prefixes are taken to overlap.      *)
(***************************************************************************)
EXTENDS SliceScopes, SequenceTheorems, WellFoundedInduction, TLAPS

\* A set of numbers that is not empty has a first one.
LEMMA FirstOf ==
  ASSUME NEW T \in SUBSET Nat, T # {}
  PROVE  \E n \in T : \A m \in T : n <= m
<1> DEFINE R == {p \in Nat \X Nat : p[1] < p[2]}
<1>1. R = OpToRel(<, Nat)
  BY DEF OpToRel
<1>2. IsWellFoundedOn(R, Nat)
  BY <1>1, NatLessThanWellFounded
<1> HIDE DEF R
<1>3. PICK n \in T : \A m \in T : <<m, n>> \notin R
  BY <1>2, WFMin, Zenon
<1>4. \A m \in T : ~(m < n)
  BY <1>3 DEF R
<1>5. QED
  BY <1>3, <1>4

\* One sequence is a prefix of another if they agree as far as it goes.
LEMMA PrefixIs ==
  ASSUME NEW S, NEW s \in Seq(S), NEW t \in Seq(S)
  PROVE  IsPrefix(s, t) <=> Len(s) <= Len(t) /\ \A i \in 1..Len(s) : s[i] = t[i]
<1>1. ASSUME Len(s) <= Len(t)
      PROVE  /\ SubSeq(s, 1, Len(s)) \in Seq(S) /\ Len(SubSeq(s, 1, Len(s))) = Len(s)
             /\ SubSeq(t, 1, Len(s)) \in Seq(S) /\ Len(SubSeq(t, 1, Len(s))) = Len(s)
             /\ \A i \in 1..Len(s) : SubSeq(s, 1, Len(s))[i] = s[i] /\ SubSeq(t, 1, Len(s))[i] = t[i]
  BY <1>1
<1>2. ASSUME Len(s) <= Len(t), \A i \in 1..Len(s) : s[i] = t[i]
      PROVE  SubSeq(s, 1, Len(s)) = SubSeq(t, 1, Len(s))
  BY <1>1, <1>2, SeqEqual
<1>3. QED
  BY <1>1, <1>2 DEF IsPrefix

\* A glob has a longest part before its first wildcard.
LEMMA LiteralLengthIs ==
  ASSUME NEW S, NEW glob \in Seq(S)
  PROVE  /\ LiteralLength(glob) \in 0..Len(glob)
         /\ \A i \in 1..LiteralLength(glob) : glob[i] \notin Wildcards
<1> DEFINE Ends == {n \in 0..Len(glob) : n < Len(glob) => glob[n + 1] \in Wildcards}
<1>1. Len(glob) \in Ends /\ Ends \subseteq Nat
  OBVIOUS
<1>2. PICK n \in Ends : \A m \in Ends : n <= m
  BY <1>1, FirstOf
<1>3. ASSUME NEW i \in 1..n PROVE glob[i] \notin Wildcards
  <2>1. i - 1 \in 0..Len(glob) /\ i - 1 < Len(glob) /\ ~(n <= i - 1)
    BY <1>2
  <2>2. i - 1 \notin Ends
    BY <1>2, <2>1
  <2>3. QED
    BY <2>1, <2>2
<1>4. \E m \in 0..Len(glob) :
        /\ \A i \in 1..m : glob[i] \notin Wildcards
        /\ m < Len(glob) => glob[m + 1] \in Wildcards
  BY <1>2, <1>3
<1>5. QED
  BY <1>4 DEF LiteralLength

LEMMA LiteralPrefixIs ==
  ASSUME NEW S, NEW glob \in Seq(S)
  PROVE  /\ LiteralPrefix(glob) \in Seq(S) /\ Len(LiteralPrefix(glob)) = LiteralLength(glob)
         /\ \A i \in 1..LiteralLength(glob) : LiteralPrefix(glob)[i] = glob[i]
BY LiteralLengthIs DEF LiteralPrefix

\* Up to the first wildcard each part of a glob stands for the character it is.
LEMMA MatchBeginsLiterally ==
  ASSUME NEW S, NEW glob \in Seq(S), NEW path \in Seq(S), GlobMatches(glob, path)
  PROVE  IsPrefix(LiteralPrefix(glob), path)
<1>1. PICK cut \in [0..Len(glob) -> 0..Len(path)] :
        /\ cut[0] = 0
        /\ \A i \in 1..Len(glob) :
             cut[i - 1] <= cut[i] /\ StandsFor(glob[i], SubSeq(path, cut[i - 1] + 1, cut[i]))
  BY DEF GlobMatches
<1> DEFINE L == LiteralLength(glob)
<1>2. L \in 0..Len(glob) /\ \A i \in 1..L : glob[i] \notin Wildcards
  BY LiteralLengthIs
<1>3. ASSUME NEW i \in 1..L, cut[i - 1] = i - 1
      PROVE  cut[i] = i /\ path[i] = glob[i]
  <2>1. i \in 1..Len(glob) /\ cut[i] \in 0..Len(path) /\ i - 1 <= cut[i]
    BY <1>1, <1>2, <1>3
  <2>2. StandsFor(glob[i], SubSeq(path, i, cut[i]))
    BY <1>1, <1>3, <2>1
  <2>3. SubSeq(path, i, cut[i]) = <<glob[i]>>
    BY <1>2, <2>2 DEF StandsFor, Wildcards
  <2>4. /\ Len(SubSeq(path, i, cut[i])) = IF i <= cut[i] THEN cut[i] - i + 1 ELSE 0
        /\ i <= cut[i] => SubSeq(path, i, cut[i])[1] = path[i]
    BY <2>1
  <2>5. QED
    BY <2>1, <2>3, <2>4
<1>4. \A i \in 0..L : cut[i] = i
  <2> DEFINE Off == {i \in 0..L : cut[i] # i}
  <2>1. SUFFICES ASSUME Off # {} PROVE FALSE
    OBVIOUS
  <2>2. Off \in SUBSET Nat
    BY <1>2
  <2>3. \E n \in Off : \A m \in Off : n <= m
    <3> HIDE DEF Off
    <3> QED BY <2>1, <2>2, FirstOf
  <2>4. PICK n \in Off : \A m \in Off : n <= m
    BY <2>3
  <2>5. n \in 1..L /\ n - 1 \in 0..L /\ ~(n <= n - 1)
    BY <1>1, <1>2, <2>4
  <2>6. cut[n - 1] = n - 1
    BY <2>4, <2>5
  <2>7. QED
    BY <1>3, <2>4, <2>5, <2>6
<1>5. \A i \in 1..L : path[i] = glob[i]
  BY <1>2, <1>3, <1>4
<1>6. L <= Len(path)
  BY <1>1, <1>2, <1>4
<1>7. QED
  BY <1>2, <1>5, <1>6, LiteralPrefixIs, PrefixIs

\* Of two sequences that one begins with, one begins with the other.
LEMMA PrefixesMeet ==
  ASSUME NEW S, NEW a \in Seq(S), NEW b \in Seq(S), NEW p \in Seq(S), NEW q \in Seq(S),
         IsPrefix(a, p), IsPrefix(b, q), IsPrefix(p, q)
  PROVE  IsPrefix(a, b) \/ IsPrefix(b, a)
<1>1. Len(a) <= Len(p) /\ Len(p) <= Len(q) /\ Len(b) <= Len(q)
  BY PrefixIs
<1>2. \A i \in 1..Len(a) : a[i] = q[i]
  BY <1>1, PrefixIs
<1>3. \A i \in 1..Len(b) : b[i] = q[i]
  BY PrefixIs
<1>4. CASE Len(a) <= Len(b)
  BY <1>2, <1>3, <1>4, PrefixIs
<1>5. CASE Len(b) <= Len(a)
  BY <1>2, <1>3, <1>5, PrefixIs
<1>6. QED
  BY <1>4, <1>5

\* Slices that share a wave cannot disturb one another: when the scheduler does not take two
\* allowlists to overlap, no path that one allows is a path the other allows or a directory it
\* lies in (allowlistsOverlap, isAllowed).
THEOREM SeparateScopes ==
  ASSUME NEW S, NEW left \in SUBSET Seq(S), NEW right \in SUBSET Seq(S),
         ~AllowlistsOverlap(left, right),
         NEW p \in Seq(S), NEW q \in Seq(S), Allows(left, p), Allows(right, q)
  PROVE  ~IsPrefix(p, q) /\ ~IsPrefix(q, p)
<1>1. PICK l \in left : GlobMatches(l, p)
  BY DEF Allows
<1>2. PICK r \in right : GlobMatches(r, q)
  BY DEF Allows
<1>3. ~IsPrefix(LiteralPrefix(l), LiteralPrefix(r)) /\ ~IsPrefix(LiteralPrefix(r), LiteralPrefix(l))
  BY DEF AllowlistsOverlap, GlobsMayMeet
<1>4. IsPrefix(LiteralPrefix(l), p) /\ IsPrefix(LiteralPrefix(r), q)
  BY <1>1, <1>2, MatchBeginsLiterally
<1>5. LiteralPrefix(l) \in Seq(S) /\ LiteralPrefix(r) \in Seq(S)
  BY LiteralPrefixIs
<1>6. QED
  BY <1>3, <1>4, <1>5, PrefixesMeet

\* The scheduler overlaps two allowlists exactly when the literal prefixes of two of their globs
\* are comparable: its other three tests add nothing to these two (allowlistsOverlap).
THEOREM OverlapIsOfPrefixes ==
  ASSUME NEW S, NEW left \in SUBSET Seq(S), NEW right \in SUBSET Seq(S)
  PROVE  AllowlistsOverlap(left, right) <=>
           \E l \in left, r \in right :
             \/ IsPrefix(LiteralPrefix(l), LiteralPrefix(r))
             \/ IsPrefix(LiteralPrefix(r), LiteralPrefix(l))
<1>1. ASSUME NEW l \in left, NEW r \in right, GlobsMayMeet(l, r)
      PROVE  \/ IsPrefix(LiteralPrefix(l), LiteralPrefix(r))
             \/ IsPrefix(LiteralPrefix(r), LiteralPrefix(l))
  <2>1. LiteralPrefix(l) \in Seq(S) /\ LiteralPrefix(r) \in Seq(S)
    BY LiteralPrefixIs
  <2>2. CASE l = r
    BY <2>1, <2>2, PrefixIs
  <2>3. CASE GlobMatches(l, LiteralPrefix(r))
    BY <2>1, <2>3, MatchBeginsLiterally
  <2>4. CASE GlobMatches(r, LiteralPrefix(l))
    BY <2>1, <2>4, MatchBeginsLiterally
  <2>5. QED
    BY <1>1, <2>2, <2>3, <2>4 DEF GlobsMayMeet
<1>2. QED
  BY <1>1 DEF AllowlistsOverlap, GlobsMayMeet
=============================================================================
