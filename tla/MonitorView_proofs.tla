--------------------------- MODULE MonitorView_proofs ---------------------------
(***************************************************************************)
(* Theorems about the monitor: the rows it keeps, the graph and the queue   *)
(* it shows and the row that is selected, for any tasks, workers, relations *)
(* and keys.                                                                *)
(***************************************************************************)
EXTENDS MonitorView, FiniteSetTheorems, WellFoundedInduction, TLAPS

-----------------------------------------------------------------------------
(* Induction over what an operator is given, by the first place it fails.   *)

\* A set of numbers has a first one.
LEMMA NatMin == ASSUME NEW T \in SUBSET Nat, T # {} PROVE \E x \in T : \A y \in T : x <= y
<1>1. PICK R : R = {ss \in Nat \X Nat : ss[1] < ss[2]}
  OBVIOUS
<1>2. IsWellFoundedOn(R, Nat)
  BY <1>1, NatLessThanWellFounded DEF OpToRel
<1>3. PICK x \in T : \A y \in T : ~ (<<y, x>> \in R)
  BY <1>2, WFMin
<1>4. ASSUME NEW y \in T PROVE x <= y
  <2>1. y \in Nat /\ x \in Nat /\ ~ (<<y, x>> \in R)
    BY <1>3
  <2>2. ~ (y < x)
    BY <1>1, <2>1
  <2> QED BY <2>1, <2>2
<1> QED BY <1>3, <1>4

\* A set of numbers that has 0, and with a number the next one up to N, has them all.
LEMMA UpTo ==
  ASSUME NEW N \in Nat, NEW T, 0 \in T, \A n \in 1 .. N : n - 1 \in T => n \in T
  PROVE  \A n \in 0 .. N : n \in T
<1> SUFFICES ASSUME NEW k \in 0 .. N, k \notin T PROVE FALSE
  OBVIOUS
<1>1. PICK bad : bad = {n \in 0 .. N : n \notin T}
  OBVIOUS
<1>2. bad \in SUBSET Nat /\ bad # {}
  BY <1>1
<1>3. PICK m \in bad : \A n \in bad : m <= n
  BY <1>2, NatMin
<1>4. m \in 1 .. N /\ m \notin T
  BY <1>1, <1>3
<1>5. m - 1 \in 0 .. N /\ m - 1 \notin bad
  BY <1>2, <1>3, <1>4
<1> QED BY <1>1, <1>4, <1>5

\* What step makes of a, n times over.
LEMMA Iterates ==
  ASSUME NEW S, NEW a \in S, NEW N \in Nat, NEW step \in [1 .. N -> [S -> S]]
  PROVE  \E f \in [0 .. N -> S] : f[0] = a /\ \A n \in 1 .. N : f[n] = step[n][f[n - 1]]
<1>1. PICK T : T = {m \in 0 .. N : \E f \in [0 .. m -> S] :
                                   f[0] = a /\ \A n \in 1 .. m : f[n] = step[n][f[n - 1]]}
  OBVIOUS
<1>2. 0 \in T
  <2>1. PICK f : f = [n \in 0 .. 0 |-> a]
    OBVIOUS
  <2>3. f \in [0 .. 0 -> S] /\ f[0] = a /\ \A n \in 1 .. 0 : f[n] = step[n][f[n - 1]]
    BY <2>1
  <2>2. 0 \in 0 .. N /\ \E g \in [0 .. 0 -> S] : g[0] = a /\ \A n \in 1 .. 0 : g[n] = step[n][g[n - 1]]
    BY <2>3
  <2> QED BY <1>1, <2>2
<1>3. ASSUME NEW n \in 1 .. N, n - 1 \in T PROVE n \in T
  <2>1. PICK f \in [0 .. n - 1 -> S] : f[0] = a /\ \A i \in 1 .. n - 1 : f[i] = step[i][f[i - 1]]
    BY <1>1, <1>3
  <2>2. PICK g : g = [i \in 0 .. n |-> IF i = n THEN step[n][f[n - 1]] ELSE f[i]]
    OBVIOUS
  <2>3. g \in [0 .. n -> S] /\ g[0] = a
    BY <2>1, <2>2
  <2>4. ASSUME NEW i \in 1 .. n PROVE g[i] = step[i][g[i - 1]]
    <3>1. i - 1 \in 0 .. n /\ i - 1 # n /\ g[i - 1] = f[i - 1]
      BY <2>2
    <3>2. CASE i = n
      BY <2>2, <3>1, <3>2
    <3>3. CASE i # n
      <4>1. i \in 1 .. n - 1 /\ g[i] = f[i]
        BY <2>2, <3>3
      <4> QED BY <2>1, <3>1, <4>1
    <3> QED BY <3>2, <3>3
  <2> QED BY <1>1, <2>3, <2>4
<1>4. \A n \in 0 .. N : n \in T
  BY <1>2, <1>3, UpTo
<1>5. N \in T
  BY <1>4
<1> QED BY <1>1, <1>5

-----------------------------------------------------------------------------
(* Sequences.                                                               *)

IsSeq(s)    == s \in Seq(ToSet(s))
Distinct(s) == \A i, j \in DOMAIN s : s[i] = s[j] => i = j

LEMMA SeqsAreSeqs == ASSUME NEW S, NEW s \in Seq(S) PROVE IsSeq(s) /\ ToSet(s) \subseteq S
<1>1. Len(s) \in Nat /\ DOMAIN s = 1 .. Len(s) /\ s \in [1 .. Len(s) -> S]
  OBVIOUS
<1>2. \A i \in 1 .. Len(s) : s[i] \in ToSet(s) /\ s[i] \in S
  BY <1>1 DEF ToSet
<1>3. s \in [1 .. Len(s) -> ToSet(s)]
  BY <1>1, <1>2
<1>4. ToSet(s) \subseteq S
  BY <1>1, <1>2 DEF ToSet
<1> QED BY <1>1, <1>3, <1>4 DEF IsSeq

LEMMA Enumerated == ASSUME NEW n \in Nat, NEW s, DOMAIN s = 1 .. n, s = [i \in 1 .. n |-> s[i]] PROVE IsSeq(s) /\ Len(s) = n
<1>1. s \in [1 .. n -> ToSet(s)]
  BY DEF ToSet
<1>2. s \in Seq(ToSet(s))
  BY <1>1
<1> QED BY <1>2 DEF IsSeq

\* Two sequences, one after the other.
LEMMA Joined ==
  ASSUME NEW s, NEW t, IsSeq(s), IsSeq(t)
  PROVE  /\ IsSeq(s \o t) /\ ToSet(s \o t) = ToSet(s) \cup ToSet(t) /\ Len(s \o t) = Len(s) + Len(t)
         /\ \A i \in DOMAIN s : i \in DOMAIN (s \o t) /\ (s \o t)[i] = s[i]
         /\ \A i \in DOMAIN t : Len(s) + i \in DOMAIN (s \o t) /\ (s \o t)[Len(s) + i] = t[i]
         /\ \A k \in DOMAIN (s \o t) : k \in DOMAIN s \/ (k - Len(s) \in DOMAIN t /\ k = Len(s) + (k - Len(s)))
<1>1. PICK S : S = ToSet(s) \cup ToSet(t)
  OBVIOUS
<1>2. s \in Seq(S) /\ t \in Seq(S)
  BY <1>1 DEF IsSeq
<1>3. s \o t \in Seq(S) /\ Len(s \o t) = Len(s) + Len(t)
  BY <1>2
<1>4. /\ \A i \in DOMAIN s : i \in DOMAIN (s \o t) /\ (s \o t)[i] = s[i]
      /\ \A i \in DOMAIN t : Len(s) + i \in DOMAIN (s \o t) /\ (s \o t)[Len(s) + i] = t[i]
  BY <1>2
<1>5. \A k \in DOMAIN (s \o t) : k \in DOMAIN s \/ (k - Len(s) \in DOMAIN t /\ k = Len(s) + (k - Len(s)))
  BY <1>2
<1>6. IsSeq(s \o t) /\ ToSet(s \o t) \subseteq S
  BY <1>3, SeqsAreSeqs
<1>7. S \subseteq ToSet(s \o t)
  BY <1>1, <1>4 DEF ToSet
<1> QED BY <1>1, <1>3, <1>4, <1>5, <1>6, <1>7

\* The sequences of seqs, one after the other: as far as n in f[n].
LEMMA Flattens ==
  ASSUME NEW S, NEW seqs, seqs \in Seq(Seq(S))
  PROVE  \E f \in [0 .. Len(seqs) -> Seq(S)] :
            /\ f[0] = <<>> /\ \A n \in 1 .. Len(seqs) : f[n] = f[n - 1] \o seqs[n]
            /\ FlattenSeq(seqs) = f[Len(seqs)]
<1>1. PICK N \in Nat : N = Len(seqs)
  OBVIOUS
<1>a. PICK Q : Q = Seq(S)
  OBVIOUS
<1>2. PICK step : step = [n \in 1 .. N |-> [s \in Q |-> s \o seqs[n]]]
  OBVIOUS
<1>3. <<>> \in Seq(S) /\ \A n \in 1 .. N : seqs[n] \in Seq(S)
  BY <1>1
<1>4. step \in [1 .. N -> [Q -> Q]] /\ \A n \in 1 .. N : \A s \in Q : step[n][s] = s \o seqs[n]
  <2>1. \A n \in 1 .. N : \A s \in Q : s \o seqs[n] \in Q
    BY <1>3, <1>a
  <2> QED BY <1>2, <2>1
<1>5. PICK f \in [0 .. N -> Seq(S)] : f[0] = <<>> /\ \A n \in 1 .. N : f[n] = step[n][f[n - 1]]
  <2>1. PICK a \in Q : a = <<>>
    BY <1>3, <1>a
  <2>2. step \in [1 .. N -> [Q -> Q]]
    BY <1>4
  <2>3. \E f \in [0 .. N -> Q] : f[0] = a /\ \A n \in 1 .. N : f[n] = step[n][f[n - 1]]
    BY ONLY <2>2, a \in Q, N \in Nat, Iterates
  <2> QED BY <1>a, <2>1, <2>3
<1>6. ASSUME NEW n \in 1 .. N PROVE f[n] = f[n - 1] \o seqs[n]
  <2>1. f[n - 1] \in Q /\ f[n] = step[n][f[n - 1]]
    BY <1>5, <1>a
  <2> QED BY <1>4, <2>1
<1>7. CASE N = 0
  <2>1. FlattenSeq(seqs) = seqs
    BY <1>1, <1>7 DEF FlattenSeq
  <2>2. seqs = <<>>
    <3>1. \A s \in Seq(Seq(S)) : Len(s) = 0 => s = <<>>
      OBVIOUS
    <3> QED BY <1>1, <1>7, <3>1
  <2> QED BY <1>1, <1>5, <1>6, <1>7, <2>1, <2>2
<1>8. CASE N # 0
  <2>1. PICK g : g = [n \in 1 .. N |-> f[n]]
    OBVIOUS
  <2>2. ASSUME NEW n \in 1 .. N PROVE g[n] = IF n = 1 THEN seqs[n] ELSE g[n - 1] \o seqs[n]
    <3>1. CASE n = 1
      <4>1. seqs[1] \in Seq(S) /\ f[1] = f[1 - 1] \o seqs[1]
        BY <1>3, <1>6, <3>1
      <4>2. <<>> \o seqs[1] = seqs[1]
        BY <4>1
      <4>3. f[1] = seqs[1]
        <5>1. 1 - 1 = 0
          OBVIOUS
        <5> QED BY <1>5, <4>1, <4>2, <5>1
      <4> QED BY <2>1, <3>1, <4>3
    <3>2. CASE n # 1
      <4>1. n - 1 \in 1 .. N
        BY <3>2
      <4> QED BY <1>6, <2>1, <3>2, <4>1
    <3> QED BY <3>1, <3>2
  <2>3. g = [n \in 1 .. N |-> IF n = 1 THEN seqs[n] ELSE g[n - 1] \o seqs[n]]
    BY <2>1, <2>2
  <2> DEFINE flatten[n \in 1 .. N] == IF n = 1 THEN seqs[n] ELSE flatten[n - 1] \o seqs[n]
  <2>4. FlattenSeq(seqs) = flatten[N]
    BY <1>1, <1>8 DEF FlattenSeq
  <2>5. flatten = [n \in 1 .. N |-> IF n = 1 THEN seqs[n] ELSE flatten[n - 1] \o seqs[n]]
    BY <2>3
  <2> HIDE DEF flatten
  <2>6. \A n \in 0 .. N : n \in {k \in 0 .. N : k = 0 \/ flatten[k] = f[k]}
    <3> DEFINE T == {k \in 0 .. N : k = 0 \/ flatten[k] = f[k]}
    <3>1. ASSUME NEW n \in 1 .. N, n - 1 \in T PROVE n \in T
      <4>1. flatten[n] = IF n = 1 THEN seqs[n] ELSE flatten[n - 1] \o seqs[n]
        BY <2>5
      <4>2. f[n] = IF n = 1 THEN seqs[n] ELSE f[n - 1] \o seqs[n]
        <5>1. g[n] = f[n] /\ (n # 1 => g[n - 1] = f[n - 1])
          BY <2>1
        <5> QED BY <2>2, <5>1
      <4> QED BY <3>1, <4>1, <4>2
    <3>2. 0 \in T
      OBVIOUS
    <3> HIDE DEF T
    <3>3. \A n \in 0 .. N : n \in T
      BY <3>1, <3>2, UpTo
    <3> QED BY <3>3 DEF T
  <2>7. flatten[N] = f[N]
    BY <1>8, <2>6
  <2> QED BY <1>1, <1>5, <1>6, <2>4, <2>7
<1> QED BY <1>7, <1>8

LEMMA JoinedDistinct ==
  ASSUME NEW s, NEW t, IsSeq(s), IsSeq(t), Distinct(s), Distinct(t), ToSet(s) \cap ToSet(t) = {}
  PROVE  Distinct(s \o t)
<1> SUFFICES ASSUME NEW i \in DOMAIN (s \o t), NEW j \in DOMAIN (s \o t), (s \o t)[i] = (s \o t)[j]
             PROVE  i = j
  BY DEF Distinct
<1>1. \A k \in DOMAIN (s \o t) :
         \/ k \in DOMAIN s /\ (s \o t)[k] = s[k] /\ s[k] \in ToSet(s)
         \/ k - Len(s) \in DOMAIN t /\ (s \o t)[k] = t[k - Len(s)] /\ t[k - Len(s)] \in ToSet(t)
  <2>1. \A x \in DOMAIN s : s[x] \in ToSet(s)
    BY DEF ToSet
  <2>2. \A x \in DOMAIN t : t[x] \in ToSet(t)
    BY DEF ToSet
  <2>3. \A k \in DOMAIN s : k \in DOMAIN (s \o t) /\ (s \o t)[k] = s[k]
    BY Joined
  <2>4. \A x \in DOMAIN t : Len(s) + x \in DOMAIN (s \o t) /\ (s \o t)[Len(s) + x] = t[x]
    BY Joined
  <2>5. \A k \in DOMAIN (s \o t) : k \in DOMAIN s \/ (k - Len(s) \in DOMAIN t /\ k = Len(s) + (k - Len(s)))
    BY Joined
  <2> QED BY <2>1, <2>2, <2>3, <2>4, <2>5
<1>2. i \in Int /\ j \in Int /\ Len(s) \in Nat
  <2>1. s \in Seq(ToSet(s)) /\ s \o t \in Seq(ToSet(s \o t))
    BY Joined DEF IsSeq
  <2> QED BY <2>1
<1>3. CASE i \in DOMAIN s /\ (s \o t)[i] = s[i] /\ s[i] \in ToSet(s)
  <2>1. j \in DOMAIN s /\ (s \o t)[j] = s[j]
    BY <1>1, <1>3
  <2> QED BY <1>3, <2>1 DEF Distinct
<1>4. CASE i - Len(s) \in DOMAIN t /\ (s \o t)[i] = t[i - Len(s)] /\ t[i - Len(s)] \in ToSet(t)
  <2>1. j - Len(s) \in DOMAIN t /\ (s \o t)[j] = t[j - Len(s)]
    BY <1>1, <1>4
  <2>2. i - Len(s) = j - Len(s)
    BY <1>4, <2>1 DEF Distinct
  <2> QED BY <1>2, <2>2
<1> QED BY <1>1, <1>3, <1>4

\* As many places as members.
LEMMA DistinctCard ==
  ASSUME NEW s, IsSeq(s), Distinct(s)
  PROVE  IsFiniteSet(ToSet(s)) /\ Cardinality(ToSet(s)) = Len(s)
<1>1. Len(s) \in Nat /\ DOMAIN s = 1 .. Len(s) /\ s \in [1 .. Len(s) -> ToSet(s)]
  <2>1. s \in Seq(ToSet(s))
    BY DEF IsSeq
  <2> QED BY <2>1
<1>2. s \in Bijection(1 .. Len(s), ToSet(s))
  <2>1. \A x \in ToSet(s) : \E i \in 1 .. Len(s) : s[i] = x
    BY <1>1 DEF ToSet
  <2> QED BY <1>1, <2>1 DEF Bijection, Injection, Surjection, IsInjective, Distinct
<1>3. ExistsBijection(1 .. Len(s), ToSet(s))
  BY <1>2 DEF ExistsBijection
<1>4. IsFiniteSet(ToSet(s))
  BY <1>1, <1>3, FS_NatBijection
<1>5. Cardinality(ToSet(s)) = Len(s)
  BY <1>1, <1>3, FS_CountingElements
<1> QED BY <1>4, <1>5

LEMMA Flattened ==
  ASSUME NEW seqs, IsSeq(seqs), \A i \in DOMAIN seqs : IsSeq(seqs[i])
  PROVE  IsSeq(FlattenSeq(seqs))
<1>1. PICK S : S = UNION {ToSet(seqs[i]) : i \in DOMAIN seqs}
  OBVIOUS
<1>2. PICK N \in Nat : N = Len(seqs) /\ DOMAIN seqs = 1 .. N /\ seqs = [i \in 1 .. N |-> seqs[i]]
  <2>1. seqs \in Seq(ToSet(seqs))
    BY DEF IsSeq
  <2> QED BY <2>1
<1>3. \A i \in 1 .. N : seqs[i] \in Seq(S)
  <2> SUFFICES ASSUME NEW i \in 1 .. N PROVE seqs[i] \in Seq(S)
    OBVIOUS
  <2>1. ToSet(seqs[i]) \subseteq S
    BY <1>1, <1>2
  <2>2. seqs[i] \in Seq(ToSet(seqs[i]))
    BY <1>2 DEF IsSeq
  <2> QED BY <2>1, <2>2
<1>4. seqs \in Seq(Seq(S))
  <2>1. PICK Q : Q = Seq(S)
    OBVIOUS
  <2>2. seqs \in [1 .. N -> Q]
    BY <1>2, <1>3, <2>1
  <2>3. seqs \in Seq(Q)
    BY <2>2
  <2> QED BY <2>1, <2>3
<1>5. FlattenSeq(seqs) \in Seq(S)
  <2>1. PICK f \in [0 .. Len(seqs) -> Seq(S)] : FlattenSeq(seqs) = f[Len(seqs)]
    BY <1>4, Flattens
  <2> QED BY <1>2, <2>1
<1> QED BY <1>5, SeqsAreSeqs

\* Each member once, and nothing else.
LEMMA SortedHasMembers ==
  ASSUME NEW IDs, IsSeq(IDs), Distinct(IDs), NEW members
  PROVE  /\ IsSeq(Sorted(IDs, members)) /\ Distinct(Sorted(IDs, members))
         /\ ToSet(Sorted(IDs, members)) = ToSet(IDs) \cap members
<1>1. PICK S : S = ToSet(IDs) \cap members
  OBVIOUS
<1>2. PICK N \in Nat : N = Len(IDs) /\ DOMAIN IDs = 1 .. N
  <2>1. IDs \in Seq(ToSet(IDs))
    BY DEF IsSeq
  <2> QED BY <2>1
<1>3. PICK parts : parts = [i \in DOMAIN IDs |-> IF IDs[i] \in members THEN <<IDs[i]>> ELSE <<>>]
  OBVIOUS
<1>4. \A i \in 1 .. N : IDs[i] \in ToSet(IDs)
  BY <1>2 DEF ToSet
<1>5. parts \in Seq(Seq(S)) /\ Len(parts) = N
  <2>1. PICK Q : Q = Seq(S)
    OBVIOUS
  <2>2. \A i \in 1 .. N : parts[i] \in Q
    <3> SUFFICES ASSUME NEW i \in 1 .. N PROVE parts[i] \in Q
      OBVIOUS
    <3>1. parts[i] = IF IDs[i] \in members THEN <<IDs[i]>> ELSE <<>>
      BY <1>2, <1>3
    <3>2. IDs[i] \in members => <<IDs[i]>> \in Seq(S)
      BY <1>1, <1>4
    <3>3. <<>> \in Seq(S)
      OBVIOUS
    <3> QED BY <2>1, <3>1, <3>2, <3>3
  <2>3. parts \in [1 .. N -> Q]
    BY <1>2, <1>3, <2>2
  <2>4. parts \in Seq(Q) /\ Len(parts) = N
    BY <2>3
  <2> QED BY <2>1, <2>4
<1>6. PICK f \in [0 .. N -> Seq(S)] :
         /\ f[0] = <<>> /\ \A n \in 1 .. N : f[n] = f[n - 1] \o parts[n]
         /\ FlattenSeq(parts) = f[N]
  BY <1>5, Flattens
<1>7. PICK T : T = {n \in 0 .. N : Distinct(f[n]) /\ ToSet(f[n]) = {IDs[i] : i \in 1 .. n} \cap members}
  OBVIOUS
<1>8. 0 \in T
  <2>1. Distinct(<<>>) /\ ToSet(<<>>) = {} /\ {IDs[i] : i \in 1 .. 0} = {}
    BY DEF Distinct, ToSet
  <2> QED BY <1>6, <1>7, <2>1
<1>9. ASSUME NEW n \in 1 .. N, n - 1 \in T PROVE n \in T
  <2>1. /\ Distinct(f[n - 1]) /\ ToSet(f[n - 1]) = {IDs[i] : i \in 1 .. n - 1} \cap members
        /\ IsSeq(f[n - 1])
    <3>1. f[n - 1] \in Seq(S)
      BY <1>6
    <3> QED BY <1>7, <1>9, <3>1, SeqsAreSeqs
  <2>2. f[n] = f[n - 1] \o parts[n] /\ parts[n] = IF IDs[n] \in members THEN <<IDs[n]>> ELSE <<>>
    BY <1>2, <1>3, <1>6
  <2>3. {IDs[i] : i \in 1 .. n} = {IDs[i] : i \in 1 .. n - 1} \cup {IDs[n]}
    <3>1. \A i \in 1 .. n : i = n \/ i \in 1 .. n - 1
      OBVIOUS
    <3>2. n \in 1 .. n /\ \A i \in 1 .. n - 1 : i \in 1 .. n
      OBVIOUS
    <3> QED BY <3>1, <3>2
  <2>4. CASE IDs[n] \in members
    <3>1. PICK one : one = <<IDs[n]>>
      OBVIOUS
    <3>2. IsSeq(one) /\ Distinct(one) /\ ToSet(one) = {IDs[n]}
      <4>1. one \in Seq({IDs[n]}) /\ DOMAIN one = {1} /\ one[1] = IDs[n]
        BY <3>1
      <4>2. ToSet(one) = {IDs[n]}
        BY <4>1 DEF ToSet
      <4> QED BY <4>1, <4>2 DEF IsSeq, Distinct
    <3>3. IDs[n] \notin ToSet(f[n - 1])
      <4> SUFFICES ASSUME NEW i \in 1 .. n - 1, IDs[i] = IDs[n] PROVE FALSE
        BY <2>1
      <4>1. i \in DOMAIN IDs /\ n \in DOMAIN IDs /\ i # n
        BY <1>2
      <4> QED BY <4>1 DEF Distinct
    <3>4. Distinct(f[n]) /\ ToSet(f[n]) = ToSet(f[n - 1]) \cup {IDs[n]}
      <4>1. f[n] = f[n - 1] \o one
        BY <2>2, <2>4, <3>1
      <4>2. ToSet(f[n - 1] \o one) = ToSet(f[n - 1]) \cup ToSet(one)
        BY <2>1, <3>2, Joined
      <4>3. ToSet(f[n - 1]) \cap ToSet(one) = {}
        BY <3>2, <3>3
      <4>4. Distinct(f[n - 1] \o one)
        BY <2>1, <3>2, <4>3, JoinedDistinct
      <4> QED BY <3>2, <4>1, <4>2, <4>4
    <3> QED BY <1>7, <2>1, <2>3, <2>4, <3>4
  <2>5. CASE IDs[n] \notin members
    <3>1. f[n] = f[n - 1]
      <4>1. f[n - 1] \in Seq(S)
        BY <1>6
      <4>2. f[n - 1] \o <<>> = f[n - 1]
        BY <4>1
      <4> QED BY <2>2, <2>5, <4>2
    <3> QED BY <1>7, <2>1, <2>3, <2>5, <3>1
  <2> QED BY <2>4, <2>5
<1>10. \A n \in 0 .. N : n \in T
  BY <1>8, <1>9, UpTo
<1>11. Distinct(f[N]) /\ ToSet(f[N]) = {IDs[i] : i \in 1 .. N} \cap members
  BY <1>7, <1>10
<1>12. Sorted(IDs, members) = f[N]
  BY <1>3, <1>6 DEF Sorted
<1>13. {IDs[i] : i \in 1 .. N} = ToSet(IDs)
  BY <1>2 DEF ToSet
<1>14. IsSeq(f[N])
  <2>1. f[N] \in Seq(S)
    BY <1>6
  <2> QED BY <2>1, SeqsAreSeqs
<1> QED BY <1>11, <1>12, <1>13, <1>14

-----------------------------------------------------------------------------
(* The walk through the graph.  D are the tasks, pp is the parent each is   *)
(* shown below, or "none".                                                  *)

Item(D)    == [task : D, depth : Nat]
Walks(D)   == [rows : Seq(Item(D)), todo : Seq(Item(D))]
Shown(w)   == {w.rows[i].task : i \in DOMAIN w.rows}

\* A row is below its parent's, or at the top with no parent that it could be below.
IsUnder(pp, rows, i, j) ==
  /\ j < i /\ rows[i].depth = rows[j].depth + 1 /\ rows[j].task = pp[rows[i].task]
  /\ \A k \in (j + 1) .. (i - 1) : rows[k].depth > rows[j].depth
Endless(D, pp, t) == \E above \in SUBSET D : t \in above /\ \A x \in above : pp[x] \in above
HasPlace(D, pp, rows, i) ==
  \/ \E j \in DOMAIN rows : IsUnder(pp, rows, i, j)
  \/ rows[i].depth = 2 /\ (pp[rows[i].task] = "none" \/ Endless(D, pp, rows[i].task))

RowsOnce(w) == \A i, j \in DOMAIN w.rows : w.rows[i].task = w.rows[j].task => i = j
RowsPlaced(D, pp, w) == \A i \in DOMAIN w.rows : HasPlace(D, pp, w.rows, i)

\* What is to come goes up in the tree, below rows that nothing has closed.
Falling(w) ==
  \A a \in DOMAIN w.todo : w.todo[a].depth >= 2 /\ \A b \in DOMAIN w.todo : a < b => w.todo[a].depth >= w.todo[b].depth
OpenAt(rows, j) == \A k \in DOMAIN rows : k > j => rows[k].depth > rows[j].depth
Waiting(pp, w) ==
  \A a \in DOMAIN w.todo : w.todo[a].depth > 2 =>
     \E j \in DOMAIN w.rows : /\ w.rows[j].task = pp[w.todo[a].task] /\ w.todo[a].depth = w.rows[j].depth + 1
                              /\ OpenAt(w.rows, j)

\* The roots come before the other tops; each task is to come as long as it is not shown, and
\* each child of one that is shown.
RootsFirst(D, pp, w) ==
  \A r \in D : pp[r] = "none" =>
     \/ r \in Shown(w)
     \/ \E a \in DOMAIN w.todo : /\ w.todo[a].task = r /\ w.todo[a].depth = 2
                                 /\ \A b \in 1 .. a : w.todo[b].depth = 2 => pp[w.todo[b].task] = "none"
AllToCome(D, w) ==
  \A t \in D : t \in Shown(w) \/ \E a \in DOMAIN w.todo : w.todo[a].task = t /\ w.todo[a].depth = 2
ChildrenToCome(D, pp, w) ==
  \A c \in D : pp[c] \in Shown(w) =>
     c \in Shown(w) \/ \E a \in DOMAIN w.todo : w.todo[a].task = c /\ w.todo[a].depth > 2

WalkInv(D, pp, w) ==
  /\ w \in Walks(D) /\ RowsOnce(w) /\ RowsPlaced(D, pp, w) /\ Falling(w) /\ Waiting(pp, w)
  /\ RootsFirst(D, pp, w) /\ AllToCome(D, w) /\ ChildrenToCome(D, pp, w)

\* What is to come after a task, whose children kids are or are not put in front.
Follows(todo, kids, depth, after) ==
  /\ \A x \in DOMAIN after : \/ x \in DOMAIN kids /\ after[x] = [task |-> kids[x], depth |-> depth]
                             \/ x - Len(kids) + 1 \in DOMAIN todo /\ x > Len(kids) /\ after[x] = todo[x - Len(kids) + 1]
  /\ \A a \in DOMAIN todo : a > 1 => a - 1 + Len(kids) \in DOMAIN after /\ after[a - 1 + Len(kids)] = todo[a]
  /\ \A x \in DOMAIN kids : x \in DOMAIN after /\ after[x] = [task |-> kids[x], depth |-> depth]
  /\ Len(after) = Len(todo) - 1 + Len(kids)

LEMMA AtPlaces ==
  ASSUME NEW D, NEW kids \in Seq(D), NEW d \in Nat
  PROVE  /\ At(kids, d) \in Seq(Item(D)) /\ Len(At(kids, d)) = Len(kids) /\ DOMAIN At(kids, d) = DOMAIN kids
         /\ \A i \in DOMAIN kids : At(kids, d)[i] = [task |-> kids[i], depth |-> d]
<1>1. PICK n \in Nat : n = Len(kids) /\ DOMAIN kids = 1 .. n /\ \A i \in 1 .. n : kids[i] \in D
  OBVIOUS
<1>2. PICK f : f = At(kids, d)
  OBVIOUS
<1>3. f = [i \in 1 .. n |-> [task |-> kids[i], depth |-> d]]
  BY <1>1, <1>2 DEF At
<1>4. f \in [1 .. n -> Item(D)]
  BY <1>1, <1>3 DEF Item
<1>5. f \in Seq(Item(D)) /\ Len(f) = n /\ DOMAIN f = 1 .. n
  BY <1>4
<1> QED BY <1>1, <1>2, <1>3, <1>5

LEMMA TailIs ==
  ASSUME NEW S, NEW s \in Seq(S), s # <<>>
  PROVE  /\ Tail(s) \in Seq(S) /\ Len(Tail(s)) = Len(s) - 1 /\ DOMAIN Tail(s) = 1 .. Len(s) - 1
         /\ Len(s) \in Nat \ {0} /\ DOMAIN s = 1 .. Len(s) /\ Head(s) = s[1] /\ s[1] \in S
         /\ \A a \in 1 .. Len(s) - 1 : Tail(s)[a] = s[a + 1]
<1>1. Len(s) \in Nat \ {0} /\ DOMAIN s = 1 .. Len(s) /\ Head(s) = s[1] /\ s[1] \in S
  OBVIOUS
<1>2. Tail(s) \in Seq(S) /\ Len(Tail(s)) = Len(s) - 1 /\ DOMAIN Tail(s) = 1 .. Len(s) - 1
  OBVIOUS
<1>3. \A a \in 1 .. Len(s) - 1 : Tail(s)[a] = s[a + 1]
  BY <1>1, <1>2
<1> QED BY <1>1, <1>2, <1>3

LEMMA JoinIs ==
  ASSUME NEW S, NEW s \in Seq(S), NEW t \in Seq(S)
  PROVE  /\ s \o t \in Seq(S) /\ Len(s \o t) = Len(s) + Len(t) /\ DOMAIN (s \o t) = 1 .. Len(s) + Len(t)
         /\ \A i \in 1 .. Len(s) : (s \o t)[i] = s[i]
         /\ \A i \in Len(s) + 1 .. Len(s) + Len(t) : (s \o t)[i] = t[i - Len(s)]
<1>1. s \o t \in Seq(S) /\ Len(s \o t) = Len(s) + Len(t) /\ DOMAIN (s \o t) = 1 .. Len(s) + Len(t)
  OBVIOUS
<1>2. \A i \in 1 .. Len(s) : (s \o t)[i] = s[i]
  OBVIOUS
<1>3. \A i \in Len(s) + 1 .. Len(s) + Len(t) : (s \o t)[i] = t[i - Len(s)]
  OBVIOUS
<1> QED BY <1>1, <1>2, <1>3

LEMMA PutInFront ==
  ASSUME NEW D, NEW todo \in Seq(Item(D)), todo # <<>>, NEW kids \in Seq(D), NEW d \in Nat
  PROVE  /\ At(kids, d) \o Tail(todo) \in Seq(Item(D))
         /\ Follows(todo, kids, d, At(kids, d) \o Tail(todo))
<1>1. PICK f \in Seq(Item(D)) : /\ f = At(kids, d) /\ Len(f) = Len(kids) /\ DOMAIN f = DOMAIN kids
                                /\ \A i \in DOMAIN kids : f[i] = [task |-> kids[i], depth |-> d]
  BY AtPlaces
<1>2. PICK n \in Nat : n = Len(kids) /\ DOMAIN kids = 1 .. n
  OBVIOUS
<1>3. PICK m \in Nat : m = Len(todo) /\ DOMAIN todo = 1 .. m /\ m > 0
  OBVIOUS
<1>4. PICK rest \in Seq(Item(D)) : /\ rest = Tail(todo) /\ Len(rest) = m - 1 /\ DOMAIN rest = 1 .. m - 1
                                   /\ \A a \in 1 .. m - 1 : rest[a] = todo[a + 1]
  BY <1>3, TailIs
<1>5. PICK g \in Seq(Item(D)) : /\ g = f \o rest /\ Len(g) = n + m - 1 /\ DOMAIN g = 1 .. (n + m - 1)
                                /\ \A i \in 1 .. n : g[i] = f[i]
                                /\ \A i \in n + 1 .. (n + m - 1) : g[i] = rest[i - n]
  <2>1. f \o rest \in Seq(Item(D)) /\ Len(f) + Len(rest) = n + m - 1
    BY <1>1, <1>2, <1>3, <1>4
  <2>2. Len(f) = n /\ Len(rest) = m - 1 /\ n + (m - 1) = n + m - 1
    BY <1>1, <1>2, <1>3, <1>4
  <2>3. PICK g \in Seq(Item(D)) : g = f \o rest
    BY <2>1
  <2>4. /\ Len(g) = Len(f) + Len(rest) /\ DOMAIN g = 1 .. (Len(f) + Len(rest))
        /\ \A i \in 1 .. Len(f) : g[i] = f[i]
        /\ \A i \in Len(f) + 1 .. (Len(f) + Len(rest)) : g[i] = rest[i - Len(f)]
    BY <2>3, JoinIs
  <2> QED BY <2>2, <2>3, <2>4
<1>6. Follows(todo, kids, d, g)
  <2>1. ASSUME NEW x \in DOMAIN g, x \notin DOMAIN kids
        PROVE  x - n + 1 \in DOMAIN todo /\ x > n /\ g[x] = todo[x - n + 1]
    <3>1. x \in n + 1 .. (n + m - 1) /\ x - n \in 1 .. m - 1
      BY <1>2, <1>5, <2>1
    <3>2. g[x] = rest[x - n]
      BY <1>5, <3>1
    <3>3. rest[x - n] = todo[x - n + 1]
      BY <1>4, <3>1
    <3> QED BY <1>3, <3>1, <3>2, <3>3
  <2>2. ASSUME NEW a \in DOMAIN todo, a > 1
        PROVE  a - 1 + n \in DOMAIN g /\ g[a - 1 + n] = todo[a]
    <3>1. PICK y \in 1 .. m - 1 : y = a - 1 /\ y + 1 = a
      BY <1>3, <2>2
    <3>2. y + n \in n + 1 .. (n + m - 1) /\ y + n - n = y
      OBVIOUS
    <3>3. g[y + n] = rest[y + n - n] /\ rest[y] = todo[y + 1]
      BY <1>4, <1>5, <3>2
    <3>4. y + n \in DOMAIN g
      BY <1>5, <3>2
    <3> QED BY <1>2, <3>1, <3>2, <3>3, <3>4
  <2>3. \A x \in DOMAIN kids : x \in DOMAIN g /\ g[x] = [task |-> kids[x], depth |-> d]
    BY <1>1, <1>2, <1>3, <1>5
  <2>4. Len(g) = m - 1 + n
    BY <1>5
  <2> QED BY <1>2, <1>3, <2>1, <2>2, <2>3, <2>4 DEF Follows
<1> QED BY <1>1, <1>4, <1>5, <1>6

LEMMA AppendIs ==
  ASSUME NEW S, NEW s \in Seq(S), NEW e \in S
  PROVE  /\ Append(s, e) \in Seq(S) /\ Len(s) \in Nat /\ DOMAIN s = 1 .. Len(s)
         /\ DOMAIN Append(s, e) = 1 .. Len(s) + 1 /\ Append(s, e)[Len(s) + 1] = e
         /\ \A i \in 1 .. Len(s) : Append(s, e)[i] = s[i]
  OBVIOUS

\* One step of the walk.
WalkStep(D, pp, w, v, kids) ==
  /\ w.todo # <<>> /\ kids \in Seq(D) /\ v \in Walks(D)
  /\ Follows(w.todo, kids, w.todo[1].depth + 1, v.todo)
  /\ \/ v.rows = w.rows /\ w.todo[1].task \in Shown(w) /\ kids = <<>>
     \/ /\ v.rows = Append(w.rows, w.todo[1]) /\ w.todo[1].task \notin Shown(w)
        /\ ToSet(kids) = {c \in D : pp[c] = w.todo[1].task}

\* The rows that are there stay, and the task that came next is shown after the step.
LEMMA StepRows ==
  ASSUME NEW D, NEW pp, NEW w \in Walks(D), NEW v, NEW kids, WalkStep(D, pp, w, v, kids)
  PROVE  /\ \A i \in DOMAIN w.rows : i \in DOMAIN v.rows /\ v.rows[i] = w.rows[i]
         /\ \A i \in DOMAIN v.rows :
               \/ i \in DOMAIN w.rows
               \/ /\ i \notin DOMAIN w.rows /\ v.rows[i] = w.todo[1] /\ w.todo[1].task \notin Shown(w)
                  /\ \A k \in DOMAIN v.rows : k <= i
         /\ w.todo[1].task \notin Shown(w) => \E i \in DOMAIN v.rows : i \notin DOMAIN w.rows
         /\ DOMAIN v.rows \subseteq Nat
         /\ \A i \in DOMAIN w.rows : \A j \in Nat : 1 <= j /\ j < i => j \in DOMAIN w.rows
         /\ Shown(v) = Shown(w) \cup {w.todo[1].task}
<1>1. PICK n \in Nat : n = Len(w.rows) /\ DOMAIN w.rows = 1 .. n
  <2>1. w.rows \in Seq(Item(D))
    BY DEF Walks
  <2> QED BY <2>1
<1>2. w.todo[1] \in Item(D)
  <2>1. w.todo \in Seq(Item(D)) /\ w.todo # <<>>
    BY DEF Walks, WalkStep
  <2> QED BY <2>1, TailIs
<1>3. CASE v.rows = w.rows /\ w.todo[1].task \in Shown(w)
  BY <1>1, <1>3 DEF Shown
<1>4. CASE v.rows = Append(w.rows, w.todo[1]) /\ w.todo[1].task \notin Shown(w)
  <2>1. w.rows \in Seq(Item(D))
    BY DEF Walks
  <2>2. PICK rows : rows = Append(w.rows, w.todo[1])
    OBVIOUS
  <2>3. /\ DOMAIN rows = 1 .. n + 1 /\ rows[n + 1] = w.todo[1]
        /\ \A i \in 1 .. n : rows[i] = w.rows[i]
    BY <1>1, <1>2, <2>1, <2>2, AppendIs
  <2>4. \A i \in 1 .. n + 1 : i \in 1 .. n \/ i = n + 1
    OBVIOUS
  <2>5. \A i \in 1 .. n : i \in 1 .. n + 1
    OBVIOUS
  <2>6. n + 1 \in 1 .. n + 1 /\ n + 1 \notin 1 .. n /\ \A k \in 1 .. n + 1 : k <= n + 1
    OBVIOUS
  <2>7. v.rows = rows
    BY <1>4, <2>2
  <2>8. Shown(v) = Shown(w) \cup {w.todo[1].task}
    BY <1>1, <2>3, <2>4, <2>5, <2>6, <2>7 DEF Shown
  <2> QED BY <1>1, <1>4, <2>3, <2>4, <2>5, <2>6, <2>7, <2>8
<1> QED BY <1>3, <1>4 DEF WalkStep

\* What is to come: children of the task that is now shown, m of them, and what was to come after it.
Shifts(D, pp, w, v, m) ==
  /\ \A x \in DOMAIN v.todo :
        \/ /\ x <= m /\ v.todo[x].depth = w.todo[1].depth + 1
           /\ pp[v.todo[x].task] = w.todo[1].task /\ w.todo[1].task \notin Shown(w)
        \/ x > m /\ x - m + 1 \in DOMAIN w.todo /\ v.todo[x] = w.todo[x - m + 1]
  /\ \A a \in DOMAIN w.todo : a > 1 => a - 1 + m \in DOMAIN v.todo /\ v.todo[a - 1 + m] = w.todo[a]
  /\ w.todo[1].task \notin Shown(w) =>
        \A c \in D : pp[c] = w.todo[1].task =>
           \E x \in DOMAIN v.todo : v.todo[x].task = c /\ v.todo[x].depth = w.todo[1].depth + 1
  /\ DOMAIN w.todo = 1 .. Len(w.todo) /\ Len(w.todo) \in Nat \ {0}
  /\ DOMAIN v.todo = 1 .. Len(v.todo) /\ Len(v.todo) \in Nat
  /\ Len(v.todo) = Len(w.todo) - 1 + m

LEMMA StepTodo ==
  ASSUME NEW D, NEW pp, NEW w \in Walks(D), NEW v, NEW kids, WalkStep(D, pp, w, v, kids)
  PROVE  Len(kids) \in Nat /\ Shifts(D, pp, w, v, Len(kids))
<1>1. PICK m \in Nat : m = Len(kids) /\ DOMAIN kids = 1 .. m
  <2>1. kids \in Seq(D)
    BY DEF WalkStep
  <2> QED BY <2>1
<1>2. Follows(w.todo, kids, w.todo[1].depth + 1, v.todo)
  BY DEF WalkStep
<1>3. /\ DOMAIN w.todo = 1 .. Len(w.todo) /\ Len(w.todo) \in Nat \ {0}
      /\ DOMAIN v.todo = 1 .. Len(v.todo) /\ Len(v.todo) \in Nat
  <2>1. w.todo \in Seq(Item(D)) /\ w.todo # <<>> /\ v.todo \in Seq(Item(D))
    BY DEF Walks, WalkStep
  <2> QED BY <2>1
<1>4. m > 0 => w.todo[1].task \notin Shown(w)
  <2>1. kids = <<>> => m = 0
    BY <1>1
  <2> QED BY <2>1 DEF WalkStep
<1>5. ASSUME w.todo[1].task \notin Shown(w) PROVE ToSet(kids) = {c \in D : pp[c] = w.todo[1].task}
  BY <1>5 DEF WalkStep
<1>6. ASSUME NEW x \in 1 .. m PROVE /\ x \in DOMAIN v.todo /\ v.todo[x].task = kids[x]
                                    /\ v.todo[x].depth = w.todo[1].depth + 1
  <2>1. x \in DOMAIN v.todo /\ v.todo[x] = [task |-> kids[x], depth |-> w.todo[1].depth + 1]
    BY <1>1, <1>2 DEF Follows
  <2> QED BY <2>1
<1>7. ASSUME NEW x \in DOMAIN v.todo
      PROVE  \/ /\ x <= m /\ v.todo[x].depth = w.todo[1].depth + 1
                /\ pp[v.todo[x].task] = w.todo[1].task /\ w.todo[1].task \notin Shown(w)
             \/ x > m /\ x - m + 1 \in DOMAIN w.todo /\ v.todo[x] = w.todo[x - m + 1]
  <2>1. CASE x \in 1 .. m
    <3>1. kids[x] \in ToSet(kids) /\ m > 0
      BY <1>1, <2>1 DEF ToSet
    <3>2. pp[kids[x]] = w.todo[1].task
      BY <1>4, <1>5, <3>1
    <3> QED BY <1>4, <1>6, <2>1, <3>1, <3>2
  <2>2. CASE x \notin 1 .. m
    BY <1>1, <1>2, <2>2 DEF Follows
  <2> QED BY <2>1, <2>2
<1>8. \A a \in DOMAIN w.todo : a > 1 => a - 1 + m \in DOMAIN v.todo /\ v.todo[a - 1 + m] = w.todo[a]
  BY <1>1, <1>2 DEF Follows
<1>9. ASSUME w.todo[1].task \notin Shown(w), NEW c \in D, pp[c] = w.todo[1].task
      PROVE  \E x \in DOMAIN v.todo : v.todo[x].task = c /\ v.todo[x].depth = w.todo[1].depth + 1
  <2>1. c \in ToSet(kids)
    BY <1>5, <1>9
  <2>2. PICK x \in 1 .. m : kids[x] = c
    BY <1>1, <2>1 DEF ToSet
  <2> QED BY <1>6, <2>2
<1>10. Len(v.todo) = Len(w.todo) - 1 + m
  BY <1>1, <1>2 DEF Follows
<1> QED BY <1>1, <1>3, <1>7, <1>8, <1>9, <1>10 DEF Shifts

LEMMA KeepsRowsOnce ==
  ASSUME NEW D, NEW pp, NEW w, WalkInv(D, pp, w), NEW v, NEW kids, WalkStep(D, pp, w, v, kids)
  PROVE  RowsOnce(v)
<1> SUFFICES ASSUME NEW i \in DOMAIN v.rows, NEW j \in DOMAIN v.rows, v.rows[i].task = v.rows[j].task PROVE i = j
  BY DEF RowsOnce
<1>1. w \in Walks(D) /\ RowsOnce(w)
  BY DEF WalkInv
<1>2. \A k \in DOMAIN w.rows : v.rows[k].task \in Shown(w) /\ v.rows[k] = w.rows[k]
  <2>1. \A k \in DOMAIN w.rows : v.rows[k] = w.rows[k]
    BY <1>1, StepRows
  <2> QED BY <2>1 DEF Shown
<1>3. \A x \in DOMAIN v.rows :
         \/ x \in DOMAIN w.rows
         \/ v.rows[x].task \notin Shown(w) /\ \A k \in DOMAIN v.rows : k <= x
  BY <1>1, StepRows
<1>4. i \in Nat /\ j \in Nat
  BY <1>1, StepRows
<1>5. CASE i \in DOMAIN w.rows /\ j \in DOMAIN w.rows
  BY <1>1, <1>2, <1>5 DEF RowsOnce
<1>6. CASE i \notin DOMAIN w.rows /\ j \notin DOMAIN w.rows
  <2>1. i <= j /\ j <= i
    BY <1>3, <1>6
  <2> QED BY <1>4, <2>1
<1> QED BY <1>2, <1>3, <1>5, <1>6

LEMMA KeepsFalling ==
  ASSUME NEW D, NEW pp, NEW w, WalkInv(D, pp, w), NEW v, NEW kids, WalkStep(D, pp, w, v, kids)
  PROVE  Falling(v)
<1>1. w \in Walks(D) /\ Falling(w)
  BY DEF WalkInv
<1>2. PICK m \in Nat :
         /\ \A x \in DOMAIN v.todo :
               \/ x <= m /\ v.todo[x].depth = w.todo[1].depth + 1
               \/ x > m /\ x - m + 1 \in DOMAIN w.todo /\ v.todo[x] = w.todo[x - m + 1]
         /\ DOMAIN w.todo = 1 .. Len(w.todo) /\ Len(w.todo) \in Nat \ {0}
         /\ DOMAIN v.todo = 1 .. Len(v.todo) /\ Len(v.todo) \in Nat
  <2>1. Len(kids) \in Nat /\ Shifts(D, pp, w, v, Len(kids))
    BY <1>1, StepTodo
  <2> QED BY <2>1 DEF Shifts
<1>3. \A a \in DOMAIN w.todo : w.todo[a].depth \in Nat
  <2>1. w.todo \in Seq(Item(D))
    BY <1>1 DEF Walks
  <2>2. \A a \in DOMAIN w.todo : w.todo[a] \in Item(D)
    BY <2>1
  <2> QED BY <2>2 DEF Item
<1>4. 1 \in DOMAIN w.todo /\ w.todo[1].depth \in Nat /\ w.todo[1].depth >= 2
  BY <1>1, <1>2, <1>3 DEF Falling
<1>5. \A b \in DOMAIN w.todo : w.todo[b].depth <= w.todo[1].depth
  <2> SUFFICES ASSUME NEW b \in DOMAIN w.todo PROVE w.todo[b].depth <= w.todo[1].depth
    OBVIOUS
  <2>1. CASE b = 1
    BY <1>4, <2>1
  <2>2. CASE b > 1
    BY <1>1, <1>3, <1>4, <2>2 DEF Falling
  <2>3. b = 1 \/ b > 1
    BY <1>2
  <2> QED BY <2>1, <2>2, <2>3
<1>6. ASSUME NEW x \in DOMAIN v.todo PROVE v.todo[x].depth >= 2
  <2>1. CASE x <= m /\ v.todo[x].depth = w.todo[1].depth + 1
    BY <1>4, <2>1
  <2>2. CASE x - m + 1 \in DOMAIN w.todo /\ v.todo[x] = w.todo[x - m + 1]
    <3>1. w.todo[x - m + 1].depth >= 2
      BY <1>1, <2>2 DEF Falling
    <3> QED BY <2>2, <3>1
  <2> QED BY <1>2, <2>1, <2>2
<1>7. ASSUME NEW x \in DOMAIN v.todo, NEW y \in DOMAIN v.todo, x < y PROVE v.todo[x].depth >= v.todo[y].depth
  <2>1. x \in Nat /\ y \in Nat
    BY <1>2
  <2>2. CASE x <= m /\ v.todo[x].depth = w.todo[1].depth + 1
    <3>1. v.todo[y].depth \in Nat /\ v.todo[y].depth <= w.todo[1].depth + 1
      <4>1. CASE y <= m /\ v.todo[y].depth = w.todo[1].depth + 1
        BY <1>4, <4>1
      <4>2. CASE y - m + 1 \in DOMAIN w.todo /\ v.todo[y] = w.todo[y - m + 1]
        BY <1>3, <1>4, <1>5, <4>2
      <4> QED BY <1>2, <4>1, <4>2
    <3> QED BY <1>4, <2>2, <3>1
  <2>3. CASE x > m /\ x - m + 1 \in DOMAIN w.todo /\ v.todo[x] = w.todo[x - m + 1]
    <3>1. y > m
      BY <1>7, <2>1, <2>3
    <3>2. y - m + 1 \in DOMAIN w.todo /\ v.todo[y] = w.todo[y - m + 1]
      BY <1>2, <2>1, <3>1
    <3>3. x - m + 1 < y - m + 1
      BY <1>7, <2>1
    <3> QED BY <1>1, <2>3, <3>2, <3>3 DEF Falling
  <2> QED BY <1>2, <2>2, <2>3
<1> QED BY <1>6, <1>7 DEF Falling

LEMMA KeepsWaiting ==
  ASSUME NEW D, NEW pp, NEW w, WalkInv(D, pp, w), NEW v, NEW kids, WalkStep(D, pp, w, v, kids)
  PROVE  Waiting(pp, v)
<1> SUFFICES ASSUME NEW x \in DOMAIN v.todo, v.todo[x].depth > 2
             PROVE  \E j \in DOMAIN v.rows : /\ v.rows[j].task = pp[v.todo[x].task]
                                             /\ v.todo[x].depth = v.rows[j].depth + 1 /\ OpenAt(v.rows, j)
  BY DEF Waiting
<1>1. w \in Walks(D) /\ Falling(w) /\ Waiting(pp, w)
  BY DEF WalkInv
<1>2. PICK m \in Nat :
         /\ \/ /\ x <= m /\ v.todo[x].depth = w.todo[1].depth + 1
               /\ pp[v.todo[x].task] = w.todo[1].task /\ w.todo[1].task \notin Shown(w)
            \/ x > m /\ x - m + 1 \in DOMAIN w.todo /\ v.todo[x] = w.todo[x - m + 1]
         /\ DOMAIN w.todo = 1 .. Len(w.todo) /\ Len(w.todo) \in Nat \ {0}
  <2>1. Len(kids) \in Nat /\ Shifts(D, pp, w, v, Len(kids))
    BY <1>1, StepTodo
  <2> QED BY <2>1 DEF Shifts
<1>3. /\ \A i \in DOMAIN w.rows : i \in DOMAIN v.rows /\ v.rows[i] = w.rows[i]
      /\ \A i \in DOMAIN v.rows :
            \/ i \in DOMAIN w.rows
            \/ i \notin DOMAIN w.rows /\ v.rows[i] = w.todo[1] /\ \A k \in DOMAIN v.rows : k <= i
      /\ w.todo[1].task \notin Shown(w) => \E i \in DOMAIN v.rows : i \notin DOMAIN w.rows
      /\ DOMAIN v.rows \subseteq Nat
  BY <1>1, StepRows
<1>4. CASE /\ x <= m /\ v.todo[x].depth = w.todo[1].depth + 1
           /\ pp[v.todo[x].task] = w.todo[1].task /\ w.todo[1].task \notin Shown(w)
  <2>1. PICK i \in DOMAIN v.rows : v.rows[i] = w.todo[1] /\ \A k \in DOMAIN v.rows : k <= i
    BY <1>3, <1>4
  <2>2. OpenAt(v.rows, i)
    <3>1. \A k \in DOMAIN v.rows : ~ (k > i)
      BY <1>3, <2>1
    <3> QED BY <3>1 DEF OpenAt
  <2> QED BY <1>4, <2>1, <2>2
<1>5. CASE x > m /\ x - m + 1 \in DOMAIN w.todo /\ v.todo[x] = w.todo[x - m + 1]
  <2>1. PICK a \in DOMAIN w.todo : v.todo[x] = w.todo[a]
    BY <1>5
  <2>2. PICK j \in DOMAIN w.rows : /\ w.rows[j].task = pp[w.todo[a].task]
                                   /\ w.todo[a].depth = w.rows[j].depth + 1 /\ OpenAt(w.rows, j)
    BY <1>1, <2>1 DEF Waiting
  <2>3. w.todo[a].depth <= w.todo[1].depth /\ w.todo[1].depth \in Nat
    <3>1. \A b \in DOMAIN w.todo : w.todo[b].depth \in Nat
      <4>1. w.todo \in Seq(Item(D))
        BY <1>1 DEF Walks
      <4>2. \A b \in DOMAIN w.todo : w.todo[b] \in Item(D)
        BY <4>1
      <4> QED BY <4>2 DEF Item
    <3>2. 1 \in DOMAIN w.todo /\ (a = 1 \/ a > 1)
      BY <1>2
    <3>3. a > 1 => w.todo[1].depth >= w.todo[a].depth
      BY <1>1, <3>2 DEF Falling
    <3> QED BY <3>1, <3>2, <3>3
  <2>4. w.rows[j].depth \in Nat
    <3>1. w.rows \in Seq(Item(D))
      BY <1>1 DEF Walks
    <3>2. w.rows[j] \in Item(D)
      BY <3>1
    <3> QED BY <3>2 DEF Item
  <2>5. w.todo[1].depth > w.rows[j].depth
    BY <2>2, <2>3, <2>4
  <2>6. OpenAt(v.rows, j)
    <3> SUFFICES ASSUME NEW k \in DOMAIN v.rows, k > j PROVE v.rows[k].depth > v.rows[j].depth
      BY DEF OpenAt
    <3>1. CASE k \in DOMAIN w.rows
      BY <1>3, <2>2, <3>1 DEF OpenAt
    <3>2. CASE k \notin DOMAIN w.rows
      BY <1>3, <2>5, <3>2
    <3> QED BY <3>1, <3>2
  <2> QED BY <1>3, <2>1, <2>2, <2>6
<1> QED BY <1>2, <1>4, <1>5

\* A row keeps its place when rows come after it.
LEMMA KeepsPlace ==
  ASSUME NEW D, NEW pp, NEW w, WalkInv(D, pp, w), NEW v, NEW kids, WalkStep(D, pp, w, v, kids),
         NEW i \in DOMAIN w.rows
  PROVE  HasPlace(D, pp, v.rows, i)
<1>1. w \in Walks(D) /\ HasPlace(D, pp, w.rows, i)
  BY DEF WalkInv, RowsPlaced
<1>2. /\ \A k \in DOMAIN w.rows : k \in DOMAIN v.rows /\ v.rows[k] = w.rows[k]
      /\ \A j \in Nat : 1 <= j /\ j < i => j \in DOMAIN w.rows
      /\ i \in Nat /\ \A j \in DOMAIN w.rows : j \in 1 .. Len(w.rows)
  <2>1. w.rows \in Seq(Item(D))
    BY <1>1 DEF Walks
  <2>2. DOMAIN w.rows = 1 .. Len(w.rows) /\ Len(w.rows) \in Nat
    BY <2>1
  <2>3. \A k \in DOMAIN w.rows : k \in DOMAIN v.rows /\ v.rows[k] = w.rows[k]
    BY <1>1, StepRows
  <2> QED BY <2>2, <2>3
<1>3. ASSUME NEW j \in DOMAIN w.rows, IsUnder(pp, w.rows, i, j) PROVE IsUnder(pp, v.rows, i, j)
  <2>1. ASSUME NEW k \in (j + 1) .. (i - 1) PROVE v.rows[k].depth > v.rows[j].depth
    <3>1. k \in DOMAIN w.rows
      BY <1>2
    <3> QED BY <1>2, <1>3, <3>1 DEF IsUnder
  <2> QED BY <1>2, <1>3, <2>1 DEF IsUnder
<1> QED BY <1>1, <1>2, <1>3 DEF HasPlace

\* A task that comes at the top with a parent is one that no root leads to.
LEMMA LeftIsEndless ==
  ASSUME NEW D, "none" \notin D, NEW pp \in [D -> D \cup {"none"}], NEW w, WalkInv(D, pp, w),
         w.todo # <<>>, w.todo[1].depth = 2, pp[w.todo[1].task] # "none", w.todo[1].task \in D \ Shown(w)
  PROVE  Endless(D, pp, w.todo[1].task)
<1>1. w \in Walks(D) /\ Falling(w) /\ RootsFirst(D, pp, w) /\ ChildrenToCome(D, pp, w)
  BY DEF WalkInv
<1>2. DOMAIN w.todo = 1 .. Len(w.todo) /\ Len(w.todo) \in Nat \ {0} /\ \A a \in DOMAIN w.todo : w.todo[a].depth \in Nat
  <2>1. w.todo \in Seq(Item(D))
    BY <1>1 DEF Walks
  <2>2. \A a \in DOMAIN w.todo : w.todo[a] \in Item(D)
    BY <2>1
  <2> QED BY <2>1, <2>2 DEF Item
<1>3. \A a \in DOMAIN w.todo : ~ (w.todo[a].depth > 2)
  <2> SUFFICES ASSUME NEW a \in DOMAIN w.todo, w.todo[a].depth > 2 PROVE FALSE
    OBVIOUS
  <2>1. 1 \in DOMAIN w.todo /\ a # 1 /\ a > 1
    BY <1>2
  <2>2. w.todo[1].depth >= w.todo[a].depth
    BY <1>1, <2>1 DEF Falling
  <2> QED BY <1>2, <2>2
<1>4. ASSUME NEW x \in D \ Shown(w) PROVE pp[x] \in D \ Shown(w)
  <2>1. pp[x] # "none"
    <3> SUFFICES ASSUME pp[x] = "none" PROVE FALSE
      OBVIOUS
    <3>1. PICK a \in DOMAIN w.todo : \A b \in 1 .. a : w.todo[b].depth = 2 => pp[w.todo[b].task] = "none"
      BY <1>1 DEF RootsFirst
    <3>2. 1 \in 1 .. a
      BY <1>2
    <3> QED BY <3>1, <3>2
  <2>2. pp[x] \notin Shown(w)
    BY <1>1, <1>3 DEF ChildrenToCome
  <2> QED BY <2>1, <2>2
<1>5. PICK above \in SUBSET D : above = D \ Shown(w)
  OBVIOUS
<1> QED BY <1>4, <1>5 DEF Endless

LEMMA KeepsPlaced ==
  ASSUME NEW D, "none" \notin D, NEW pp \in [D -> D \cup {"none"}], NEW w, WalkInv(D, pp, w),
         NEW v, NEW kids, WalkStep(D, pp, w, v, kids)
  PROVE  RowsPlaced(D, pp, v)
<1> SUFFICES ASSUME NEW i \in DOMAIN v.rows PROVE HasPlace(D, pp, v.rows, i)
  BY DEF RowsPlaced
<1>1. w \in Walks(D) /\ Falling(w) /\ Waiting(pp, w) /\ w.todo # <<>>
  BY DEF WalkInv, WalkStep
<1>2. CASE i \in DOMAIN w.rows
  BY <1>2, KeepsPlace
<1>3. CASE i \notin DOMAIN w.rows
  <2>1. /\ v.rows[i] = w.todo[1] /\ w.todo[1].task \notin Shown(w)
        /\ \A k \in DOMAIN v.rows : k <= i
        /\ DOMAIN v.rows \subseteq Nat
        /\ \A k \in DOMAIN w.rows : k \in DOMAIN v.rows /\ v.rows[k] = w.rows[k]
    BY <1>1, <1>3, StepRows
  <2>2. w.todo[1].task \in D /\ w.todo[1].depth \in Nat /\ 1 \in DOMAIN w.todo
    <3>1. w.todo \in Seq(Item(D))
      BY <1>1 DEF Walks
    <3>2. w.todo[1] \in Item(D) /\ 1 \in DOMAIN w.todo
      BY <1>1, <3>1, TailIs
    <3> QED BY <3>2 DEF Item
  <2>3. w.todo[1].depth >= 2
    BY <1>1, <2>2 DEF Falling
  <2>4. CASE w.todo[1].depth = 2
    BY <1>1, <2>1, <2>2, <2>4, LeftIsEndless DEF HasPlace
  <2>5. CASE w.todo[1].depth > 2
    <3>1. PICK j \in DOMAIN w.rows : /\ w.rows[j].task = pp[w.todo[1].task]
                                     /\ w.todo[1].depth = w.rows[j].depth + 1 /\ OpenAt(w.rows, j)
      BY <1>1, <2>2, <2>5 DEF Waiting
    <3>2. j \in DOMAIN v.rows /\ j \in Nat /\ i \in Nat /\ j < i /\ v.rows[j] = w.rows[j]
      BY <1>3, <2>1
    <3>3. ASSUME NEW k \in (j + 1) .. (i - 1) PROVE v.rows[k].depth > v.rows[j].depth
      <4>1. k \in DOMAIN w.rows
        <5>1. v.rows \in Seq(Item(D))
          BY DEF WalkStep, Walks
        <5>2. DOMAIN v.rows = 1 .. Len(v.rows)
          BY <5>1
        <5>3. k \in DOMAIN v.rows /\ k < i
          BY <3>2, <5>2
        <5>4. \A x \in DOMAIN v.rows : x \in DOMAIN w.rows \/ \A y \in DOMAIN v.rows : y <= x
          BY <1>1, StepRows
        <5> QED BY <3>2, <5>3, <5>4
      <4>2. k > j
        BY <3>2
      <4> QED BY <2>1, <3>1, <3>2, <4>1, <4>2 DEF OpenAt
    <3>4. IsUnder(pp, v.rows, i, j)
      BY <2>1, <3>1, <3>2, <3>3 DEF IsUnder
    <3> QED BY <3>2, <3>4 DEF HasPlace
  <2> QED BY <2>2, <2>3, <2>4, <2>5
<1> QED BY <1>2, <1>3

\* What was to come is shown, or still to come.
StillToCome(w, v, m) ==
  \A a \in DOMAIN w.todo :
     \/ w.todo[a].task \in Shown(v)
     \/ a > 1 /\ a - 1 + m \in DOMAIN v.todo /\ v.todo[a - 1 + m] = w.todo[a]

LEMMA StaysToCome ==
  ASSUME NEW D, NEW pp, NEW w \in Walks(D), NEW v, NEW kids, WalkStep(D, pp, w, v, kids)
  PROVE  StillToCome(w, v, Len(kids))
<1> SUFFICES ASSUME NEW a \in DOMAIN w.todo
             PROVE  \/ w.todo[a].task \in Shown(v)
                    \/ /\ a > 1 /\ a - 1 + Len(kids) \in DOMAIN v.todo
                       /\ v.todo[a - 1 + Len(kids)] = w.todo[a]
  BY DEF StillToCome
<1>1. Shifts(D, pp, w, v, Len(kids))
  BY StepTodo
<1>2. CASE a = 1
  <2>1. Shown(v) = Shown(w) \cup {w.todo[1].task}
    BY StepRows
  <2> QED BY <1>2, <2>1
<1>3. CASE a > 1
  BY <1>1, <1>3 DEF Shifts
<1>4. a = 1 \/ a > 1
  BY <1>1 DEF Shifts
<1> QED BY <1>2, <1>3, <1>4

LEMMA KeepsRootsFirst ==
  ASSUME NEW D, NEW pp, NEW w, WalkInv(D, pp, w), NEW v, NEW kids, WalkStep(D, pp, w, v, kids)
  PROVE  RootsFirst(D, pp, v)
<1> SUFFICES ASSUME NEW r \in D, pp[r] = "none", r \notin Shown(v)
             PROVE  \E a \in DOMAIN v.todo : /\ v.todo[a].task = r /\ v.todo[a].depth = 2
                                             /\ \A b \in 1 .. a : v.todo[b].depth = 2 => pp[v.todo[b].task] = "none"
  BY DEF RootsFirst
<1>1. w \in Walks(D) /\ Falling(w) /\ RootsFirst(D, pp, w)
  BY DEF WalkInv
<1>2. r \notin Shown(w)
  BY <1>1, StepRows
<1>3. PICK a \in DOMAIN w.todo : /\ w.todo[a].task = r /\ w.todo[a].depth = 2
                                 /\ \A b \in 1 .. a : w.todo[b].depth = 2 => pp[w.todo[b].task] = "none"
  BY <1>1, <1>2 DEF RootsFirst
<1>4. PICK m \in Nat : m = Len(kids) /\ Shifts(D, pp, w, v, m)
  BY <1>1, StepTodo
<1>5. a > 1 /\ a - 1 + m \in DOMAIN v.todo /\ v.todo[a - 1 + m] = w.todo[a]
  <2>1. StillToCome(w, v, m)
    BY <1>1, <1>4, StaysToCome
  <2> QED BY <1>3, <2>1 DEF StillToCome
<1>6. w.todo[1].depth >= 2 /\ w.todo[1].depth \in Nat
  <2>1. w.todo \in Seq(Item(D)) /\ w.todo # <<>>
    BY <1>1 DEF Walks, WalkStep
  <2>2. w.todo[1] \in Item(D) /\ 1 \in DOMAIN w.todo
    BY <2>1, TailIs
  <2> QED BY <1>1, <2>2 DEF Item, Falling
<1>7. ASSUME NEW b \in 1 .. a - 1 + m, v.todo[b].depth = 2 PROVE pp[v.todo[b].task] = "none"
  <2>1. b \in DOMAIN v.todo
    BY <1>4, <1>5 DEF Shifts
  <2>2. ~ (b <= m /\ v.todo[b].depth = w.todo[1].depth + 1)
    BY <1>6, <1>7
  <2>3. b > m /\ b - m + 1 \in DOMAIN w.todo /\ v.todo[b] = w.todo[b - m + 1]
    BY <1>4, <2>1, <2>2 DEF Shifts
  <2>4. b - m + 1 \in 1 .. a
    <3>1. a \in Nat
      BY <1>4 DEF Shifts
    <3> QED BY <2>3, <3>1
  <2> QED BY <1>3, <1>7, <2>3, <2>4
<1> QED BY <1>3, <1>5, <1>7

LEMMA KeepsAllToCome ==
  ASSUME NEW D, NEW pp, NEW w, WalkInv(D, pp, w), NEW v, NEW kids, WalkStep(D, pp, w, v, kids)
  PROVE  AllToCome(D, v) /\ ChildrenToCome(D, pp, v)
<1>1. w \in Walks(D) /\ Falling(w) /\ AllToCome(D, w) /\ ChildrenToCome(D, pp, w)
  BY DEF WalkInv
<1>2. Shown(v) = Shown(w) \cup {w.todo[1].task}
  BY <1>1, StepRows
<1>3. AllToCome(D, v)
  <2> SUFFICES ASSUME NEW t \in D, t \notin Shown(v)
               PROVE  \E a \in DOMAIN v.todo : v.todo[a].task = t /\ v.todo[a].depth = 2
    BY DEF AllToCome
  <2>1. PICK a \in DOMAIN w.todo : w.todo[a].task = t /\ w.todo[a].depth = 2
    BY <1>1, <1>2 DEF AllToCome
  <2>2. StillToCome(w, v, Len(kids))
    BY <1>1, StaysToCome
  <2> QED BY <2>1, <2>2 DEF StillToCome
<1>4. ChildrenToCome(D, pp, v)
  <2> SUFFICES ASSUME NEW c \in D, pp[c] \in Shown(v), c \notin Shown(v)
               PROVE  \E a \in DOMAIN v.todo : v.todo[a].task = c /\ v.todo[a].depth > 2
    BY DEF ChildrenToCome
  <2>1. CASE pp[c] \in Shown(w)
    <3>1. PICK a \in DOMAIN w.todo : w.todo[a].task = c /\ w.todo[a].depth > 2
      BY <1>1, <1>2, <2>1 DEF ChildrenToCome
    <3>2. StillToCome(w, v, Len(kids))
      BY <1>1, StaysToCome
    <3> QED BY <3>1, <3>2 DEF StillToCome
  <2>2. CASE pp[c] \notin Shown(w)
    <3>1. pp[c] = w.todo[1].task /\ w.todo[1].task \notin Shown(w)
      BY <1>2, <2>2
    <3>2. Shifts(D, pp, w, v, Len(kids))
      BY <1>1, StepTodo
    <3>3. PICK x \in DOMAIN v.todo : v.todo[x].task = c /\ v.todo[x].depth = w.todo[1].depth + 1
      BY <3>1, <3>2 DEF Shifts
    <3>4. w.todo[1].depth >= 2 /\ w.todo[1].depth \in Nat
      <4>1. w.todo \in Seq(Item(D)) /\ w.todo # <<>>
        BY <1>1 DEF Walks, WalkStep
      <4>2. w.todo[1] \in Item(D) /\ 1 \in DOMAIN w.todo
        BY <4>1, TailIs
      <4> QED BY <1>1, <4>2 DEF Item, Falling
    <3> QED BY <3>3, <3>4
  <2> QED BY <2>1, <2>2
<1> QED BY <1>3, <1>4

LEMMA WalkKeepsInv ==
  ASSUME NEW D, "none" \notin D, NEW pp \in [D -> D \cup {"none"}], NEW w, WalkInv(D, pp, w),
         NEW v, NEW kids, WalkStep(D, pp, w, v, kids)
  PROVE  WalkInv(D, pp, v)
<1>1. v \in Walks(D)
  BY DEF WalkStep
<1> QED BY <1>1, KeepsRowsOnce, KeepsPlaced, KeepsFalling, KeepsWaiting, KeepsRootsFirst, KeepsAllToCome DEF WalkInv

-----------------------------------------------------------------------------
(* The graph of the tasks that are known.                                   *)

Known(known)    == DOMAIN known \subseteq ToSet(ViewTasks) /\ \A t \in DOMAIN known : IsSeq(known[t].parents)
ParentOf(known) == [c \in DOMAIN known |-> PrimaryParent(known, c)]

LEMMA IDsAreDistinct ==
  /\ IsSeq(ViewTasks) /\ Distinct(ViewTasks) /\ IsSeq(ViewWorkers) /\ Distinct(ViewWorkers)
  /\ "none" \notin ToSet(ViewTasks) /\ IsFiniteSet(ToSet(ViewTasks))
<1>1. IsSeq(ViewTasks) /\ Distinct(ViewTasks)
  BY ViewAssumption DEF IsSeq, Distinct
<1>2. IsSeq(ViewWorkers) /\ Distinct(ViewWorkers)
  BY ViewAssumption DEF IsSeq, Distinct
<1> QED BY <1>1, <1>2, DistinctCard, ViewAssumption

LEMMA ParentsAreTasks ==
  ASSUME NEW known, Known(known)
  PROVE  /\ ParentOf(known) \in [DOMAIN known -> DOMAIN known \cup {"none"}]
         /\ "none" \notin DOMAIN known /\ IsFiniteSet(DOMAIN known)
<1>1. "none" \notin DOMAIN known /\ IsFiniteSet(DOMAIN known)
  BY IDsAreDistinct, FS_Subset DEF Known
<1>2. ASSUME NEW t \in DOMAIN known PROVE PrimaryParent(known, t) \in DOMAIN known \cup {"none"}
  <2>1. PICK parents : parents = known[t].parents
    OBVIOUS
  <2>2. PICK found : found = {i \in DOMAIN parents : parents[i] \in DOMAIN known \ {t}}
    OBVIOUS
  <2>3. found \in SUBSET Nat
    <3>1. parents \in Seq(ToSet(parents))
      BY <2>1 DEF Known, IsSeq
    <3>2. DOMAIN parents \subseteq Nat
      BY <3>1
    <3> QED BY <2>2, <3>2
  <2>4. PrimaryParent(known, t) = IF found = {} THEN "none" ELSE parents[CHOOSE i \in found : \A j \in found : i <= j]
    BY <2>1, <2>2 DEF PrimaryParent
  <2>5. CASE found = {}
    BY <2>4, <2>5
  <2>6. CASE found # {}
    <3>1. \E i \in found : \A j \in found : i <= j
      BY <2>3, <2>6, NatMin
    <3>2. PICK i : i = CHOOSE k \in found : \A j \in found : k <= j
      OBVIOUS
    <3>3. i \in found
      BY <3>1, <3>2
    <3> QED BY <2>2, <2>4, <2>6, <3>2, <3>3
  <2> QED BY <2>5, <2>6
<1> QED BY <1>1, <1>2 DEF ParentOf

LEMMA ChildrenAre ==
  ASSUME NEW known, Known(known), NEW t
  PROVE  /\ Children(known, t) \in Seq(DOMAIN known) /\ Distinct(Children(known, t))
         /\ ToSet(Children(known, t)) = {c \in DOMAIN known : ParentOf(known)[c] = t}
<1>1. PICK below : below = {c \in DOMAIN known : PrimaryParent(known, c) = t}
  OBVIOUS
<1>2. below = {c \in DOMAIN known : ParentOf(known)[c] = t} /\ below \subseteq ToSet(ViewTasks)
  BY <1>1 DEF ParentOf, Known
<1>3. PICK s : s = Sorted(ViewTasks, below)
  OBVIOUS
<1>4. IsSeq(s) /\ Distinct(s) /\ ToSet(s) = below
  BY <1>2, <1>3, IDsAreDistinct, SortedHasMembers
<1>5. s \in Seq(DOMAIN known)
  <2>1. s \in Seq(below) /\ below \subseteq DOMAIN known
    BY <1>1, <1>4 DEF IsSeq
  <2> QED BY <2>1
<1>6. Children(known, t) = s
  BY <1>1, <1>3 DEF Children, SortedTasks
<1> QED BY <1>2, <1>4, <1>5, <1>6

\* A walk goes on as Emit says.
LEMMA EmitSteps ==
  ASSUME NEW known, Known(known), NEW w \in Walks(DOMAIN known), w.todo # <<>>
  PROVE  \E kids : /\ WalkStep(DOMAIN known, ParentOf(known), w, Emit(known, w), kids) /\ Distinct(kids)
<1>1. PICK D : D = DOMAIN known
  OBVIOUS
<1>2. w.rows \in Seq(Item(D)) /\ w.todo \in Seq(Item(D)) /\ w = [rows |-> w.rows, todo |-> w.todo]
  BY <1>1 DEF Walks
<1>3. PICK next \in Item(D) : next = w.todo[1] /\ next = Head(w.todo)
  BY <1>2, TailIs
<1>4. next.task \in D /\ next.depth \in Nat
  BY DEF Item
<1>7. PICK d \in Nat : d = next.depth + 1
  BY <1>4
<1>8. ASSUME NEW kids \in Seq(D)
      PROVE  /\ At(kids, d) \o Tail(w.todo) \in Seq(Item(D))
             /\ Follows(w.todo, kids, w.todo[1].depth + 1, At(kids, d) \o Tail(w.todo))
  <2>1. PICK todo \in Seq(Item(D)) : todo = w.todo /\ todo # <<>>
    BY <1>2
  <2>2. /\ At(kids, d) \o Tail(todo) \in Seq(Item(D))
        /\ Follows(todo, kids, d, At(kids, d) \o Tail(todo))
    BY <2>1, PutInFront
  <2> QED BY <1>3, <1>7, <2>1, <2>2
<1>5. CASE next.task \in Shown(w)
  <2>1. Emit(known, w) = [rows |-> w.rows, todo |-> Tail(w.todo)]
    <3>1. \E i \in DOMAIN w.rows : w.rows[i].task = next.task
      BY <1>5 DEF Shown
    <3>2. Emit(known, w) = [w EXCEPT !.todo = Tail(w.todo)]
      BY <1>3, <3>1 DEF Emit
    <3> QED BY <1>2, <3>2
  <2>2. PICK kids \in Seq(D) : kids = <<>> /\ Distinct(kids)
    <3>1. <<>> \in Seq(D) /\ Distinct(<<>>)
      BY DEF Distinct
    <3> QED BY <3>1
  <2>3. At(kids, d) \o Tail(w.todo) = Tail(w.todo)
    <3>1. At(kids, d) = <<>>
      <4>1. /\ At(kids, d) \in Seq(Item(D)) /\ Len(At(kids, d)) = Len(kids)
        BY AtPlaces
      <4>2. \A s \in Seq(Item(D)) : Len(s) = 0 => s = <<>>
        OBVIOUS
      <4>3. Len(kids) = 0
        BY <2>2
      <4> QED BY <4>1, <4>2, <4>3
    <3>2. \A s \in Seq(Item(D)) : <<>> \o s = s
      OBVIOUS
    <3> QED BY <1>2, <3>1, <3>2, TailIs
  <2>4. Tail(w.todo) \in Seq(Item(D)) /\ Follows(w.todo, kids, w.todo[1].depth + 1, Tail(w.todo))
    BY <1>8, <2>3
  <2>5. Emit(known, w) \in Walks(D)
    BY <1>2, <2>1, <2>4 DEF Walks
  <2>6. WalkStep(D, ParentOf(known), w, Emit(known, w), kids)
    BY <1>3, <1>5, <2>1, <2>2, <2>4, <2>5 DEF WalkStep
  <2> QED BY <1>1, <2>2, <2>6
<1>6. CASE next.task \notin Shown(w)
  <2>1. PICK kids \in Seq(D) : /\ kids = Children(known, next.task) /\ Distinct(kids)
                               /\ ToSet(kids) = {c \in D : ParentOf(known)[c] = next.task}
    BY <1>1, ChildrenAre
  <2>2. Emit(known, w) = [rows |-> Append(w.rows, next), todo |-> At(kids, d) \o Tail(w.todo)]
    <3>1. ~ \E i \in DOMAIN w.rows : w.rows[i].task = next.task
      BY <1>6 DEF Shown
    <3> QED BY <1>3, <1>7, <2>1, <3>1 DEF Emit
  <2>3. PICK todo \in Seq(Item(D)) : /\ todo = At(kids, d) \o Tail(w.todo)
                                     /\ Follows(w.todo, kids, w.todo[1].depth + 1, todo)
    BY <1>8
  <2>4. Append(w.rows, next) \in Seq(Item(D))
    BY <1>2
  <2>5. Emit(known, w) \in Walks(D)
    BY <2>2, <2>3, <2>4 DEF Walks
  <2>6. Emit(known, w).rows = Append(w.rows, next) /\ Emit(known, w).todo = todo
    BY <2>2, <2>3
  <2>7. WalkStep(D, ParentOf(known), w, Emit(known, w), kids)
    BY <1>3, <1>6, <2>1, <2>3, <2>5, <2>6 DEF WalkStep
  <2> QED BY <1>1, <2>1, <2>7
<1> QED BY <1>5, <1>6

\* Every task comes at most once as a root or a child, and once more: what is left to come after
\* n steps.
Below(D, pp, above) == {c \in D : pp[c] \in above}
CallsLeft(D, pp, w, n) ==
  \/ w.todo = <<>>
  \/ n + Len(w.todo) <= Cardinality(Below(D, pp, {"none"})) + Cardinality(D) + Cardinality(Below(D, pp, Shown(w)))

LEMMA BelowIs ==
  ASSUME NEW D, IsFiniteSet(D), NEW pp, NEW S, NEW T, S \cap T = {}
  PROVE  /\ IsFiniteSet(Below(D, pp, S)) /\ Cardinality(Below(D, pp, S)) \in Nat
         /\ Cardinality(Below(D, pp, S \cup T)) = Cardinality(Below(D, pp, S)) + Cardinality(Below(D, pp, T))
         /\ Cardinality(Below(D, pp, S)) <= Cardinality(D) /\ Cardinality(D) \in Nat
<1>1. \A U : Below(D, pp, U) \in SUBSET D
  BY DEF Below
<1>2. \A U : IsFiniteSet(Below(D, pp, U)) /\ Cardinality(Below(D, pp, U)) \in Nat
  BY <1>1, FS_Subset, FS_CardinalityType
<1>3. Below(D, pp, S \cup T) = Below(D, pp, S) \cup Below(D, pp, T)
  BY DEF Below
<1>4. Below(D, pp, S) \cap Below(D, pp, T) = {}
  BY DEF Below
<1>5. Cardinality(Below(D, pp, S) \cap Below(D, pp, T)) = 0
  BY <1>4, FS_EmptySet
<1>6. Cardinality(Below(D, pp, S \cup T)) = Cardinality(Below(D, pp, S)) + Cardinality(Below(D, pp, T)) - 0
  BY <1>2, <1>3, <1>5, FS_Union
<1>7. Cardinality(Below(D, pp, S)) <= Cardinality(D) /\ Cardinality(D) \in Nat
  BY <1>1, FS_Subset, FS_CardinalityType
<1> QED BY <1>2, <1>6, <1>7

LEMMA KeepsBudget ==
  ASSUME NEW D, IsFiniteSet(D), NEW pp, NEW w \in Walks(D), NEW v, NEW kids, WalkStep(D, pp, w, v, kids),
         Distinct(kids), NEW n \in Nat, CallsLeft(D, pp, w, n)
  PROVE  CallsLeft(D, pp, v, n + 1)
<1>1. PICK m \in Nat : m = Len(kids) /\ Shifts(D, pp, w, v, m)
  BY StepTodo
<1>2. Len(v.todo) = Len(w.todo) - 1 + m /\ Len(w.todo) \in Nat \ {0} /\ Len(v.todo) \in Nat
  BY <1>1 DEF Shifts
<1>3. PICK all \in Nat : all = Cardinality(Below(D, pp, {"none"})) + Cardinality(D)
  <2>1. Cardinality(Below(D, pp, {"none"})) \in Nat /\ Cardinality(D) \in Nat
    BY BelowIs, {"none"} \cap {} = {}
  <2> QED BY <2>1
<1>4. PICK b \in Nat : b = Cardinality(Below(D, pp, Shown(w))) /\ n + Len(w.todo) <= all + b
  <2>1. Cardinality(Below(D, pp, Shown(w))) \in Nat
    BY BelowIs, Shown(w) \cap {} = {}
  <2>2. w.todo # <<>>
    BY DEF WalkStep
  <2> QED BY <1>3, <2>1, <2>2 DEF CallsLeft
<1>5. Cardinality(Below(D, pp, Shown(v))) = b + m
  <2>1. Shown(v) = Shown(w) \cup {w.todo[1].task}
    BY StepRows
  <2>2. CASE kids = <<>> /\ w.todo[1].task \in Shown(w)
    <3>1. Shown(v) = Shown(w) /\ m = 0
      BY <1>1, <2>1, <2>2
    <3> QED BY <1>4, <3>1
  <2>3. CASE w.todo[1].task \notin Shown(w) /\ ToSet(kids) = {c \in D : pp[c] = w.todo[1].task}
    <3>1. ToSet(kids) = Below(D, pp, {w.todo[1].task})
      BY <2>3 DEF Below
    <3>2. IsSeq(kids)
      <4>1. kids \in Seq(D)
        BY DEF WalkStep
      <4> QED BY <4>1, SeqsAreSeqs
    <3>3. Cardinality(Below(D, pp, {w.todo[1].task})) = m
      BY <1>1, <3>1, <3>2, DistinctCard
    <3>4. Shown(w) \cap {w.todo[1].task} = {}
      BY <2>3
    <3>5. /\ Cardinality(Below(D, pp, Shown(w) \cup {w.todo[1].task}))
               = Cardinality(Below(D, pp, Shown(w))) + Cardinality(Below(D, pp, {w.todo[1].task}))
      BY <3>4, BelowIs
    <3> QED BY <1>4, <2>1, <3>3, <3>5
  <2> QED BY <2>2, <2>3 DEF WalkStep
<1>6. n + 1 + Len(v.todo) <= all + (b + m)
  <2>1. PICK x \in Nat, y \in Nat : x = Len(w.todo) /\ y = Len(v.todo)
    BY <1>2
  <2>2. y = x - 1 + m /\ n + x <= all + b
    BY <1>2, <1>4, <2>1
  <2>3. \A p, q, r, z \in Nat : n + x <= p + q /\ z = x - 1 + r => n + 1 + z <= p + (q + r)
    OBVIOUS
  <2>4. n + 1 + y <= all + (b + m)
    BY <2>2, <2>3
  <2> QED BY <2>1, <2>4
<1> QED BY <1>3, <1>5, <1>6 DEF CallsLeft

\* The walk begins with the roots and then all tasks.
LEMMA WalkStarts ==
  ASSUME NEW known, Known(known), NEW w,
         w = [rows |-> <<>>, todo |-> At(Roots(known) \o SortedTasks(DOMAIN known), 2)]
  PROVE  WalkInv(DOMAIN known, ParentOf(known), w) /\ CallsLeft(DOMAIN known, ParentOf(known), w, 0)
<1>1. PICK D : D = DOMAIN known
  OBVIOUS
<1>2. PICK pp : pp = ParentOf(known)
  OBVIOUS
<1>3. PICK roots \in Seq(D) : /\ roots = Roots(known) /\ Distinct(roots)
                              /\ ToSet(roots) = {c \in D : pp[c] = "none"}
  BY <1>1, <1>2, ChildrenAre DEF Roots
<1>4. PICK tops \in Seq(D) : tops = SortedTasks(DOMAIN known) /\ Distinct(tops) /\ ToSet(tops) = D
  <2>1. PICK s : s = Sorted(ViewTasks, D)
    OBVIOUS
  <2>2. D \subseteq ToSet(ViewTasks)
    BY <1>1 DEF Known
  <2>3. IsSeq(s) /\ Distinct(s) /\ ToSet(s) = D
    <3>1. IsSeq(s) /\ Distinct(s) /\ ToSet(s) = ToSet(ViewTasks) \cap D
      BY <2>1, IDsAreDistinct, SortedHasMembers
    <3> QED BY <2>2, <3>1
  <2> QED BY <1>1, <2>1, <2>3 DEF IsSeq, SortedTasks
<1>5. PICK k \in Nat : k = Len(roots) /\ DOMAIN roots = 1 .. k
  OBVIOUS
<1>6. PICK l \in Nat : l = Len(tops) /\ DOMAIN tops = 1 .. l
  OBVIOUS
<1>7. PICK all \in Seq(D) : /\ all = roots \o tops /\ DOMAIN all = 1 .. (k + l) /\ Len(all) = k + l
                            /\ \A i \in 1 .. k : all[i] = roots[i]
                            /\ \A i \in k + 1 .. (k + l) : all[i] = tops[i - k]
  <2>1. roots \o tops \in Seq(D)
    OBVIOUS
  <2>2. PICK all \in Seq(D) : all = roots \o tops
    BY <2>1
  <2>3. /\ DOMAIN all = 1 .. Len(roots) + Len(tops) /\ Len(all) = Len(roots) + Len(tops)
        /\ \A i \in 1 .. Len(roots) : all[i] = roots[i]
        /\ \A i \in Len(roots) + 1 .. Len(roots) + Len(tops) : all[i] = tops[i - Len(roots)]
    BY <2>2, JoinIs
  <2> QED BY <1>5, <1>6, <2>2, <2>3
<1>8. /\ w.todo \in Seq(Item(D)) /\ Len(w.todo) = k + l /\ DOMAIN w.todo = 1 .. (k + l)
      /\ \A i \in 1 .. (k + l) : w.todo[i] = [task |-> all[i], depth |-> 2]
  <2>1. w.todo = At(all, 2)
    BY <1>3, <1>4, <1>7
  <2>2. /\ At(all, 2) \in Seq(Item(D)) /\ Len(At(all, 2)) = Len(all) /\ DOMAIN At(all, 2) = DOMAIN all
        /\ \A i \in DOMAIN all : At(all, 2)[i] = [task |-> all[i], depth |-> 2]
    BY 2 \in Nat, AtPlaces
  <2> QED BY <1>7, <2>1, <2>2
<1>9. w.rows = <<>> /\ Shown(w) = {} /\ w \in Walks(D) /\ DOMAIN w.rows = {}
  <2>1. w.rows = <<>> /\ DOMAIN w.rows = {} /\ w.rows \in Seq(Item(D))
    OBVIOUS
  <2> QED BY <1>8, <2>1 DEF Shown, Walks
<1>10. RowsOnce(w) /\ RowsPlaced(D, pp, w)
  BY <1>9 DEF RowsOnce, RowsPlaced
<1>11. Falling(w) /\ Waiting(pp, w) /\ ChildrenToCome(D, pp, w)
  <2>1. ASSUME NEW i \in DOMAIN w.todo PROVE w.todo[i].depth = 2
    <3>1. w.todo[i] = [task |-> all[i], depth |-> 2]
      BY <1>8
    <3> QED BY <3>1
  <2>2. Falling(w)
    BY <2>1 DEF Falling
  <2>3. Waiting(pp, w)
    BY <2>1 DEF Waiting
  <2>4. ChildrenToCome(D, pp, w)
    BY <1>9 DEF ChildrenToCome
  <2> QED BY <2>2, <2>3, <2>4
<1>12. RootsFirst(D, pp, w)
  <2> SUFFICES ASSUME NEW r \in D, pp[r] = "none"
               PROVE  \E a \in DOMAIN w.todo : /\ w.todo[a].task = r /\ w.todo[a].depth = 2
                                               /\ \A b \in 1 .. a : w.todo[b].depth = 2 => pp[w.todo[b].task] = "none"
    BY DEF RootsFirst
  <2>1. r \in ToSet(roots)
    BY <1>3
  <2>2. PICK a \in 1 .. k : roots[a] = r
    BY <1>5, <2>1 DEF ToSet
  <2>3. \A b \in 1 .. k : w.todo[b].task = roots[b] /\ w.todo[b].depth = 2 /\ roots[b] \in ToSet(roots)
    <3> SUFFICES ASSUME NEW b \in 1 .. k
                 PROVE  w.todo[b].task = roots[b] /\ w.todo[b].depth = 2 /\ roots[b] \in ToSet(roots)
      OBVIOUS
    <3>1. b \in 1 .. (k + l) /\ w.todo[b] = [task |-> all[b], depth |-> 2] /\ all[b] = roots[b]
      BY <1>7, <1>8
    <3> QED BY <1>5, <3>1 DEF ToSet
  <2>4. \A b \in 1 .. a : pp[w.todo[b].task] = "none"
    BY <1>3, <2>3
  <2>5. a \in DOMAIN w.todo /\ w.todo[a].task = r /\ w.todo[a].depth = 2
    <3>1. a \in 1 .. (k + l)
      <4>1. \A y, z \in Nat : \A x \in 1 .. y : x \in 1 .. (y + z)
        OBVIOUS
      <4> QED BY <4>1, Zenon
    <3> QED BY <1>8, <2>2, <2>3, <3>1
  <2> QED BY <2>4, <2>5
<1>13. AllToCome(D, w)
  <2> SUFFICES ASSUME NEW t \in D
               PROVE  \E a \in DOMAIN w.todo : w.todo[a].task = t /\ w.todo[a].depth = 2
    BY DEF AllToCome
  <2>1. PICK i \in 1 .. l : tops[i] = t
    BY <1>4, <1>6 DEF ToSet
  <2>2. PICK a \in 1 .. (k + l) : a \in k + 1 .. (k + l) /\ a - k = i
    <3>1. k + i \in 1 .. (k + l) /\ k + i \in k + 1 .. (k + l) /\ k + i - k = i
      OBVIOUS
    <3> QED BY <3>1
  <2>3. w.todo[a] = [task |-> all[a], depth |-> 2] /\ all[a] = t
    BY <1>7, <1>8, <2>1, <2>2
  <2>4. a \in DOMAIN w.todo /\ w.todo[a].task = t /\ w.todo[a].depth = 2
    BY <1>8, <2>3
  <2> QED BY <2>4
<1>14. CallsLeft(D, pp, w, 0)
  <2>1. k = Cardinality(Below(D, pp, {"none"}))
    <3>1. ToSet(roots) = Below(D, pp, {"none"})
      BY <1>3 DEF Below
    <3> QED BY <1>3, <1>5, <3>1, SeqsAreSeqs, DistinctCard
  <2>2. l = Cardinality(D)
    BY <1>4, <1>6, SeqsAreSeqs, DistinctCard
  <2>3. Cardinality(Below(D, pp, Shown(w))) \in Nat
    <3>1. IsFiniteSet(D)
      BY <1>1, ParentsAreTasks
    <3> QED BY <3>1, BelowIs, Shown(w) \cap {} = {}
  <2>4. 0 + (k + l) <= k + l + Cardinality(Below(D, pp, Shown(w)))
    BY <2>3
  <2> QED BY <1>8, <2>1, <2>2, <2>4 DEF CallsLeft
<1> QED BY <1>1, <1>2, <1>9, <1>10, <1>11, <1>12, <1>13, <1>14 DEF WalkInv

LEMMA EmitType ==
  ASSUME NEW known, Known(known), NEW w \in Walks(DOMAIN known)
  PROVE  Emit(known, w) \in Walks(DOMAIN known)
<1>1. CASE w.todo = <<>>
  BY <1>1 DEF Emit
<1>2. CASE w.todo # <<>>
  BY <1>2, EmitSteps DEF WalkStep
<1> QED BY <1>1, <1>2

LEMMA EmitKeepsInv ==
  ASSUME NEW known, Known(known), NEW w, NEW n \in Nat,
         WalkInv(DOMAIN known, ParentOf(known), w), CallsLeft(DOMAIN known, ParentOf(known), w, n)
  PROVE  /\ WalkInv(DOMAIN known, ParentOf(known), Emit(known, w))
         /\ CallsLeft(DOMAIN known, ParentOf(known), Emit(known, w), n + 1)
<1>1. CASE w.todo = <<>>
  <2>1. Emit(known, w) = w
    BY <1>1 DEF Emit
  <2> QED BY <1>1, <2>1 DEF CallsLeft
<1>2. CASE w.todo # <<>>
  <2>1. w \in Walks(DOMAIN known)
    BY DEF WalkInv
  <2>2. PICK kids : WalkStep(DOMAIN known, ParentOf(known), w, Emit(known, w), kids) /\ Distinct(kids)
    BY <1>2, <2>1, EmitSteps
  <2>3. WalkInv(DOMAIN known, ParentOf(known), Emit(known, w))
    BY <2>2, ParentsAreTasks, WalkKeepsInv
  <2>4. CallsLeft(DOMAIN known, ParentOf(known), Emit(known, w), n + 1)
    BY <2>1, <2>2, ParentsAreTasks, KeepsBudget
  <2> QED BY <2>3, <2>4
<1> QED BY <1>1, <1>2

\* The rows of the graph are those of a walk that has nothing left to come.
LEMMA WalkEnds ==
  ASSUME NEW known, Known(known)
  PROVE  \E w : WalkInv(DOMAIN known, ParentOf(known), w) /\ w.todo = <<>> /\ GraphRows(known) = w.rows
<1>1. PICK D : D = DOMAIN known
  OBVIOUS
<1>2. PICK pp : pp = ParentOf(known)
  OBVIOUS
<1>3. PICK N \in Nat : N = 2 * Cardinality(D)
  <2>1. Cardinality(D) \in Nat
    BY <1>1, ParentsAreTasks, FS_CardinalityType
  <2> QED BY <2>1
<1>4. PICK Q : Q = Walks(D)
  OBVIOUS
<1>5. PICK start \in Q : /\ start = [rows |-> <<>>, todo |-> At(Roots(known) \o SortedTasks(DOMAIN known), 2)]
                         /\ WalkInv(D, pp, start) /\ CallsLeft(D, pp, start, 0)
  <2>1. PICK start : start = [rows |-> <<>>, todo |-> At(Roots(known) \o SortedTasks(DOMAIN known), 2)]
    OBVIOUS
  <2>2. WalkInv(D, pp, start) /\ CallsLeft(D, pp, start, 0)
    BY <1>1, <1>2, <2>1, WalkStarts
  <2>3. start \in Q
    BY <1>4, <2>2 DEF WalkInv
  <2> QED BY <2>1, <2>2, <2>3
<1>6. PICK step : step = [n \in 1 .. N |-> [w \in Q |-> Emit(known, w)]]
  OBVIOUS
<1>7. step \in [1 .. N -> [Q -> Q]] /\ \A n \in 1 .. N : \A w \in Q : step[n][w] = Emit(known, w)
  <2>1. \A w \in Q : Emit(known, w) \in Q
    BY <1>1, <1>4, EmitType
  <2> QED BY <1>6, <2>1
<1>8. PICK f \in [0 .. N -> Q] : f[0] = start /\ \A n \in 1 .. N : f[n] = step[n][f[n - 1]]
  <2>1. step \in [1 .. N -> [Q -> Q]]
    BY <1>7
  <2>2. \E f \in [0 .. N -> Q] : f[0] = start /\ \A n \in 1 .. N : f[n] = step[n][f[n - 1]]
    BY ONLY <2>1, start \in Q, N \in Nat, Iterates
  <2> QED BY <2>2
<1>9. \A n \in 1 .. N : f[n] = Emit(known, f[n - 1])
  BY <1>7, <1>8
<1> DEFINE walk[n \in 0 .. N] == IF n = 0 THEN start ELSE Emit(known, walk[n - 1])
<1>10. GraphRows(known) = walk[N].rows
  BY <1>1, <1>3, <1>5 DEF GraphRows
<1>11. walk = [n \in 0 .. N |-> IF n = 0 THEN start ELSE Emit(known, walk[n - 1])]
  <2>1. f = [n \in 0 .. N |-> IF n = 0 THEN start ELSE Emit(known, f[n - 1])]
    BY <1>8, <1>9
  <2> QED BY <2>1
<1> HIDE DEF walk
<1>12. PICK T : T = {n \in 0 .. N : WalkInv(D, pp, walk[n]) /\ CallsLeft(D, pp, walk[n], n)}
  OBVIOUS
<1>13. 0 \in T
  BY <1>5, <1>11, <1>12
<1>14. ASSUME NEW n \in 1 .. N, n - 1 \in T PROVE n \in T
  <2>1. walk[n] = Emit(known, walk[n - 1])
    BY <1>11
  <2>2. WalkInv(D, pp, walk[n - 1]) /\ CallsLeft(D, pp, walk[n - 1], n - 1) /\ n - 1 \in Nat
    BY <1>12, <1>14
  <2>3. WalkInv(D, pp, walk[n]) /\ CallsLeft(D, pp, walk[n], n - 1 + 1)
    BY <1>1, <1>2, <2>1, <2>2, EmitKeepsInv
  <2>4. n - 1 + 1 = n
    OBVIOUS
  <2> QED BY <1>12, <2>3, <2>4
<1>15. \A n \in 0 .. N : n \in T
  BY <1>13, <1>14, UpTo
<1>16. WalkInv(D, pp, walk[N]) /\ CallsLeft(D, pp, walk[N], N)
  BY <1>12, <1>15
<1>17. walk[N].todo = <<>>
  <2> SUFFICES ASSUME walk[N].todo # <<>> PROVE FALSE
    OBVIOUS
  <2>1. PICK d \in Nat : d = Cardinality(D)
    BY <1>1, ParentsAreTasks, FS_CardinalityType
  <2>2. IsFiniteSet(D) /\ {"none"} \cap Shown(walk[N]) = {}
    <3>1. walk[N].rows \in Seq(Item(D))
      BY <1>16 DEF WalkInv, Walks
    <3>2. \A i \in DOMAIN walk[N].rows : walk[N].rows[i] \in Item(D)
      BY <3>1
    <3>3. \A i \in DOMAIN walk[N].rows : walk[N].rows[i].task \in D
      BY <3>2 DEF Item
    <3> QED BY <1>1, <3>3, ParentsAreTasks DEF Shown
  <2>3. /\ Cardinality(Below(D, pp, {"none"} \cup Shown(walk[N])))
             = Cardinality(Below(D, pp, {"none"})) + Cardinality(Below(D, pp, Shown(walk[N])))
        /\ Cardinality(Below(D, pp, {"none"})) \in Nat
    BY <2>2, BelowIs
  <2>4. Cardinality(Below(D, pp, {"none"} \cup Shown(walk[N]))) <= d
    BY <2>1, <2>2, BelowIs, ({"none"} \cup Shown(walk[N])) \cap {} = {}
  <2>5. PICK a \in Nat, b \in Nat : /\ a = Cardinality(Below(D, pp, {"none"}))
                                    /\ b = Cardinality(Below(D, pp, Shown(walk[N]))) /\ a + b <= d
    <3>1. Cardinality(Below(D, pp, Shown(walk[N]))) \in Nat
      BY <2>2, BelowIs, Shown(walk[N]) \cap {} = {}
    <3> QED BY <2>3, <2>4, <3>1
  <2>6. N + Len(walk[N].todo) <= a + d + b
    BY <1>16, <2>1, <2>5 DEF CallsLeft
  <2>7. Len(walk[N].todo) \in Nat \ {0}
    <3>1. walk[N].todo \in Seq(Item(D))
      BY <1>16 DEF WalkInv, Walks
    <3> QED BY <3>1, TailIs
  <2>8. N = 2 * d
    BY <1>3, <2>1
  <2> QED BY <2>5, <2>6, <2>7, <2>8
<1> QED BY <1>1, <1>2, <1>10, <1>16, <1>17

LEMMA GraphIsWhole == ASSUME NEW known, Known(known) PROVE GraphHasEveryTask(known) /\ IsSeq(GraphRows(known))
<1>1. PICK D : D = DOMAIN known
  OBVIOUS
<1>2. PICK pp : pp = ParentOf(known)
  OBVIOUS
<1>3. PICK w : WalkInv(D, pp, w) /\ w.todo = <<>> /\ GraphRows(known) = w.rows
  BY <1>1, <1>2, WalkEnds
<1>4. PICK rows \in Seq(Item(D)) : rows = GraphRows(known) /\ rows = w.rows
  BY <1>3 DEF WalkInv, Walks
<1>5. PICK n \in Nat : n = Len(rows) /\ DOMAIN rows = 1 .. n
  OBVIOUS
<1>6. \A i \in 1 .. n : rows[i].task \in D
  <2>1. \A i \in 1 .. n : rows[i] \in Item(D)
    BY <1>5
  <2> QED BY <2>1 DEF Item
<1>7. {rows[i].task : i \in DOMAIN rows} = D
  <2>1. \A t \in D : t \in Shown(w)
    BY <1>3 DEF WalkInv, AllToCome
  <2>2. Shown(w) = {rows[i].task : i \in DOMAIN rows}
    BY <1>4 DEF Shown
  <2> QED BY <1>5, <1>6, <2>1, <2>2
<1>8. Len(rows) = Cardinality(D)
  <2>1. PICK s : s = [i \in 1 .. n |-> rows[i].task]
    OBVIOUS
  <2>2. s \in Seq(D) /\ Len(s) = n /\ DOMAIN s = 1 .. n
    <3>1. s \in [1 .. n -> D]
      BY <1>6, <2>1
    <3> QED BY <3>1
  <2>3. ToSet(s) = D
    BY <1>5, <1>7, <2>1, <2>2 DEF ToSet
  <2>4. Distinct(s)
    BY <1>3, <1>4, <1>5, <2>1, <2>2 DEF WalkInv, RowsOnce, Distinct
  <2>5. IsSeq(s)
    BY <2>2, SeqsAreSeqs
  <2> QED BY <1>5, <2>2, <2>3, <2>4, <2>5, DistinctCard
<1>9. ASSUME NEW i \in DOMAIN rows
      PROVE  \/ \E j \in DOMAIN rows :
                   /\ j < i /\ rows[i].depth = rows[j].depth + 1
                   /\ rows[j].task = PrimaryParent(known, rows[i].task)
                   /\ \A k \in (j + 1) .. (i - 1) : rows[k].depth > rows[j].depth
             \/ /\ rows[i].depth = 2
                /\ PrimaryParent(known, rows[i].task) = "none" \/ NeverEnding(known, rows[i].task)
  <2>1. \A c \in D : pp[c] = PrimaryParent(known, c)
    BY <1>1, <1>2 DEF ParentOf
  <2>2. pp[rows[i].task] = PrimaryParent(known, rows[i].task) /\ rows[i].task \in D
    BY <1>5, <1>6, <2>1
  <2>3. HasPlace(D, pp, rows, i)
    BY <1>3, <1>4 DEF WalkInv, RowsPlaced
  <2>4. Endless(D, pp, rows[i].task) => NeverEnding(known, rows[i].task)
    <3> SUFFICES ASSUME NEW above \in SUBSET D, rows[i].task \in above, \A x \in above : pp[x] \in above
                 PROVE  NeverEnding(known, rows[i].task)
      BY DEF Endless
    <3>1. \A x \in above : PrimaryParent(known, x) \in above
      BY <2>1
    <3> QED BY <1>1, <3>1 DEF NeverEnding
  <2> QED BY <2>2, <2>3, <2>4 DEF HasPlace, IsUnder
<1>10. GraphHasEveryTask(known)
  BY <1>1, <1>4, <1>7, <1>8, <1>9 DEF GraphHasEveryTask
<1> QED BY <1>4, <1>10, SeqsAreSeqs

-----------------------------------------------------------------------------
(* The queue.                                                               *)

\* A finite set can be put in any order that is strict and total.
LEMMA Ordered ==
  ASSUME NEW D, IsFiniteSet(D), NEW Before,
         \A t \in D : <<t, t>> \notin Before,
         \A t, u, v \in D : <<t, u>> \in Before /\ <<u, v>> \in Before => <<t, v>> \in Before,
         \A t, u \in D : t # u => <<t, u>> \in Before \/ <<u, t>> \in Before
  PROVE  \E queue \in [1 .. Cardinality(D) -> D] :
            \A i, j \in 1 .. Cardinality(D) : i < j => <<queue[i], queue[j]>> \in Before
<1>1. PICK n \in Nat : n = Cardinality(D)
  BY FS_CardinalityType
<1>2. PICK below : below = [t \in D |-> {u \in D : <<u, t>> \in Before}]
  OBVIOUS
<1>3. PICK place : place = [t \in D |-> Cardinality(below[t]) + 1]
  OBVIOUS
<1>4. \A t \in D : IsFiniteSet(below[t]) /\ Cardinality(below[t]) \in Nat
  <2> SUFFICES ASSUME NEW t \in D PROVE IsFiniteSet(below[t]) /\ Cardinality(below[t]) \in Nat
    OBVIOUS
  <2>1. below[t] \in SUBSET D
    BY <1>2
  <2> QED BY <2>1, FS_Subset, FS_CardinalityType
<1>5. ASSUME NEW t \in D PROVE place[t] \in 1 .. n
  <2>1. below[t] \in SUBSET (D \ {t})
    BY <1>2
  <2>2. IsFiniteSet(D \ {t}) /\ Cardinality(D \ {t}) = n - 1
    BY <1>1, FS_RemoveElement
  <2>3. Cardinality(below[t]) <= n - 1
    BY <2>1, <2>2, FS_Subset
  <2>4. place[t] = Cardinality(below[t]) + 1
    BY <1>3
  <2> QED BY <1>1, <1>4, <2>3, <2>4
<1>6. ASSUME NEW t \in D, NEW u \in D, <<t, u>> \in Before PROVE place[t] < place[u]
  <2>1. below[t] \in SUBSET (below[u] \ {t}) /\ t \in below[u]
    BY <1>2, <1>6
  <2>2. IsFiniteSet(below[u] \ {t}) /\ Cardinality(below[u] \ {t}) = Cardinality(below[u]) - 1
    BY <1>4, <2>1, FS_RemoveElement
  <2>3. Cardinality(below[t]) <= Cardinality(below[u]) - 1
    BY <2>1, <2>2, FS_Subset
  <2>4. Cardinality(below[t]) \in Nat /\ Cardinality(below[u]) \in Nat
    BY <1>4
  <2>5. place[t] = Cardinality(below[t]) + 1 /\ place[u] = Cardinality(below[u]) + 1
    BY <1>3
  <2> QED BY <2>3, <2>4, <2>5
<1>7. \A t \in D : place[t] \in 1 .. n
  BY <1>5
<1>8. ASSUME NEW t \in D, NEW u \in D, t # u PROVE place[t] # place[u]
  <2>1. place[t] \in Int /\ place[u] \in Int
    BY <1>7
  <2>2. place[t] < place[u] \/ place[u] < place[t]
    <3>1. CASE <<t, u>> \in Before
      BY <1>6, <3>1
    <3>2. CASE <<u, t>> \in Before
      BY <1>6, <3>2
    <3> QED BY <1>8, <3>1, <3>2
  <2> QED BY <2>1, <2>2
<1>9. place \in Injection(D, 1 .. n)
  <2>1. place \in [D -> 1 .. n]
    BY <1>3, <1>7
  <2> QED BY <1>8, <2>1 DEF Injection, IsInjective
<1>10. place \in Surjection(D, 1 .. n)
  <2>1. IsFiniteSet(1 .. n) /\ Cardinality(1 .. n) = n
    BY FS_Interval
  <2> QED BY <1>1, <1>9, <2>1, FS_Injection
<1>11. PICK queue : queue = [i \in 1 .. n |-> CHOOSE t \in D : place[t] = i]
  OBVIOUS
<1>12. \A i \in 1 .. n : queue[i] \in D /\ place[queue[i]] = i
  <2>1. \A i \in 1 .. n : \E t \in D : place[t] = i
    BY <1>10 DEF Surjection
  <2> QED BY <1>11, <2>1
<1>13. ASSUME NEW i \in 1 .. n, NEW j \in 1 .. n, i < j PROVE <<queue[i], queue[j]>> \in Before
  <2>1. queue[i] \in D /\ queue[j] \in D /\ place[queue[i]] = i /\ place[queue[j]] = j
    BY <1>12
  <2>2. queue[i] # queue[j]
    BY <1>13, <2>1
  <2>3. ~ (<<queue[j], queue[i]>> \in Before)
    <3> SUFFICES ASSUME <<queue[j], queue[i]>> \in Before PROVE FALSE
      OBVIOUS
    <3>1. place[queue[j]] < place[queue[i]]
      BY <1>6, <2>1
    <3> QED BY <1>13, <2>1, <3>1
  <2> QED BY <2>1, <2>2, <2>3
<1>14. queue \in [1 .. n -> D]
  BY <1>11, <1>12
<1> QED BY <1>1, <1>13, <1>14

\* What is known of the tasks is what the monitor can have made of it.
Tasks(known) ==
  /\ Known(known)
  /\ \A t \in DOMAIN known : known[t].outputs \in 0 .. OutputBufCap /\ known[t].place \in Nat \X Int

LEMMA AheadIsAnOrder ==
  ASSUME NEW known, Tasks(known)
  PROVE  /\ \A t \in DOMAIN known : ~Ahead(known, t, t)
         /\ \A t, u, v \in DOMAIN known : Ahead(known, t, u) /\ Ahead(known, u, v) => Ahead(known, t, v)
         /\ \A t, u \in DOMAIN known : t # u => Ahead(known, t, u) \/ Ahead(known, u, t)
<1>1. PICK D : D = DOMAIN known
  OBVIOUS
<1>2. PICK at : at = [t \in D |-> CHOOSE i \in DOMAIN ViewTasks : ViewTasks[i] = t]
  OBVIOUS
<1>3. \A t \in D : at[t] \in DOMAIN ViewTasks /\ ViewTasks[at[t]] = t /\ at[t] \in Int
  <2>1. DOMAIN ViewTasks \subseteq Int
    <3>1. ViewTasks \in Seq(ToSet(ViewTasks))
      BY IDsAreDistinct DEF IsSeq
    <3> QED BY <3>1
  <2>2. \A t \in D : \E i \in DOMAIN ViewTasks : ViewTasks[i] = t
    BY <1>1 DEF Tasks, Known, ToSet
  <2> QED BY <1>2, <2>1, <2>2
<1>4. \A t, u \in D : (\E i, j \in DOMAIN ViewTasks : i < j /\ t = ViewTasks[i] /\ u = ViewTasks[j])
                      <=> at[t] < at[u]
  BY <1>3, IDsAreDistinct DEF Distinct
<1>5. PICK pos : pos = [t \in D |-> known[t].place[1]]
  OBVIOUS
<1>6. PICK pri : pri = [t \in D |-> known[t].place[2]]
  OBVIOUS
<1>7. \A t \in D : known[t].place = <<pos[t], pri[t]>> /\ pos[t] \in Int /\ pri[t] \in Int
  BY <1>1, <1>5, <1>6 DEF Tasks
<1>8. \A t, u \in D : known[t].place = known[u].place <=> pos[t] = pos[u] /\ pri[t] = pri[u]
  BY <1>5, <1>6, <1>7
<1>9. ASSUME NEW t \in D, NEW u \in D
      PROVE  Ahead(known, t, u) <=> \/ pos[t] < pos[u]
                                    \/ pos[t] = pos[u] /\ pri[t] > pri[u]
                                    \/ pos[t] = pos[u] /\ pri[t] = pri[u] /\ at[t] < at[u]
  <2>1. known[t].place[1] = pos[t] /\ known[u].place[1] = pos[u]
    BY <1>5
  <2>2. known[t].place[2] = pri[t] /\ known[u].place[2] = pri[u]
    BY <1>6
  <2> QED BY <1>4, <1>8, <2>1, <2>2 DEF Ahead
<1>10. \A t, u \in D : t # u => at[t] # at[u]
  BY <1>3
<1>11. \A t \in D : ~Ahead(known, t, t)
  BY <1>3, <1>7, <1>9
<1>12. \A t, u, v \in D : Ahead(known, t, u) /\ Ahead(known, u, v) => Ahead(known, t, v)
  BY <1>3, <1>7, <1>9
<1>13. ASSUME NEW t \in D, NEW u \in D, t # u PROVE Ahead(known, t, u) \/ Ahead(known, u, t)
  <2>1. at[t] # at[u] /\ at[t] \in Int /\ at[u] \in Int
    BY <1>3, <1>10, <1>13
  <2>2. pos[t] \in Int /\ pos[u] \in Int /\ pri[t] \in Int /\ pri[u] \in Int
    BY <1>7
  <2>3. CASE pos[t] = pos[u] /\ pri[t] = pri[u]
    BY <1>9, <2>1, <2>3
  <2>4. CASE pos[t] # pos[u]
    BY <1>9, <2>2, <2>4
  <2>5. CASE pos[t] = pos[u] /\ pri[t] # pri[u]
    BY <1>9, <2>2, <2>5
  <2> QED BY <2>3, <2>4, <2>5
<1> QED BY <1>1, <1>11, <1>12, <1>13

\* The queue holds the tasks that are in it, in their order.
LEMMA QueueIsSorted ==
  ASSUME NEW known, Tasks(known), NEW filter
  PROVE  /\ IsSeq(SortedQueue(known, filter)) /\ Len(SortedQueue(known, filter)) = Cardinality(InQueue(known, filter))
         /\ ToSet(SortedQueue(known, filter)) \subseteq InQueue(known, filter) /\ InQueue(known, filter) \subseteq DOMAIN known
         /\ \A i, j \in DOMAIN SortedQueue(known, filter) :
               i < j => Ahead(known, SortedQueue(known, filter)[i], SortedQueue(known, filter)[j])
<1>1. PICK D : D = InQueue(known, filter)
  OBVIOUS
<1>2. D \subseteq DOMAIN known
  BY <1>1 DEF InQueue
<1>3. IsFiniteSet(D)
  BY <1>2, ParentsAreTasks, FS_Subset DEF Tasks
<1>4. PICK n \in Nat : n = Cardinality(D)
  BY <1>3, FS_CardinalityType
<1>5. PICK Before : Before = {ss \in D \X D : Ahead(known, ss[1], ss[2])}
  OBVIOUS
<1>6. \A t, u \in D : <<t, u>> \in Before <=> Ahead(known, t, u)
  BY <1>5
<1>7. PICK f \in [1 .. n -> D] : \A i, j \in 1 .. n : i < j => <<f[i], f[j]>> \in Before
  <2>1. \A t \in D : <<t, t>> \notin Before
    BY <1>2, <1>6, AheadIsAnOrder
  <2>2. \A t, u, v \in D : <<t, u>> \in Before /\ <<u, v>> \in Before => <<t, v>> \in Before
    BY <1>2, <1>6, AheadIsAnOrder
  <2>3. \A t, u \in D : t # u => <<t, u>> \in Before \/ <<u, t>> \in Before
    BY <1>2, <1>6, AheadIsAnOrder
  <2> QED BY <1>3, <1>4, <2>1, <2>2, <2>3, Ordered
<1>8. PICK q : q = SortedQueue(known, filter)
  OBVIOUS
<1>9. q = CHOOSE queue \in [1 .. n -> D] : \A i, j \in DOMAIN queue : i < j => Ahead(known, queue[i], queue[j])
  BY <1>1, <1>4, <1>8 DEF SortedQueue
<1>10. \E queue \in [1 .. n -> D] : \A i, j \in DOMAIN queue : i < j => Ahead(known, queue[i], queue[j])
  <2>1. \A i, j \in DOMAIN f : i < j => Ahead(known, f[i], f[j])
    BY <1>6, <1>7
  <2> QED BY <2>1
<1>11. q \in [1 .. n -> D] /\ \A i, j \in DOMAIN q : i < j => Ahead(known, q[i], q[j])
  BY <1>9, <1>10
<1>12. q \in Seq(D) /\ Len(q) = n
  BY <1>11
<1> QED BY <1>1, <1>2, <1>4, <1>8, <1>11, <1>12, SeqsAreSeqs

-----------------------------------------------------------------------------
(* The rows.                                                                *)

LEMMA OneIsSeq == ASSUME NEW x PROVE IsSeq(<<x>>) /\ Len(<<x>>) = 1 /\ IsSeq(<<>>) /\ Len(<<>>) = 0
<1>1. <<x>> \in Seq({x}) /\ <<>> \in Seq({})
  OBVIOUS
<1> QED BY <1>1, SeqsAreSeqs

LEMMA EachFlattened ==
  ASSUME NEW s, IsSeq(s), NEW parts, parts = [i \in DOMAIN s |-> parts[i]], \A i \in DOMAIN s : IsSeq(parts[i])
  PROVE  IsSeq(FlattenSeq(parts))
<1>1. PICK n \in Nat : n = Len(s) /\ DOMAIN s = 1 .. n
  <2>1. s \in Seq(ToSet(s))
    BY DEF IsSeq
  <2> QED BY <2>1
<1>2. DOMAIN parts = 1 .. n
  BY <1>1
<1>3. IsSeq(parts)
  BY <1>1, <1>2, Enumerated
<1> QED BY <1>1, <1>2, <1>3, Flattened

LEMMA PanelIs ==
  ASSUME NEW open, NEW id, NEW depth, NEW severity, NEW below, IsSeq(below)
  PROVE  IsSeq(Panel(open, id, depth, severity, below)) /\ Len(Panel(open, id, depth, severity, below)) >= 1
<1>1. PICK row : row = Row(open, id, depth, severity, FALSE, TRUE)
  OBVIOUS
<1>2. PICK rest : rest = IF id \in open THEN below ELSE <<>>
  OBVIOUS
<1>3. Panel(open, id, depth, severity, below) = <<row>> \o rest
  BY <1>1, <1>2 DEF Panel
<1>4. IsSeq(rest)
  BY <1>2, OneIsSeq
<1>5. IsSeq(<<row>>) /\ Len(<<row>>) = 1
  BY OneIsSeq
<1>6. IsSeq(<<row>> \o rest) /\ Len(<<row>> \o rest) = 1 + Len(rest)
  BY <1>4, <1>5, Joined
<1>7. Len(rest) \in Nat
  BY <1>4 DEF IsSeq
<1> QED BY <1>3, <1>6, <1>7

LEMMA TaskRowsAre ==
  ASSUME NEW open, NEW id, NEW task, task.outputs \in Nat, NEW depth
  PROVE  IsSeq(TaskRows(open, id, task, depth))
<1>1. PICK row : row = Row(open, id, depth, Severity(task), Completed(task), task.outputs > 0)
  OBVIOUS
<1>2. PICK n \in Nat : n = task.outputs
  OBVIOUS
<1>3. PICK out : out = [i \in 1 .. n |-> Row(open, Append(id, i), depth + 1, "none", FALSE, FALSE)]
  OBVIOUS
<1>4. PICK rest : rest = IF id \in open THEN out ELSE <<>>
  OBVIOUS
<1>5. TaskRows(open, id, task, depth) = <<row>> \o rest
  BY <1>1, <1>2, <1>3, <1>4 DEF TaskRows
<1>6. IsSeq(out)
  <2>1. DOMAIN out = 1 .. n /\ out = [i \in 1 .. n |-> out[i]]
    BY <1>3
  <2> QED BY <2>1, Enumerated
<1>7. IsSeq(rest) /\ IsSeq(<<row>>)
  BY <1>4, <1>6, OneIsSeq
<1> QED BY <1>5, <1>7, Joined

LEMMA WorkersBelowIs == ASSUME NEW m, Tasks(m.tasks) PROVE IsSeq(WorkersBelow(m))
<1>1. ASSUME NEW w PROVE IsSeq(WorkerRows(m, w))
  <2>1. PICK mine : mine = {t \in DOMAIN m.tasks : m.tasks[t].worker = w}
    OBVIOUS
  <2>2. PICK own : own = TasksForWorker(m.tasks, w)
    OBVIOUS
  <2>3. IsSeq(own) /\ ToSet(own) \subseteq DOMAIN m.tasks
    <3>1. own = Sorted(ViewTasks, mine)
      BY <2>1, <2>2 DEF TasksForWorker, SortedTasks
    <3>2. IsSeq(own) /\ ToSet(own) = ToSet(ViewTasks) \cap mine
      BY <3>1, IDsAreDistinct, SortedHasMembers
    <3> QED BY <2>1, <3>2
  <2>4. PICK parts : parts = [i \in DOMAIN own |-> TaskRows(m.open, <<"worker", w, own[i]>>, m.tasks[own[i]], 3)]
    OBVIOUS
  <2>5. ASSUME NEW i \in DOMAIN own PROVE IsSeq(parts[i])
    <3>1. own[i] \in DOMAIN m.tasks
      BY <2>3 DEF ToSet
    <3>2. m.tasks[own[i]].outputs \in Nat
      BY <3>1, ViewAssumption DEF Tasks
    <3>3. parts[i] = TaskRows(m.open, <<"worker", w, own[i]>>, m.tasks[own[i]], 3)
      BY <2>4
    <3> QED BY <3>2, <3>3, TaskRowsAre
  <2>6. IsSeq(FlattenSeq(parts))
    <3>1. parts = [i \in DOMAIN own |-> parts[i]]
      BY <2>4
    <3> QED BY <2>3, <2>5, <3>1, EachFlattened
  <2>7. PICK severity : severity = Worst({Severity(m.tasks[own[i]]) : i \in DOMAIN own})
    OBVIOUS
  <2>8. WorkerRows(m, w) = Panel(m.open, <<"worker", w>>, 2, severity, FlattenSeq(parts))
    BY <2>2, <2>4, <2>7 DEF WorkerRows
  <2> QED BY <2>6, <2>8, PanelIs
<1>2. PICK all : all = Sorted(ViewWorkers, DOMAIN m.workers)
  OBVIOUS
<1>3. IsSeq(all)
  BY <1>2, IDsAreDistinct, SortedHasMembers
<1>4. PICK parts : parts = [i \in DOMAIN all |-> WorkerRows(m, all[i])]
  OBVIOUS
<1>5. parts = [i \in DOMAIN all |-> parts[i]] /\ \A i \in DOMAIN all : IsSeq(parts[i])
  BY <1>1, <1>4
<1>6. IsSeq(FlattenSeq(parts))
  BY <1>3, <1>5, EachFlattened
<1> QED BY <1>2, <1>4, <1>6 DEF WorkersBelow

\* The rows of some of the tasks, each under an ID of its own.
LEMMA RowsOfTasks ==
  ASSUME NEW known, Tasks(known), NEW open, NEW panel, NEW s, IsSeq(s), ToSet(s) \subseteq DOMAIN known
  PROVE  IsSeq(FlattenSeq([i \in DOMAIN s |-> TaskRows(open, <<panel, s[i]>>, known[s[i]], 2)]))
<1>1. PICK parts : parts = [i \in DOMAIN s |-> TaskRows(open, <<panel, s[i]>>, known[s[i]], 2)]
  OBVIOUS
<1>2. ASSUME NEW i \in DOMAIN s PROVE IsSeq(parts[i])
  <2>1. s[i] \in DOMAIN known
    BY DEF ToSet
  <2>2. known[s[i]].outputs \in Nat
    BY <2>1, ViewAssumption DEF Tasks
  <2>3. parts[i] = TaskRows(open, <<panel, s[i]>>, known[s[i]], 2)
    BY <1>1
  <2> QED BY <2>2, <2>3, TaskRowsAre
<1>3. parts = [i \in DOMAIN s |-> parts[i]]
  BY <1>1
<1>4. IsSeq(FlattenSeq(parts))
  BY <1>2, <1>3, EachFlattened
<1> QED BY <1>1, <1>4

LEMMA AllRowsAre == ASSUME NEW m, Tasks(m.tasks) PROVE IsSeq(AllRows(m)) /\ Len(AllRows(m)) >= 1
<1>1. IsSeq(WorkersBelow(m))
  BY WorkersBelowIs
<1>2. IsSeq(TasksBelow(m))
  <2>1. PICK all : all = SortedTasks(DOMAIN m.tasks)
    OBVIOUS
  <2>2. IsSeq(all) /\ ToSet(all) \subseteq DOMAIN m.tasks
    BY <2>1, IDsAreDistinct, SortedHasMembers DEF SortedTasks
  <2>3. IsSeq(FlattenSeq([i \in DOMAIN all |-> TaskRows(m.open, <<"task", all[i]>>, m.tasks[all[i]], 2)]))
    BY <2>2, RowsOfTasks
  <2> QED BY <2>1, <2>3 DEF TasksBelow
<1>3. IsSeq(QueueBelow(m))
  <2>1. PICK queue : queue = SortedQueue(m.tasks, m.filter)
    OBVIOUS
  <2>2. IsSeq(queue) /\ ToSet(queue) \subseteq DOMAIN m.tasks
    BY <2>1, QueueIsSorted
  <2>3. IsSeq(FlattenSeq([i \in DOMAIN queue |-> TaskRows(m.open, <<"queue", queue[i]>>, m.tasks[queue[i]], 2)]))
    BY <2>2, RowsOfTasks
  <2> QED BY <2>1, <2>3 DEF QueueBelow
<1>4. IsSeq(GraphBelow(m))
  <2>1. PICK rows : rows = GraphRows(m.tasks)
    OBVIOUS
  <2>2. IsSeq(rows)
    BY <2>1, GraphIsWhole DEF Tasks
  <2>3. PICK n \in Nat : n = Len(rows) /\ DOMAIN rows = 1 .. n
    <3>1. rows \in Seq(ToSet(rows))
      BY <2>2 DEF IsSeq
    <3> QED BY <3>1
  <2>4. PICK s : s = [i \in 1 .. n |->
                        Row({}, <<"graph", rows[i].task>>, rows[i].depth, Severity(m.tasks[rows[i].task]),
                            Completed(m.tasks[rows[i].task]), Children(m.tasks, rows[i].task) # <<>>)]
    OBVIOUS
  <2>5. DOMAIN s = 1 .. n /\ s = [i \in 1 .. n |-> s[i]]
    BY <2>4
  <2>6. IsSeq(s)
    BY <2>5, Enumerated
  <2> QED BY <2>1, <2>3, <2>4, <2>6 DEF GraphBelow
<1>5. PICK a : a = Panel(m.open, <<"workers">>, 1, WorkerSeverity(m), WorkersBelow(m))
  OBVIOUS
<1>6. PICK b : b = Panel(m.open, <<"tasks">>, 1, TaskSeverity(m), TasksBelow(m))
  OBVIOUS
<1>7. PICK c : c = Panel(m.open, <<"queue">>, 1, TaskSeverity(m), QueueBelow(m))
  OBVIOUS
<1>8. PICK d : d = Panel(m.open, <<"graph">>, 1, TaskSeverity(m), GraphBelow(m))
  OBVIOUS
<1>9. IsSeq(a) /\ IsSeq(b) /\ IsSeq(c) /\ IsSeq(d)
  BY <1>1, <1>2, <1>3, <1>4, <1>5, <1>6, <1>7, <1>8, PanelIs
<1>10. IsSeq(a \o b)
  BY <1>9, Joined
<1>11. IsSeq((a \o b) \o c)
  BY <1>9, <1>10, Joined
<1>12. IsSeq(((a \o b) \o c) \o d)
  BY <1>9, <1>11, Joined
<1>13. AllRows(m) = Panel(m.open, RunRow, 0, RunSeverity(m), ((a \o b) \o c) \o d)
  BY <1>5, <1>6, <1>7, <1>8 DEF AllRows
<1> QED BY <1>12, <1>13, PanelIs

\* What is shown of rows: at least one, and no more than there is room for.
LEMMA WithinIs ==
  ASSUME NEW rows, IsSeq(rows), Len(rows) >= 1
  PROVE  IsSeq(Within(rows)) /\ Len(Within(rows)) \in 1 .. PanelRowLimit
<1>1. PICK S : S = ToSet(rows)
  OBVIOUS
<1>2. rows \in Seq(S) /\ Len(rows) \in Nat
  BY <1>1 DEF IsSeq
<1>3. PanelRowLimit \in Nat \ {0}
  BY ViewAssumption
<1>4. CASE Len(rows) > PanelRowLimit
  <2>1. SubSeq(rows, 1, PanelRowLimit) \in Seq(S) /\ Len(SubSeq(rows, 1, PanelRowLimit)) = PanelRowLimit
    <3>1. \A i \in 1 .. PanelRowLimit : rows[i] \in S
      BY <1>2, <1>3, <1>4
    <3> QED BY <1>2, <1>3, <1>4, <3>1
  <2>2. Within(rows) = SubSeq(rows, 1, PanelRowLimit)
    BY <1>4 DEF Within
  <2>3. IsSeq(SubSeq(rows, 1, PanelRowLimit))
    BY <2>1, SeqsAreSeqs
  <2>4. PanelRowLimit \in 1 .. PanelRowLimit
    BY <1>3
  <2> QED BY <2>1, <2>2, <2>3, <2>4
<1>5. CASE ~ (Len(rows) > PanelRowLimit)
  <2>1. Within(rows) = rows
    BY <1>5 DEF Within
  <2> QED BY <1>2, <1>3, <1>5, <2>1
<1> QED BY <1>4, <1>5

-----------------------------------------------------------------------------
(* What is on the screen.                                                   *)

LEMMA SeveritiesAre == ASSUME NEW status PROVE SeverityOf(status) \in DOMAIN Rank
  BY DEF SeverityOf, Rank

LEMMA WorstIs ==
  ASSUME NEW a \in DOMAIN Rank, NEW b \in DOMAIN Rank
  PROVE  Rank[Worst({a, b})] >= Rank[a] /\ Rank[Worst({a, b})] >= Rank[b]
<1>1. PICK S : S = {a, b}
  OBVIOUS
<1>2. \A u \in DOMAIN Rank : Rank[u] \in Int
  BY DEF Rank
<1>3. \E s \in S \cup {"none"} : \A u \in S : Rank[s] >= Rank[u]
  <2>1. CASE Rank[a] >= Rank[b]
    BY <1>1, <1>2, <2>1
  <2>2. CASE Rank[b] >= Rank[a]
    BY <1>1, <1>2, <2>2
  <2> QED BY <1>2, <2>1, <2>2
<1>4. Worst(S) = CHOOSE s \in S \cup {"none"} : \A u \in S : Rank[s] >= Rank[u]
  BY DEF Worst
<1>5. \A u \in S : Rank[Worst(S)] >= Rank[u]
  BY <1>3, <1>4
<1> QED BY <1>1, <1>5

\* The window has the row in it and as many rows as fit.
LEMMA WindowIs ==
  ASSUME NEW total \in Nat, NEW cursor \in Nat, cursor < total, NEW height \in Nat \ {0}
  PROVE  LET window == Window(total, cursor, height)
         IN  /\ window[1] <= cursor /\ cursor < window[2]
             /\ window[1] >= 0 /\ window[2] <= total
             /\ window[2] - window[1] = IF total < height THEN total ELSE height
<1>1. PICK half \in Nat : half = height \div 2 /\ half < height
  <2>1. height \div 2 \in Nat /\ height \div 2 < height
    OBVIOUS
  <2> QED BY <2>1
<1>2. PICK above \in Nat : above = IF cursor > half THEN cursor - half ELSE 0
  <2>1. (IF cursor > half THEN cursor - half ELSE 0) \in Nat
    OBVIOUS
  <2> QED BY <2>1
<1>3. PICK window : window = Window(total, cursor, height)
  OBVIOUS
<1>4. window = IF height >= total THEN <<0, total>>
               ELSE IF above + height > total THEN <<total - height, total>>
               ELSE <<above, above + height>>
  BY <1>1, <1>2, <1>3 DEF Window
<1>5. CASE height >= total
  BY <1>3, <1>4, <1>5
<1>6. CASE ~ (height >= total) /\ above + height > total
  <2>1. window = <<total - height, total>>
    BY <1>4, <1>6
  <2>2. total - height <= cursor
    BY <1>1, <1>2, <1>6
  <2> QED BY <1>3, <1>6, <2>1, <2>2
<1>7. CASE ~ (height >= total) /\ ~ (above + height > total)
  <2>1. window = <<above, above + height>>
    BY <1>4, <1>7
  <2>2. above <= cursor /\ cursor < above + height
    BY <1>1, <1>2, <1>7
  <2> QED BY <1>3, <1>7, <2>1, <2>2
<1> QED BY <1>5, <1>6, <1>7

-----------------------------------------------------------------------------
(* The invariant.                                                           *)

Lists == {<<>>} \cup {r[t] : r \in Relations, t \in ToSet(ViewTasks)}
IsTask(task) ==
  /\ task = [worker |-> task.worker, phase |-> task.phase, stage |-> task.stage, outputs |-> task.outputs,
             warned |-> task.warned, terminal |-> task.terminal, severity |-> task.severity,
             place |-> task.place, parents |-> task.parents]
  /\ task.outputs \in 0 .. OutputBufCap /\ task.severity \in DOMAIN Rank
  /\ task.place \in Nat \X Int /\ task.parents \in Lists

\* The monitor has heard of a task that has begun, and who runs it.
TasksAreHeard ==
  /\ DOMAIN tasks \subseteq ToSet(ViewTasks) /\ DOMAIN workers \subseteq ToSet(ViewWorkers)
  /\ \A t \in DOMAIN tasks : IsTask(tasks[t]) /\ tasks[t].worker \in ToSet(ViewWorkers)
  /\ taskLife = [t \in ToSet(ViewTasks) |-> taskLife[t]] /\ relation \in Relations
  /\ \A t \in ToSet(ViewTasks) : taskLife[t] # "new" => t \in DOMAIN tasks

\* The severity that is kept of a task that has finished is the one it finished with.
FinishIsKept ==
  \A t \in DOMAIN tasks : tasks[t].phase = "task_finished" => tasks[t].severity = SeverityOf(tasks[t].terminal)

ScreenInv ==
  /\ panelCursor \in Nat /\ queueFilter \in {"all", "active"} /\ panelRowsDirty \in BOOLEAN
  /\ Len(panelRowsCache) <= PanelRowLimit /\ RowsAreCurrent

ViewInv == TasksAreHeard /\ FinishIsKept /\ ScreenInv

LEMMA HeardTasksAre == ASSUME TasksAreHeard PROVE Tasks(tasks)
<1>1. ASSUME NEW list \in Lists PROVE IsSeq(list)
  <2>1. CASE list = <<>>
    BY <2>1, OneIsSeq
  <2>2. CASE \E r \in Relations, t \in ToSet(ViewTasks) : list = r[t]
    BY <2>2, ViewAssumption DEF IsSeq
  <2> QED BY <2>1, <2>2 DEF Lists
<1>2. ASSUME NEW t \in DOMAIN tasks
      PROVE  IsSeq(tasks[t].parents) /\ tasks[t].outputs \in 0 .. OutputBufCap /\ tasks[t].place \in Nat \X Int
  <2>1. tasks[t].parents \in Lists /\ tasks[t].outputs \in 0 .. OutputBufCap /\ tasks[t].place \in Nat \X Int
    BY DEF TasksAreHeard, IsTask
  <2> QED BY <1>1, <2>1
<1> QED BY <1>2 DEF TasksAreHeard, Tasks, Known

LEMMA RowsAre == ASSUME ViewInv PROVE Len(PanelRows) \in 1 .. PanelRowLimit
<1>1. Tasks(Model.tasks)
  BY HeardTasksAre DEF ViewInv, Model
<1>2. IsSeq(AllRows(Model)) /\ Len(AllRows(Model)) >= 1
  BY <1>1, AllRowsAre
<1>3. Len(Within(AllRows(Model))) \in 1 .. PanelRowLimit
  BY <1>2, WithinIs
<1>4. PanelRows = Within(AllRows(Model))
  BY DEF PanelRows, ViewInv, ScreenInv, RowsAreCurrent
<1> QED BY <1>3, <1>4

LEMMA SelectedIs == ASSUME ViewInv PROVE Selected \in Nat /\ Selected < Len(PanelRows)
<1>1. PICK n \in Nat \ {0} : n = Len(PanelRows)
  BY RowsAre, ViewAssumption
<1> QED BY <1>1 DEF Selected, ViewInv, ScreenInv

LEMMA ViewInvIsTrue == ASSUME ViewInv PROVE ViewIsTrue /\ ViewTypeOK
<1>1. RowsAreCurrent
  BY DEF ViewInv, ScreenInv
<1>2. GraphHasEveryTask(tasks)
  BY HeardTasksAre, GraphIsWhole DEF ViewInv, Tasks
<1>3. OutcomeIsShown
  <2> SUFFICES ASSUME NEW t \in DOMAIN tasks, tasks[t].phase = "task_finished"
               PROVE  Rank[Severity(tasks[t])] >= Rank[SeverityOf(tasks[t].terminal)]
    BY DEF OutcomeIsShown
  <2>1. PICK a : a = SeverityOf(tasks[t].terminal)
    OBVIOUS
  <2>2. PICK b : b = IF tasks[t].warned THEN "warning" ELSE "none"
    OBVIOUS
  <2>3. tasks[t].severity = a
    BY <2>1 DEF ViewInv, FinishIsKept
  <2>4. a \in DOMAIN Rank /\ b \in DOMAIN Rank
    BY <2>1, <2>2, SeveritiesAre DEF Rank
  <2>5. Severity(tasks[t]) = Worst({a, b})
    BY <2>1, <2>2, <2>3 DEF Severity
  <2> QED BY <2>1, <2>4, <2>5, WorstIs
<1>4. SelectedIsShown
  <2>1. PICK total \in Nat : total = Len(PanelRows)
    BY RowsAre
  <2>2. PICK cursor \in Nat : cursor = Selected /\ cursor < total
    BY <2>1, SelectedIs
  <2>3. ViewportHeight \in Nat \ {0}
    BY ViewAssumption
  <2> QED BY <2>1, <2>2, <2>3, WindowIs DEF SelectedIsShown
<1>5. ViewTypeOK
  <2>1. \A t \in DOMAIN tasks : tasks[t].outputs <= OutputBufCap
    BY ViewAssumption DEF ViewInv, TasksAreHeard, IsTask
  <2> QED BY <2>1 DEF ViewTypeOK, ViewInv, TasksAreHeard, ScreenInv
<1> QED BY <1>1, <1>2, <1>3, <1>4, <1>5 DEF ViewIsTrue

-----------------------------------------------------------------------------
(* The steps.                                                               *)

\* What an event makes of a task.
LEMMA DerivedIs ==
  ASSUME NEW task, IsTask(task), NEW type, NEW status
  PROVE  /\ IsTask(Derived(task, type, status))
         /\ Derived(task, type, status).worker = task.worker
         /\ Derived(task, type, status).phase = task.phase
         /\ type = "task_finished" =>
               Derived(task, type, status).severity = SeverityOf(Derived(task, type, status).terminal)
<1>1. PICK stage : stage = IF type \in DOMAIN StageOf THEN StageOf[type] ELSE task.stage
  OBVIOUS
<1>2. PICK outputs \in 0 .. OutputBufCap :
        outputs = IF type = "runner_output" /\ task.outputs < OutputBufCap THEN task.outputs + 1 ELSE task.outputs
  <2>1. task.outputs \in 0 .. OutputBufCap /\ OutputBufCap \in Nat
    BY ViewAssumption DEF IsTask
  <2> QED BY <2>1
<1>3. PICK warned : warned = IF type = "runner_finished" THEN FALSE ELSE task.warned \/ type = "runner_warning"
  OBVIOUS
<1>4. PICK terminal : terminal = IF type \in {"runner_finished", "task_finished"} THEN status ELSE task.terminal
  OBVIOUS
<1>5. PICK severity : severity = CASE type \in {"runner_finished", "task_finished"} -> SeverityOf(status)
                                   [] type = "runner_warning" -> "warning"
                                   [] OTHER -> task.severity
  OBVIOUS
<1>6. severity \in DOMAIN Rank
  <2>1. task.severity \in DOMAIN Rank /\ "warning" \in DOMAIN Rank /\ SeverityOf(status) \in DOMAIN Rank
    BY SeveritiesAre DEF IsTask, Rank
  <2>2. severity \in {SeverityOf(status), "warning", task.severity}
    BY <1>5
  <2> QED BY <2>1, <2>2
<1>7. Derived(task, type, status) =
        [task EXCEPT !.stage = stage, !.outputs = outputs, !.warned = warned, !.terminal = terminal,
                     !.severity = severity]
  BY <1>1, <1>2, <1>3, <1>4, <1>5 DEF Derived
<1>8. PICK next : next = Derived(task, type, status)
  OBVIOUS
<1>9. task = [worker |-> task.worker, phase |-> task.phase, stage |-> task.stage, outputs |-> task.outputs,
             warned |-> task.warned, terminal |-> task.terminal, severity |-> task.severity,
             place |-> task.place, parents |-> task.parents]
  BY DEF IsTask
<1>10. next = [worker |-> task.worker, phase |-> task.phase, stage |-> stage, outputs |-> outputs,
              warned |-> warned, terminal |-> terminal, severity |-> severity,
              place |-> task.place, parents |-> task.parents]
  BY <1>7, <1>8, <1>9
<1>11. IsTask(next)
  BY <1>6, <1>10 DEF IsTask
<1>12. type = "task_finished" => severity = SeverityOf(terminal)
  BY <1>4, <1>5
<1> QED BY <1>8, <1>10, <1>11, <1>12

\* An event of a task comes from a worker.
LEMMA EventsAre ==
  ASSUME TasksAreHeard, NEW t \in ToSet(ViewTasks), NEW type, NEW w \in ReportersOf(t, type)
  PROVE  w \in ToSet(ViewWorkers)
<1>1. Takers[t] \subseteq ToSet(ViewWorkers)
  BY ViewAssumption
<1>2. CASE taskLife[t] = "new" \/ type = "task_started"
  BY <1>1, <1>2 DEF ReportersOf
<1>3. CASE ~ (taskLife[t] = "new" \/ type = "task_started")
  BY <1>3 DEF ReportersOf, TasksAreHeard
<1> QED BY <1>2, <1>3

LEMMA FoldKeepsInv ==
  ASSUME TasksAreHeard, FinishIsKept, NEW t \in ToSet(ViewTasks), NEW w \in ToSet(ViewWorkers),
         NEW type, NEW status, NEW life, Fold(t, w, type, status),
         taskLife' = [taskLife EXCEPT ![t] = life], relation' = relation
  PROVE  TasksAreHeard' /\ FinishIsKept'
<1>1. PICK old : old = IF t \in DOMAIN tasks THEN tasks[t] ELSE Unheard
  OBVIOUS
<1>2. IsTask(old)
  <2>1. IsTask(Unheard)
    <3>1. 0 \in 0 .. OutputBufCap /\ <<0, 0>> \in Nat \X Int /\ <<>> \in Lists /\ "none" \in DOMAIN Rank
      BY ViewAssumption DEF Lists, Rank
    <3> QED BY <3>1 DEF Unheard, IsTask
  <2> QED BY <1>1, <2>1 DEF TasksAreHeard
<1>3. PICK told : told = (type = "task_started" /\ runBy = "loop")
  OBVIOUS
<1>4. PICK seen : seen = [old EXCEPT !.worker = w, !.phase = type,
                                     !.place = IF told THEN Place[t] ELSE @,
                                     !.parents = IF told THEN relation[t] ELSE @]
  OBVIOUS
<1>5. PICK next : next = Derived(seen, type, status)
  OBVIOUS
<1>6. workers' = Heard(workers, w, t) /\ tasks' = Heard(tasks, t, next)
  BY <1>1, <1>3, <1>4, <1>5 DEF Fold
<1>7. PICK place : place = IF told THEN Place[t] ELSE old.place
  OBVIOUS
<1>8. PICK parents : parents = IF told THEN relation[t] ELSE old.parents
  OBVIOUS
<1>9. seen = [old EXCEPT !.worker = w, !.phase = type, !.place = place, !.parents = parents]
  BY <1>4, <1>7, <1>8
<1>10. place \in Nat \X Int /\ parents \in Lists
  BY <1>2, <1>7, <1>8, ViewAssumption DEF IsTask, Lists, TasksAreHeard
<1>11. seen = [worker |-> w, phase |-> type, stage |-> old.stage, outputs |-> old.outputs,
              warned |-> old.warned, terminal |-> old.terminal, severity |-> old.severity,
              place |-> place, parents |-> parents]
  <2>1. old = [worker |-> old.worker, phase |-> old.phase, stage |-> old.stage, outputs |-> old.outputs,
               warned |-> old.warned, terminal |-> old.terminal, severity |-> old.severity,
               place |-> old.place, parents |-> old.parents]
    BY <1>2 DEF IsTask
  <2> QED BY <1>9, <2>1
<1>12. IsTask(seen)
  <2>1. old.outputs \in 0 .. OutputBufCap /\ old.severity \in DOMAIN Rank
    BY <1>2 DEF IsTask
  <2> QED BY <1>10, <1>11, <2>1 DEF IsTask
<1>13. IsTask(next) /\ next.worker = w /\ next.phase = type
  BY <1>5, <1>11, <1>12, DerivedIs
<1>14. type = "task_finished" => next.severity = SeverityOf(next.terminal)
  BY <1>5, <1>12, DerivedIs
<1>15. DOMAIN tasks' = DOMAIN tasks \cup {t} /\ tasks'[t] = next
       /\ \A u \in DOMAIN tasks : u # t => tasks'[u] = tasks[u]
  BY <1>6 DEF Heard
<1>16. DOMAIN workers' = DOMAIN workers \cup {w}
  BY <1>6 DEF Heard
<1>17. FinishIsKept'
  BY <1>13, <1>14, <1>15 DEF FinishIsKept
<1>18. TasksAreHeard'
  <2>1. DOMAIN tasks' \subseteq ToSet(ViewTasks) /\ DOMAIN workers' \subseteq ToSet(ViewWorkers)
    BY <1>15, <1>16 DEF TasksAreHeard
  <2>2. \A u \in DOMAIN tasks' : IsTask(tasks'[u]) /\ tasks'[u].worker \in ToSet(ViewWorkers)
    BY <1>13, <1>15 DEF TasksAreHeard
  <2>3. taskLife' = [u \in ToSet(ViewTasks) |-> taskLife'[u]]
    BY DEF TasksAreHeard
  <2>4. \A u \in ToSet(ViewTasks) : taskLife'[u] # "new" => u \in DOMAIN tasks'
    BY <1>15 DEF TasksAreHeard
  <2>5. relation' \in Relations
    BY DEF TasksAreHeard
  <2> QED BY <2>1, <2>2, <2>3, <2>4, <2>5 DEF TasksAreHeard
<1> QED BY <1>17, <1>18

LEMMA ViewStart == ViewInit => ViewInv
<1> SUFFICES ASSUME ViewInit PROVE ViewInv
  OBVIOUS
<1>1. DOMAIN tasks = {} /\ DOMAIN workers = {}
  BY DEF ViewInit, NoOne
<1>2. relation \in Relations
  BY ViewAssumption DEF ViewInit
<1>3. taskLife = [t \in ToSet(ViewTasks) |-> taskLife[t]] /\ \A t \in ToSet(ViewTasks) : taskLife[t] = "new"
  BY DEF ViewInit
<1>4. panelCursor \in Nat /\ queueFilter \in {"all", "active"}
  BY ViewAssumption DEF ViewInit
<1>5. panelRowsDirty = TRUE /\ Len(panelRowsCache) = 0 /\ PanelRowLimit \in Nat
  BY ViewAssumption DEF ViewInit
<1>6. TasksAreHeard /\ FinishIsKept
  BY <1>1, <1>2, <1>3 DEF TasksAreHeard, FinishIsKept
<1>7. ScreenInv
  BY <1>4, <1>5 DEF ScreenInv, RowsAreCurrent
<1> QED BY <1>6, <1>7 DEF ViewInv

\* Events make the rows old.
LEMMA OldRowsAreKept ==
  ASSUME ScreenInv, panelRowsDirty' = TRUE,
         UNCHANGED <<panelCursor, queueFilter, panelRowsCache, panelRowsTruncated>>
  PROVE  ScreenInv'
  BY DEF ScreenInv, RowsAreCurrent

\* The rows that are shown are kept, and those that are kept are those of the model.
LEMMA RowsAreKept ==
  ASSUME ViewInv, KeepRows
  PROVE  /\ Len(panelRowsCache') <= PanelRowLimit
         /\ ~ (panelRowsDirty /\ ~KeepsRows) =>
               /\ panelRowsCache' = Within(AllRows(Model))
               /\ panelRowsTruncated' = (Len(AllRows(Model)) > PanelRowLimit)
<1>1. Len(PanelRows) <= PanelRowLimit
  BY RowsAre, ViewAssumption
<1>2. Len(panelRowsCache') <= PanelRowLimit
  BY <1>1 DEF KeepRows, ViewInv, ScreenInv
<1>3. CASE KeepsRows
  <2>1. panelRowsCache' = PanelRows /\ panelRowsTruncated' = (Len(AllRows(Model)) > PanelRowLimit)
    BY <1>3 DEF KeepRows
  <2>2. PanelRows = Within(AllRows(Model))
    BY <1>3 DEF PanelRows, KeepsRows
  <2> QED BY <1>2, <2>1, <2>2
<1>4. CASE ~KeepsRows
  <2>1. panelRowsCache' = panelRowsCache /\ panelRowsTruncated' = panelRowsTruncated
    BY <1>4 DEF KeepRows
  <2>2. ~panelRowsDirty => /\ panelRowsCache = Within(AllRows(Model))
                           /\ panelRowsTruncated = (Len(AllRows(Model)) > PanelRowLimit)
    BY DEF ViewInv, ScreenInv, RowsAreCurrent
  <2> QED BY <1>2, <1>4, <2>1, <2>2
<1> QED BY <1>3, <1>4

\* Nothing the rows are made from has changed.
LEMMA SameRows ==
  ASSUME UNCHANGED <<phase, workers, tasks, panelExpand, queueFilter>>
  PROVE  AllRows(Model)' = AllRows(Model)
<1>1. Model' = Model
  BY DEF Model
<1> QED BY <1>1

LEMMA ReceiveEventKeepsInv == ASSUME ViewInv, ReceiveEvent PROVE ViewInv'
<1>1. PICK t \in ToSet(ViewTasks), step \in IF runBy = "loop" THEN LoopSteps ELSE QueueSteps :
        /\ \E w \in ReportersOf(t, step[2]), status \in StatusesOf(step[2]) : Fold(t, w, step[2], status)
        /\ taskLife' = [taskLife EXCEPT ![t] = step[3]]
  BY DEF ReceiveEvent
<1>2. PICK w \in ReportersOf(t, step[2]), status \in StatusesOf(step[2]) : Fold(t, w, step[2], status)
  BY <1>1
<1>3. w \in ToSet(ViewWorkers)
  BY EventsAre DEF ViewInv
<1>4. relation' = relation /\ panelCursor' = panelCursor /\ queueFilter' = queueFilter
  BY DEF ReceiveEvent, keyVars
<1>5. TasksAreHeard' /\ FinishIsKept'
  <2>1. TasksAreHeard /\ FinishIsKept
    BY DEF ViewInv
  <2> QED BY <1>1, <1>2, <1>3, <1>4, <2>1, FoldKeepsInv
<1>6. ScreenInv'
  <2>1. panelRowsDirty' = TRUE /\ UNCHANGED <<panelRowsCache, panelRowsTruncated>>
    BY <1>2 DEF Fold
  <2> QED BY <1>4, <2>1, OldRowsAreKept DEF ViewInv
<1> QED BY <1>5, <1>6 DEF ViewInv

LEMMA ReceiveGarbageKeepsInv == ASSUME ViewInv, ReceiveGarbage PROVE ViewInv'
<1>1. UNCHANGED <<tasks, workers, taskLife, relation>>
  BY DEF ReceiveGarbage
<1>2. TasksAreHeard' /\ FinishIsKept'
  BY <1>1 DEF ViewInv, TasksAreHeard, FinishIsKept
<1>3. ScreenInv'
  BY OldRowsAreKept DEF ViewInv, ReceiveGarbage, keyVars
<1> QED BY <1>2, <1>3 DEF ViewInv

LEMMA ShowViewKeepsInv == ASSUME ViewInv, ShowView PROVE ViewInv'
<1>1. UNCHANGED <<phase, tasks, workers, taskLife, relation, panelCursor, panelExpand, queueFilter>>
  BY DEF ShowView, foldVars, keyVars
<1>2. TasksAreHeard' /\ FinishIsKept'
  BY <1>1 DEF ViewInv, TasksAreHeard, FinishIsKept
<1>3. KeepRows /\ panelRowsDirty' = (panelRowsDirty /\ ~KeepsRows)
  BY DEF ShowView
<1>4. Len(panelRowsCache') <= PanelRowLimit
  BY <1>3, RowsAreKept
<1>5. RowsAreCurrent'
  <2> SUFFICES ASSUME ~panelRowsDirty'
               PROVE  /\ panelRowsCache' = Within(AllRows(Model)')
                      /\ panelRowsTruncated' = (Len(AllRows(Model)') > PanelRowLimit)
    BY DEF RowsAreCurrent
  <2>1. ~ (panelRowsDirty /\ ~KeepsRows)
    BY <1>3
  <2>2. panelRowsCache' = Within(AllRows(Model)) /\ panelRowsTruncated' = (Len(AllRows(Model)) > PanelRowLimit)
    BY <1>3, <2>1, RowsAreKept
  <2>3. AllRows(Model)' = AllRows(Model)
    BY <1>1, SameRows
  <2> QED BY <2>2, <2>3
<1>6. panelCursor' \in Nat /\ queueFilter' \in {"all", "active"} /\ panelRowsDirty' \in BOOLEAN
  BY <1>1, <1>3 DEF ViewInv, ScreenInv
<1> QED BY <1>2, <1>4, <1>5, <1>6 DEF ViewInv, ScreenInv

LEMMA PressKeyKeepsInv == ASSUME ViewInv, PressKey PROVE ViewInv'
<1>1. UNCHANGED <<phase, tasks, workers, taskLife, relation>>
  BY DEF PressKey, foldVars
<1>2. TasksAreHeard' /\ FinishIsKept'
  BY <1>1 DEF ViewInv, TasksAreHeard, FinishIsKept
<1>3. PICK key \in {"up", "down", "enter", "right", "left", "f"} : HandleKey(key)
  BY DEF PressKey
<1>4. PICK toggles : toggles = (key \in {"enter", "right", "left"} /\ PanelRows[Selected + 1].hasChildren)
  OBVIOUS
<1>5. KeepRows /\ panelRowsDirty' = (toggles \/ key = "f" \/ (panelRowsDirty /\ ~KeepsRows))
  BY <1>3, <1>4 DEF HandleKey
<1>6. Len(panelRowsCache') <= PanelRowLimit
  BY <1>5, RowsAreKept
<1>7. panelCursor' \in Nat
  <2>1. PICK n \in Nat : n = Selected
    BY SelectedIs
  <2>2. panelCursor' \in {n + 1, n} \/ (n > 0 /\ panelCursor' = n - 1)
    BY <1>3, <2>1 DEF HandleKey
  <2> QED BY <2>1, <2>2
<1>8. queueFilter' \in {"all", "active"}
  BY <1>3 DEF HandleKey, OtherFilter, ViewInv, ScreenInv
<1>9. RowsAreCurrent'
  <2> SUFFICES ASSUME ~panelRowsDirty'
               PROVE  /\ panelRowsCache' = Within(AllRows(Model)')
                      /\ panelRowsTruncated' = (Len(AllRows(Model)') > PanelRowLimit)
    BY DEF RowsAreCurrent
  <2>1. ~toggles /\ key # "f" /\ ~ (panelRowsDirty /\ ~KeepsRows)
    BY <1>5
  <2>2. panelRowsCache' = Within(AllRows(Model)) /\ panelRowsTruncated' = (Len(AllRows(Model)) > PanelRowLimit)
    BY <1>5, <2>1, RowsAreKept
  <2>3. panelExpand' = panelExpand /\ queueFilter' = queueFilter
    BY <1>3, <1>4, <2>1 DEF HandleKey
  <2>4. AllRows(Model)' = AllRows(Model)
    BY <1>1, <2>3, SameRows
  <2> QED BY <2>2, <2>4
<1>10. panelRowsDirty' \in BOOLEAN
  BY <1>5
<1> QED BY <1>2, <1>6, <1>7, <1>8, <1>9, <1>10 DEF ViewInv, ScreenInv

LEMMA ViewStep == ViewInv /\ [ViewNext]_viewVars => ViewInv'
<1> SUFFICES ASSUME ViewInv, [ViewNext]_viewVars PROVE ViewInv'
  OBVIOUS
<1>1. CASE ReceiveEvent
  BY <1>1, ReceiveEventKeepsInv
<1>2. CASE ReceiveGarbage
  BY <1>2, ReceiveGarbageKeepsInv
<1>3. CASE ShowView
  BY <1>3, ShowViewKeepsInv
<1>4. CASE PressKey
  BY <1>4, PressKeyKeepsInv
<1>5. CASE UNCHANGED viewVars
  <2>1. UNCHANGED <<phase, tasks, workers, taskLife, relation, panelCursor, panelExpand, queueFilter,
                    panelRowsCache, panelRowsDirty, panelRowsTruncated>>
    BY <1>5 DEF viewVars, foldVars, keyVars, rowVars
  <2>2. TasksAreHeard' /\ FinishIsKept'
    BY <2>1 DEF ViewInv, TasksAreHeard, FinishIsKept
  <2>3. AllRows(Model)' = AllRows(Model)
    BY <2>1, SameRows
  <2>4. RowsAreCurrent'
    BY <2>1, <2>3 DEF RowsAreCurrent, ViewInv, ScreenInv
  <2> QED BY <2>1, <2>2, <2>4 DEF ViewInv, ScreenInv
<1> QED BY <1>1, <1>2, <1>3, <1>4, <1>5 DEF ViewNext

\* What the monitor shows is what the events have told it: rows that are kept are those of the
\* present state, each known task is once in the graph whatever the tasks depend on, no task is
\* shown as better than it ended, and the selected row is in the window; for any tasks, workers,
\* relations, keys, room for rows and height of the window (Apply, panelRows, panelWindow).
THEOREM ViewsAreTrue == ViewSpec => []ViewIsTrue
<1>1. ViewInv => ViewIsTrue
  BY ViewInvIsTrue
<1> QED BY <1>1, ViewStart, ViewStep, PTL DEF ViewSpec
================================================================================
