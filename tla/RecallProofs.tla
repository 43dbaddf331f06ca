---------------------------- MODULE RecallProofs ----------------------------
(***************************************************************************)
(* Proofs about Recall: every passage that a recall answers with was       *)
(* stored in the space that was asked, whatever the lanes find, whatever   *)
(* reranks and spreads the candidates, and whatever another process        *)
(* deletes and ingests meanwhile; the places that phrases and episodes     *)
(* decide, what a byte budget keeps, and where a cut falls.                *)
(***************************************************************************)
EXTENDS Recall, SequenceTheorems, FiniteSetTheorems, TLAPS

-----------------------------------------------------------------------------
(***************************************************************************)
(* Finite sets in order                                                    *)
(***************************************************************************)

StrictOrder(S, R) ==
  /\ \A a \in S : <<a, a>> \notin R
  /\ \A a, b, c \in S : <<a, b>> \in R /\ <<b, c>> \in R => <<a, c>> \in R
  /\ \A a, b \in S : a # b => <<a, b>> \in R \/ <<b, a>> \in R

Below(S, R, a) == {b \in S : <<b, a>> \in R}

(* The elements of a finite set that is strictly ordered stand in line,    *)
(* each once.                                                              *)
LEMMA InLineOrders ==
  ASSUME NEW S, IsFiniteSet(S), NEW R, StrictOrder(S, R)
  PROVE  /\ Cardinality(S) \in Nat
         /\ InOrderBy(S, R) \in Seq(S) /\ Len(InOrderBy(S, R)) = Cardinality(S)
         /\ \A a \in S : \E k \in 1 .. Cardinality(S) : InOrderBy(S, R)[k] = a
         /\ \A j, k \in 1 .. Cardinality(S) : j < k => <<InOrderBy(S, R)[j], InOrderBy(S, R)[k]>> \in R
<1> DEFINE n == Cardinality(S)
           rank == [a \in S |-> Cardinality(Below(S, R, a))]
<1>1. n \in Nat
  BY FS_CardinalityType
<1>2. ASSUME NEW a \in S
      PROVE  IsFiniteSet(Below(S, R, a)) /\ rank[a] \in 0 .. n - 1
  <2>1. Below(S, R, a) \subseteq S /\ a \notin Below(S, R, a)
    BY DEF Below, StrictOrder
  <2>2. IsFiniteSet(Below(S, R, a)) /\ Cardinality(Below(S, R, a)) <= n
        /\ Cardinality(Below(S, R, a)) # n
    BY <2>1, FS_Subset
  <2>3. Cardinality(Below(S, R, a)) \in Nat
    BY <2>2, FS_CardinalityType
  <2> QED
    BY <1>1, <2>2, <2>3
<1>3. ASSUME NEW a \in S, NEW b \in S, <<a, b>> \in R
      PROVE  rank[a] < rank[b]
  <2>1. Below(S, R, a) \subseteq Below(S, R, b) /\ a \in Below(S, R, b) /\ a \notin Below(S, R, a)
    BY <1>3 DEF Below, StrictOrder
  <2>2. /\ Cardinality(Below(S, R, a)) <= Cardinality(Below(S, R, b))
        /\ Cardinality(Below(S, R, a)) # Cardinality(Below(S, R, b))
    BY <1>2, <2>1, FS_Subset
  <2> QED
    BY <1>1, <1>2, <2>2
<1>4. rank \in Injection(S, 0 .. n - 1)
  <2>1. rank \in [S -> 0 .. n - 1]
    BY <1>2
  <2>2. ASSUME NEW a \in S, NEW b \in S, rank[a] = rank[b] PROVE a = b
    <3>1. rank[a] \in Nat /\ rank[b] \in Nat
      BY <1>1, <1>2
    <3>2. <<a, b>> \notin R /\ <<b, a>> \notin R
      BY <1>3, <2>2, <3>1
    <3> QED
      BY <3>2 DEF StrictOrder
  <2> QED
    BY <2>1, <2>2 DEF Injection, IsInjective
<1>5. IsFiniteSet(0 .. n - 1) /\ Cardinality(0 .. n - 1) = n
  BY <1>1, FS_Interval
<1>6. rank \in Surjection(S, 0 .. n - 1)
  BY <1>4, <1>5, FS_Injection
<1>7. ASSUME NEW k \in 1 .. n
      PROVE  InOrderBy(S, R)[k] \in S /\ rank[InOrderBy(S, R)[k]] = k - 1
  <2>1. k - 1 \in 0 .. n - 1
    BY <1>1
  <2>2. \E a \in S : rank[a] = k - 1
    BY <1>6, <2>1 DEF Surjection
  <2>3. \E a \in S : Cardinality(Below(S, R, a)) = k - 1
    BY <2>2
  <2> QED
    BY <2>3 DEF InOrderBy, Below
<1>8. InOrderBy(S, R) \in [1 .. n -> S]
  BY <1>7 DEF InOrderBy, Below
<1>9. InOrderBy(S, R) \in Seq(S) /\ Len(InOrderBy(S, R)) = n
  BY <1>1, <1>8
<1>10. ASSUME NEW a \in S PROVE \E k \in 1 .. n : InOrderBy(S, R)[k] = a
  <2>1. rank[a] \in 0 .. n - 1
    BY <1>2
  <2>2. PICK k \in 1 .. n : rank[a] = k - 1
    <3>1. rank[a] + 1 \in 1 .. n /\ rank[a] = (rank[a] + 1) - 1
      BY <1>1, <2>1
    <3> QED
      BY <3>1
  <2>3. rank[InOrderBy(S, R)[k]] = rank[a] /\ InOrderBy(S, R)[k] \in S
    BY <1>7, <2>2
  <2> QED
    BY <1>4, <2>3 DEF Injection, IsInjective
<1>11. ASSUME NEW j \in 1 .. n, NEW k \in 1 .. n, j < k
       PROVE  <<InOrderBy(S, R)[j], InOrderBy(S, R)[k]>> \in R
  <2>1. PICK a \in S : a = InOrderBy(S, R)[j] /\ rank[a] = j - 1
    BY <1>7
  <2>2. PICK b \in S : b = InOrderBy(S, R)[k] /\ rank[b] = k - 1
    BY <1>7
  <2>3. a # b /\ ~ (rank[b] < rank[a])
    BY <1>1, <1>11, <2>1, <2>2
  <2>4. <<a, b>> \in R
    BY <1>3, <2>3 DEF StrictOrder
  <2> QED
    BY <2>1, <2>2, <2>4
<1> QED
  BY <1>1, <1>9, <1>10, <1>11

(* A finite set of integers has a greatest and a least member.             *)
LEMMA GreatestAndLeast ==
  ASSUME NEW S, S \subseteq Int, IsFiniteSet(S), S # {}
  PROVE  /\ Max(S) \in S /\ \A y \in S : y <= Max(S)
         /\ Min(S) \in S /\ \A y \in S : Min(S) <= y
<1>1. PICK R : R = {p \in S \X S : p[1] < p[2]}
  OBVIOUS
<1>2. \A a, b \in S : <<a, b>> \in R <=> a < b
  BY <1>1
<1>3. StrictOrder(S, R)
  BY <1>2 DEF StrictOrder
<1>4. Cardinality(S) \in Nat /\ Cardinality(S) # 0
  BY FS_CardinalityType, FS_EmptySet
<1>5. PICK n : n = Cardinality(S) /\ n \in Nat \ {0}
  BY <1>4
<1>6. PICK f : f = InOrderBy(S, R)
  OBVIOUS
<1>7. /\ \A k \in 1 .. n : f[k] \in S
      /\ \A a \in S : \E k \in 1 .. n : f[k] = a
      /\ \A j, k \in 1 .. n : j < k => <<f[j], f[k]>> \in R
  BY <1>3, <1>5, <1>6, InLineOrders, ElementOfSeq
<1>8. \A j, k \in 1 .. n : j < k => f[j] < f[k]
  BY <1>2, <1>7
<1>9. 1 \in 1 .. n /\ n \in 1 .. n
  BY <1>5
<1>10. f[1] \in S /\ f[n] \in S /\ \A y \in S : y <= f[n] /\ f[1] <= y
  <2>1. ASSUME NEW y \in S PROVE y <= f[n] /\ f[1] <= y
    <3>1. PICK k \in 1 .. n : f[k] = y
      BY <1>7
    <3>2. /\ k = n \/ f[k] < f[n]
          /\ k = 1 \/ f[1] < f[k]
      BY <1>5, <1>8, <1>9
    <3>3. f[1] \in Int /\ f[n] \in Int /\ y \in Int
      BY <1>7, <1>9
    <3> QED
      BY <3>1, <3>2, <3>3
  <2> QED
    BY <1>7, <1>9, <2>1
<1>11. Max(S) \in S /\ \A y \in S : Max(S) >= y
  <2>1. \E x \in S : \A y \in S : x >= y
    BY <1>10
  <2> QED
    BY <2>1 DEF Max
<1>12. Min(S) \in S /\ \A y \in S : Min(S) <= y
  <2>1. \E x \in S : \A y \in S : x <= y
    BY <1>10
  <2> QED
    BY <2>1 DEF Min
<1> QED
  BY <1>11, <1>12

(* The bounds by which the ids of new rows are found.                      *)
LEMMA BoundOf ==
  ASSUME NEW S, S \subseteq Nat, IsFiniteSet(S)
  PROVE  Max({0} \cup S) \in Nat /\ \A y \in S : y <= Max({0} \cup S)
<1>1. PICK T : T = {0} \cup S
  OBVIOUS
<1>2. IsFiniteSet({0})
  BY FS_Singleton
<1>3. IsFiniteSet(T)
  BY <1>1, <1>2, FS_Union
<1>4. T \subseteq Int /\ T # {}
  BY <1>1
<1>5. PICK m : m = Max(T) /\ m \in T /\ \A y \in T : y <= m
  BY <1>3, <1>4, GreatestAndLeast
<1>6. m \in Nat /\ \A y \in S : y <= m
  BY <1>1, <1>5
<1> QED
  BY <1>1, <1>5, <1>6

(* The first place at which something fails.                               *)
LEMMA FirstOf ==
  ASSUME NEW L \in Nat, NEW S, S \subseteq 0 .. L, S # {}
  PROVE  \E m \in S : m \in 0 .. L /\ \A k \in S : m <= k
<1>1. IsFiniteSet(0 .. L)
  BY FS_Interval
<1>2. IsFiniteSet(S)
  BY <1>1, FS_Subset
<1>3. S \subseteq Int
  OBVIOUS
<1>4. Min(S) \in S /\ \A y \in S : Min(S) <= y
  BY <1>2, <1>3, GreatestAndLeast
<1> QED
  BY <1>4

(* Some places of a list, each after the one before.                       *)
LEMMA Increases ==
  ASSUME NEW K, K \subseteq Int, IsFiniteSet(K)
  PROVE  /\ Increasing(K) \in Seq(K) /\ Len(Increasing(K)) = Cardinality(K)
         /\ Cardinality(K) \in Nat
         /\ \A a \in K : \E k \in 1 .. Cardinality(K) : Increasing(K)[k] = a
         /\ \A j, k \in 1 .. Cardinality(K) : j < k => Increasing(K)[j] < Increasing(K)[k]
<1>1. PICK R : R = {p \in K \X K : p[1] < p[2]}
  OBVIOUS
<1>2. \A a, b \in K : <<a, b>> \in R <=> a < b
  BY <1>1
<1>3. StrictOrder(K, R)
  BY <1>2 DEF StrictOrder
<1>4. PICK f, n : f = Increasing(K) /\ f = InOrderBy(K, R) /\ n = Cardinality(K)
  BY <1>1 DEF Increasing
<1>5. /\ n \in Nat /\ f \in Seq(K) /\ Len(f) = n
      /\ \A a \in K : \E k \in 1 .. n : f[k] = a
      /\ \A j, k \in 1 .. n : j < k => <<f[j], f[k]>> \in R
  BY <1>3, <1>4, InLineOrders
<1>6. \A k \in 1 .. n : f[k] \in K
  BY <1>5, ElementOfSeq
<1> QED
  BY <1>2, <1>4, <1>5, <1>6

-----------------------------------------------------------------------------
(***************************************************************************)
(* The store                                                               *)
(***************************************************************************)

(* What was said in a space that ever held it.                             *)
Told(H, s, x) == \E b \in Bodies : x \in ToSet(Passages[b]) /\ <<s, b>> \in H

(* Rows R of a store that held H: each is of a body of a space, and those  *)
(* of one episode are of one body and one space.                           *)
IsStore(R, H) ==
  /\ IsFiniteSet(DOMAIN R) /\ DOMAIN R \subseteq Nat
  /\ \A c \in DOMAIN R :
       /\ R[c].episode \in Nat /\ R[c].body \in Bodies
       /\ R[c].pos \in DOMAIN Passages[R[c].body]
       /\ <<R[c].space, R[c].body>> \in H
  /\ \A c, d \in DOMAIN R :
       R[c].episode = R[d].episode => R[c].space = R[d].space /\ R[c].body = R[d].body

(* What a function makes of a finite set is finite.                        *)
LEMMA FiniteImage ==
  ASSUME NEW S, IsFiniteSet(S), NEW f, DOMAIN f = S
  PROVE  IsFiniteSet({f[x] : x \in S})
<1>1. PICK g : g = [x \in S |-> f[x]]
  OBVIOUS
<1>2. g \in Surjection(S, {f[x] : x \in S})
  BY <1>1 DEF Surjection
<1> QED
  BY <1>2, FS_Surjection

(* A row's passage is one of its body.                                     *)
LEMMA PassageTold ==
  ASSUME NEW R, NEW H, IsStore(R, H), NEW c \in DOMAIN R
  PROVE  /\ PassageOf(R[c]) \in Texts
         /\ PassageOf(R[c]) \in ToSet(Passages[R[c].body])
         /\ Told(H, R[c].space, PassageOf(R[c]))
<1>1. PICK b \in Bodies : b = R[c].body /\ R[c].pos \in DOMAIN Passages[b] /\ <<R[c].space, b>> \in H
  BY DEF IsStore
<1>2. PassageOf(R[c]) = Passages[b][R[c].pos]
  BY <1>1 DEF PassageOf
<1>3. PassageOf(R[c]) \in ToSet(Passages[b])
  BY <1>1, <1>2 DEF ToSet
<1> QED
  BY <1>1, <1>3 DEF Texts, Told

(* A new episode's ids are new, and its rows are of its space and body.    *)
LEMMA EpisodeStored ==
  ASSUME NEW R, NEW H, IsStore(R, H), NEW s \in Spaces, NEW b \in Bodies
  PROVE  /\ IsStore(WithEpisode(R, s, b), H \cup {<<s, b>>})
         /\ DOMAIN R \subseteq DOMAIN WithEpisode(R, s, b)
         /\ \A c \in DOMAIN R : WithEpisode(R, s, b)[c] = R[c]
<1>1. PICK ids : ids = DOMAIN R
  OBVIOUS
<1>2. PICK eps : eps = {R[c].episode : c \in ids}
  OBVIOUS
<1>3. IsFiniteSet(eps) /\ eps \subseteq Nat
  <2>1. PICK g : g = [c \in ids |-> R[c].episode]
    OBVIOUS
  <2>2. DOMAIN g = ids /\ eps = {g[c] : c \in ids}
    BY <1>2, <2>1
  <2>3. IsFiniteSet(ids)
    BY <1>1 DEF IsStore
  <2>4. IsFiniteSet({g[c] : c \in ids})
    BY <2>2, <2>3, FiniteImage
  <2>5. eps \subseteq Nat
    BY <1>1, <1>2 DEF IsStore
  <2> QED
    BY <2>2, <2>4, <2>5
<1>4. PICK last : last = Max({0} \cup ids) /\ last \in Nat /\ \A c \in ids : c <= last
  <2>1. IsFiniteSet(ids) /\ ids \subseteq Nat
    BY <1>1 DEF IsStore
  <2> QED
    BY <2>1, BoundOf
<1>5. PICK e : e = 1 + Max({0} \cup eps) /\ e \in Nat /\ e \notin eps
  <2>1. PICK m : m = Max({0} \cup eps) /\ m \in Nat /\ \A y \in eps : y <= m
    BY <1>3, BoundOf
  <2>2. 1 + m \in Nat /\ 1 + m \notin eps
    BY <1>3, <2>1
  <2> QED
    BY <2>1, <2>2
<1>6. PICK n : n = Len(Passages[b]) /\ n \in Nat /\ DOMAIN Passages[b] = 1 .. n
  BY RecallAssumption, LenProperties
<1>7. PICK new : new = last + 1 .. last + n
  OBVIOUS
<1>8. PICK W : W = WithEpisode(R, s, b)
  OBVIOUS
<1>9. W = [c \in ids \cup new |->
             IF c \in ids THEN R[c]
             ELSE [space |-> s, episode |-> e, body |-> b, pos |-> c - last]]
  BY <1>1, <1>2, <1>4, <1>5, <1>6, <1>7, <1>8 DEF WithEpisode
<1>10. /\ DOMAIN W = ids \cup new
       /\ \A c \in ids : W[c] = R[c]
       /\ \A c \in new : c \in Nat /\ c \notin ids /\ c - last \in 1 .. n
       /\ IsFiniteSet(ids \cup new)
  <2>1. PICK a \in Int, z \in Int : a = last + 1 /\ z = last + n
    BY <1>4, <1>6
  <2>2. IsFiniteSet(a .. z)
    BY FS_Interval
  <2>3. new = a .. z
    BY <1>7, <2>1
  <2>4. IsFiniteSet(new)
    BY <2>2, <2>3
  <2>5. ASSUME NEW c \in new PROVE c \in Nat /\ c \notin ids /\ c - last \in 1 .. n
    <3>1. c \in Int /\ last + 1 <= c /\ c <= last + n
      BY <1>4, <1>6, <1>7
    <3>2. last \in Nat /\ n \in Nat
      BY <1>4, <1>6
    <3>3. c \in Nat /\ c - last \in 1 .. n /\ ~ c <= last
      BY <3>1, <3>2
    <3> QED
      BY <1>4, <3>3
  <2>6. IsFiniteSet(ids \cup new)
    BY <1>1, <2>4, FS_Union DEF IsStore
  <2> QED
    BY <1>9, <2>5, <2>6
<1>11. \A c \in new : /\ W[c].space = s /\ W[c].episode = e /\ W[c].body = b
                       /\ W[c].pos = c - last
  <2> SUFFICES ASSUME NEW c \in new
               PROVE  /\ W[c].space = s /\ W[c].episode = e /\ W[c].body = b
                      /\ W[c].pos = c - last
    OBVIOUS
  <2>1. W[c] = [space |-> s, episode |-> e, body |-> b, pos |-> c - last]
    BY <1>9, <1>10
  <2> QED
    BY <2>1
<1>12. \A c \in ids : W[c].episode # e
  BY <1>2, <1>5, <1>10
<1>13. IsStore(W, H \cup {<<s, b>>})
  <2>1. \A c \in DOMAIN W :
       /\ W[c].episode \in Nat /\ W[c].body \in Bodies
       /\ W[c].pos \in DOMAIN Passages[W[c].body]
       /\ <<W[c].space, W[c].body>> \in H \cup {<<s, b>>}
    <3>1. ASSUME NEW c \in ids
          PROVE  /\ W[c].episode \in Nat /\ W[c].body \in Bodies
                 /\ W[c].pos \in DOMAIN Passages[W[c].body]
                 /\ <<W[c].space, W[c].body>> \in H \cup {<<s, b>>}
      BY <1>1, <1>10 DEF IsStore
    <3>2. ASSUME NEW c \in new
          PROVE  /\ W[c].episode \in Nat /\ W[c].body \in Bodies
                 /\ W[c].pos \in DOMAIN Passages[W[c].body]
                 /\ <<W[c].space, W[c].body>> \in H \cup {<<s, b>>}
      BY <1>5, <1>6, <1>10, <1>11
    <3> QED
      BY <1>10, <3>1, <3>2
  <2>2. ASSUME NEW c \in DOMAIN W, NEW d \in DOMAIN W, W[c].episode = W[d].episode
        PROVE  W[c].space = W[d].space /\ W[c].body = W[d].body
    <3>1. CASE c \in ids /\ d \in ids
      BY <1>1, <1>10, <2>2, <3>1 DEF IsStore
    <3>2. CASE c \in new \/ d \in new
      <4>1. c \in new /\ d \in new
        BY <1>10, <1>11, <1>12, <2>2, <3>2
      <4> QED
        BY <1>11, <4>1
    <3> QED
      BY <1>10, <3>1, <3>2
  <2>3. DOMAIN W \subseteq Nat
    BY <1>1, <1>10 DEF IsStore
  <2> QED
    BY <1>10, <2>1, <2>2, <2>3 DEF IsStore
<1> QED
  BY <1>1, <1>8, <1>10, <1>13

(* The rows after each episode of Stored, from what they are said to be.   *)
LEMMA FiledIs ==
  RowsAfter = [n \in 0 .. Len(Stored) |->
             IF n = 0 THEN <<>> ELSE WithEpisode(RowsAfter[n - 1], Stored[n][1], Stored[n][2])]
<1>1. PICK L : L = Len(Stored) /\ L \in Nat
  BY RecallAssumption, LenProperties
<1>2. PICK short : short = {m \in 0 .. L : ~ \E f : f = [n \in 0 .. m |->
             IF n = 0 THEN <<>> ELSE WithEpisode(f[n - 1], Stored[n][1], Stored[n][2])]}
  OBVIOUS
<1>3. short = {}
  <2> SUFFICES ASSUME short # {} PROVE FALSE
    OBVIOUS
  <2>1. short \subseteq 0 .. L
    BY <1>2
  <2>3. PICK m \in short : m \in 0 .. L /\ \A k \in short : m <= k
    BY <1>1, <2>1, FirstOf
  <2>4. m \in 0 .. L
    BY <2>3
  <2>5. m # 0
    <3>1. PICK f : f = [n \in 0 .. 0 |-> <<>>]
      OBVIOUS
    <3>2. f = [n \in 0 .. 0 |->
             IF n = 0 THEN <<>> ELSE WithEpisode(f[n - 1], Stored[n][1], Stored[n][2])]
      BY <3>1
    <3> QED
      BY <1>2, <3>2
  <2>6. m - 1 \in 0 .. L /\ m - 1 \notin short
    BY <1>1, <2>3, <2>4, <2>5
  <2>7. PICK g : g = [n \in 0 .. m - 1 |->
             IF n = 0 THEN <<>> ELSE WithEpisode(g[n - 1], Stored[n][1], Stored[n][2])]
    BY <1>2, <2>6
  <2>8. PICK f : f = [n \in 0 .. m |->
             IF n = m THEN WithEpisode(g[m - 1], Stored[m][1], Stored[m][2]) ELSE g[n]]
    OBVIOUS
  <2>9. \A n \in 0 .. m : n # 0 => n - 1 \in 0 .. m - 1 /\ f[n - 1] = g[n - 1]
    BY <1>1, <2>4, <2>8
  <2>10. ASSUME NEW n \in 0 .. m
         PROVE  f[n] = IF n = 0 THEN <<>>
                       ELSE WithEpisode(f[n - 1], Stored[n][1], Stored[n][2])
    <3>1. CASE n = m
      BY <2>5, <2>8, <2>9, <3>1
    <3>2. CASE n # m
      <4>1. n \in 0 .. m - 1 /\ f[n] = g[n]
        BY <1>1, <2>4, <2>8, <3>2
      <4>2. g[n] = IF n = 0 THEN <<>> ELSE WithEpisode(g[n - 1], Stored[n][1], Stored[n][2])
        BY <2>7, <4>1
      <4> QED
        BY <2>9, <4>1, <4>2
    <3> QED
      BY <3>1, <3>2
  <2>11. f = [n \in 0 .. m |->
             IF n = 0 THEN <<>> ELSE WithEpisode(f[n - 1], Stored[n][1], Stored[n][2])]
    BY <2>8, <2>10
  <2> QED
    BY <1>2, <2>11
<1>4. \E f : f = [n \in 0 .. Len(Stored) |->
             IF n = 0 THEN <<>> ELSE WithEpisode(f[n - 1], Stored[n][1], Stored[n][2])]
  <2>1. L \in 0 .. L
    BY <1>1
  <2> QED
    BY <1>1, <1>2, <1>3, <2>1
<1> QED
  BY <1>4, Zenon DEF RowsAfter

(* What is stored before a recall is a store.                              *)
LEMMA RowsAfterStore == IsStore(RowsAfter[Len(Stored)], ToSet(Stored))
<1>1. PICK L : L = Len(Stored) /\ L \in Nat
  BY RecallAssumption, LenProperties
<1>2. PICK short : short = {m \in 0 .. L : ~ IsStore(RowsAfter[m], ToSet(Stored))}
  OBVIOUS
<1>3. short = {}
  <2> SUFFICES ASSUME short # {} PROVE FALSE
    OBVIOUS
  <2>1. short \subseteq 0 .. L
    BY <1>2
  <2>3. PICK m \in short : m \in 0 .. L /\ \A k \in short : m <= k
    BY <1>1, <2>1, FirstOf
  <2>4. m \in 0 .. L
    BY <2>3
  <2>5. m # 0
    <3>1. RowsAfter[0] = <<>>
      BY <1>1, FiledIs
    <3>2. IsStore(<<>>, ToSet(Stored))
      BY FS_EmptySet DEF IsStore
    <3> QED
      BY <1>2, <3>1, <3>2
  <2>6. m - 1 \in 0 .. L /\ m - 1 \notin short
    BY <1>1, <2>3, <2>4, <2>5
  <2>7. IsStore(RowsAfter[m - 1], ToSet(Stored))
    BY <1>2, <2>6
  <2>8. PICK s, b : Stored[m] = <<s, b>> /\ s \in Spaces /\ b \in Bodies /\ <<s, b>> \in ToSet(Stored)
    <3>1. m \in 1 .. Len(Stored) /\ DOMAIN Stored = 1 .. Len(Stored)
      BY <1>1, <2>4, <2>5, RecallAssumption, LenProperties
    <3>2. Stored[m] \in Spaces \X Bodies /\ Stored[m] \in ToSet(Stored)
      BY <3>1, RecallAssumption, ElementOfSeq DEF ToSet
    <3> QED
      BY <3>2
  <2>9. RowsAfter[m] = WithEpisode(RowsAfter[m - 1], s, b)
    <3>1. m \in 0 .. Len(Stored)
      BY <1>1, <2>4
    <3>2. RowsAfter[m] = WithEpisode(RowsAfter[m - 1], Stored[m][1], Stored[m][2])
      BY <2>5, <3>1, FiledIs, Zenon
    <3>3. Stored[m][1] = s /\ Stored[m][2] = b
      BY <2>8
    <3> QED
      BY <3>2, <3>3
  <2>10. IsStore(RowsAfter[m], ToSet(Stored) \cup {<<s, b>>})
    BY <2>7, <2>8, <2>9, EpisodeStored
  <2>11. ToSet(Stored) \cup {<<s, b>>} = ToSet(Stored)
    BY <2>8
  <2> QED
    BY <1>2, <2>3, <2>10, <2>11
<1>4. L \in 0 .. L
  BY <1>1
<1> QED
  BY <1>1, <1>2, <1>3, <1>4

-----------------------------------------------------------------------------
(***************************************************************************)
(* The inductive invariant                                                 *)
(***************************************************************************)

Passage == [chunk : Nat, episode : Nat, text : SUBSET Texts, score : Int,
            similarity : Int \cup {NoCosine}]

(* Verified candidates: each is of one row and has that row's passage.     *)
Candidates(S) ==
  /\ IsFiniteSet(S) /\ S \subseteq Passage
  /\ \A i \in S : \E x \in Texts : i.text = {x}
  /\ \A i, j \in S : i.chunk = j.chunk => i = j

(* What reranking leaves alone.                                            *)
Same(i, j) ==
  /\ i.chunk = j.chunk /\ i.episode = j.episode /\ i.text = j.text
  /\ i.similarity = j.similarity

(* The search has ids of this process's indexes, scored.                   *)
SearchInv ==
  /\ IsFiniteSet(DOMAIN known) /\ DOMAIN known \subseteq Nat
  /\ \A c \in DOMAIN known : known[c].text \in Texts
  /\ IsFiniteSet(DOMAIN fused) /\ DOMAIN fused \subseteq Nat /\ DOMAIN cosine = DOMAIN fused
  /\ \A c \in DOMAIN fused : fused[c] \in Int /\ cosine[c] \in Int \cup {NoCosine}
  /\ unread \subseteq DOMAIN fused

(* A verified candidate was stored in the space, and as long as no id is   *)
(* used again, its row is of the space or gone.                            *)
ItemsInv ==
  /\ Candidates(items)
  /\ \A i \in items : i.chunk \notin unread
  /\ \A i \in items : \A x \in i.text : Told(held, request.space, x)
  /\ ~ reused => \A i \in items : i.chunk \in DOMAIN rows => rows[i.chunk].space = request.space

(* The places are those that some failures of the rerank leave, and what   *)
(* is returned so far was stored in the space.                             *)
AnswerInv ==
  /\ stage \in {"idle", "search"} => items = {}
  /\ stage \in {"idle", "search", "verify"} => picked = <<>> /\ place = 1 /\ answer = <<>>
  /\ stage \notin {"idle", "refused"} => request \in Requests
  /\ stage \in {"expand", "answered"} =>
       /\ unread = {}
       /\ \E r, d \in BOOLEAN : picked = AboveTheCut(Placed(InOrder(r, d)))
  /\ picked \in Seq(Passage) /\ answer \in Seq(Passage) /\ place \in Nat \ {0}
  /\ ~ reused => \A k \in DOMAIN answer : \A x \in answer[k].text : Told(held, request.space, x)

(* Without expansion what is returned so far is the best of the places.    *)
PlacesInv ==
  /\ place <= Len(picked) + 1
  /\ stage = "expand" /\ ~ request.expand => answer = SubSeq(picked, 1, place - 1)
  /\ stage = "answered" /\ Unbounded => answer = picked

RecallInv == IsStore(rows, held) /\ SearchInv /\ ItemsInv /\ AnswerInv /\ PlacesInv

(* The first in line.                                                      *)
LEMMA FirstInLine ==
  ASSUME NEW S, IsFiniteSet(S), S # {}, NEW R, StrictOrder(S, R)
  PROVE  \E a \in S : \A b \in S : b = a \/ <<a, b>> \in R
<1>1. PICK n : n = Cardinality(S)
  OBVIOUS
<1>2. n \in Nat /\ n # 0
  BY <1>1, FS_CardinalityType, FS_EmptySet
<1>3. PICK f : f = InOrderBy(S, R)
  OBVIOUS
<1>4. /\ f \in Seq(S) /\ Len(f) = n
      /\ \A a \in S : \E k \in 1 .. n : f[k] = a
      /\ \A j, k \in 1 .. n : j < k => <<f[j], f[k]>> \in R
  BY <1>1, <1>3, InLineOrders
<1>5. 1 \in 1 .. n /\ f[1] \in S
  BY <1>2, <1>4, ElementOfSeq
<1>6. ASSUME NEW b \in S PROVE b = f[1] \/ <<f[1], b>> \in R
  <2>1. PICK k \in 1 .. n : f[k] = b
    BY <1>4
  <2>2. k = 1 \/ 1 < k
    BY <1>2
  <2> QED
    BY <1>4, <1>5, <2>1, <2>2
<1> QED
  BY <1>5, <1>6

-----------------------------------------------------------------------------
(***************************************************************************)
(* Turns                                                                   *)
(***************************************************************************)

(* A list of the numbers up to n, each once.                               *)
IsTurn(t, n) ==
  /\ t \in Seq(1 .. n) /\ Len(t) = n /\ DOMAIN t = 1 .. n
  /\ \A i \in 1 .. n : \E k \in 1 .. n : t[k] = i
  /\ \A j, k \in 1 .. n : t[j] = t[k] => j = k

(* Some of them in any order, then the others in theirs, is a turn.        *)
LEMMA TwoTurns ==
  ASSUME NEW n \in Nat, NEW f \in Seq(1 .. n),
         \A j, k \in 1 .. Len(f) : f[j] = f[k] => j = k,
         NEW A, A = {f[k] : k \in 1 .. Len(f)}
  PROVE  IsTurn(f \o Increasing((1 .. n) \ A), n)
<1>1. PICK B : B = (1 .. n) \ A
  OBVIOUS
<1>2. IsFiniteSet(1 .. n) /\ Cardinality(1 .. n) = n
  BY FS_Interval
<1>3. IsFiniteSet(B)
  BY <1>1, <1>2, FS_Subset
<1>4. B \subseteq Int
  BY <1>1
<1>5. PICK g, m : g = Increasing(B) /\ m = Cardinality(B)
  OBVIOUS
<1>6. /\ m \in Nat /\ g \in Seq(B) /\ Len(g) = m
      /\ \A a \in B : \E k \in 1 .. m : g[k] = a
      /\ \A j, k \in 1 .. m : j < k => g[j] < g[k]
  BY <1>3, <1>4, <1>5, Increases
<1>7. PICK l : l = Len(f) /\ l \in Nat
  BY LenProperties
<1>8. \A k \in 1 .. m : g[k] \in B
  BY <1>6, ElementOfSeq
<1>9. \A k \in 1 .. l : f[k] \in 1 .. n /\ f[k] \in A
  BY <1>7, ElementOfSeq
<1>10. \A a \in A : \E k \in 1 .. l : f[k] = a
  BY <1>7
<1>11. g \in Seq(1 .. n)
  <2>1. g \in [1 .. m -> 1 .. n]
    <3>1. DOMAIN g = 1 .. m /\ g \in [1 .. m -> B]
      BY <1>6, LenProperties
    <3> QED
      BY <1>1, <3>1
  <2> QED
    BY <1>6, <2>1, SeqDef
<1>12. PICK t : t = f \o g
  OBVIOUS
<1>13. /\ t \in Seq(1 .. n) /\ Len(t) = l + m
       /\ \A k \in 1 .. l + m : t[k] = IF k <= l THEN f[k] ELSE g[k - l]
  <2>1. /\ f \o g \in Seq(1 .. n) /\ Len(f \o g) = Len(f) + Len(g)
        /\ \A k \in 1 .. Len(f) + Len(g) : (f \o g)[k] = IF k <= Len(f) THEN f[k] ELSE g[k - Len(f)]
    BY <1>11, ConcatProperties, Zenon
  <2> QED
    BY <1>6, <1>7, <1>12, <2>1
<1>14. \A j, k \in 1 .. m : g[j] = g[k] => j = k
  <2> SUFFICES ASSUME NEW j \in 1 .. m, NEW k \in 1 .. m, g[j] = g[k] PROVE j = k
    OBVIOUS
  <2>1. g[j] \in Int /\ g[k] \in Int
    BY <1>4, <1>8
  <2>2. ~ j < k /\ ~ k < j
    BY <1>6, <2>1
  <2> QED
    BY <1>6, <2>2
<1>15. ASSUME NEW j \in 1 .. l + m, NEW k \in 1 .. l + m, t[j] = t[k] PROVE j = k
  <2>1. CASE j <= l /\ k <= l
    BY <1>7, <1>13, <1>15, <2>1
  <2>2. CASE ~ j <= l /\ ~ k <= l
    <3>1. j - l \in 1 .. m /\ k - l \in 1 .. m
      BY <1>6, <1>7, <2>2
    <3>2. g[j - l] = g[k - l]
      BY <1>13, <1>15, <2>2
    <3>3. j - l = k - l
      BY <1>14, <3>1, <3>2
    <3> QED
      BY <1>6, <1>7, <3>3
  <2>3. CASE j <= l /\ ~ k <= l
    <3>1. k - l \in 1 .. m /\ j \in 1 .. l
      BY <1>6, <1>7, <2>3
    <3>2. t[j] \in A /\ t[k] \in B
      BY <1>8, <1>9, <1>13, <2>3, <3>1
    <3> QED
      BY <1>1, <1>15, <3>2
  <2>4. CASE ~ j <= l /\ k <= l
    <3>1. j - l \in 1 .. m /\ k \in 1 .. l
      BY <1>6, <1>7, <2>4
    <3>2. t[k] \in A /\ t[j] \in B
      BY <1>8, <1>9, <1>13, <2>4, <3>1
    <3> QED
      BY <1>1, <1>15, <3>2
  <2> QED
    BY <2>1, <2>2, <2>3, <2>4
<1>16. ASSUME NEW i \in 1 .. n PROVE \E k \in 1 .. l + m : t[k] = i
  <2>1. CASE i \in A
    <3>1. PICK k \in 1 .. l : f[k] = i
      BY <1>10, <2>1
    <3>2. k \in 1 .. l + m /\ k <= l
      BY <1>6, <1>7
    <3> QED
      BY <1>13, <3>1, <3>2
  <2>2. CASE i \notin A
    <3>1. PICK k \in 1 .. m : g[k] = i
      BY <1>1, <1>6, <2>2
    <3>2. l + k \in 1 .. l + m /\ ~ l + k <= l /\ (l + k) - l = k
      BY <1>6, <1>7
    <3>3. t[l + k] = i
      BY <1>13, <3>1, <3>2
    <3> QED
      BY <3>2, <3>3
  <2> QED
    BY <2>1, <2>2
<1>17. PICK q : q = l + m /\ q \in Nat
  BY <1>6, <1>7
<1>18. DOMAIN t = 1 .. q /\ t \in [1 .. q -> 1 .. n]
  BY <1>13, <1>17, LenProperties
<1>19. t \in Surjection(1 .. q, 1 .. n) /\ t \in Injection(1 .. q, 1 .. n)
  BY <1>15, <1>16, <1>17, <1>18 DEF Injection, Surjection, IsInjective
<1>20. IsFiniteSet(1 .. q) /\ Cardinality(1 .. q) = q
  BY <1>17, FS_Interval
<1>21. q = n
  BY <1>2, <1>19, <1>20, FS_Surjection
<1>22. IsTurn(t, n)
  BY <1>13, <1>15, <1>16, <1>17, <1>18, <1>21 DEF IsTurn
<1> QED
  BY <1>1, <1>5, <1>12, <1>22

-----------------------------------------------------------------------------
(***************************************************************************)
(* From the candidates to the places                                       *)
(***************************************************************************)

(* A list of the candidates S, each once, whatever their scores.           *)
Line(seq, S) ==
  /\ seq \in Seq(Passage) /\ Len(seq) = Cardinality(S) /\ DOMAIN seq = 1 .. Len(seq)
  /\ \A k \in DOMAIN seq : \E i \in S : Same(seq[k], i)
  /\ \A i \in S : \E k \in DOMAIN seq : Same(seq[k], i)
  /\ \A j, k \in DOMAIN seq : seq[j].chunk = seq[k].chunk => j = k

(* A subset of the candidates is one of candidates.                        *)
LEMMA SomeCandidates ==
  ASSUME NEW S, Candidates(S), NEW T, T \subseteq S
  PROVE  Candidates(T)
<1>1. IsFiniteSet(T)
  BY FS_Subset DEF Candidates
<1> QED
  BY <1>1 DEF Candidates

(* order_items lists the candidates.                                       *)
LEMMA OrderedLines ==
  ASSUME NEW S, Candidates(S)
  PROVE  Line(Ordered(S), S)
<1>1. PICK R : R = {p \in S \X S : \/ p[1].score > p[2].score
                                   \/ p[1].score = p[2].score /\ p[1].chunk < p[2].chunk}
  OBVIOUS
<1>2. \A a, b \in S : <<a, b>> \in R <=> \/ a.score > b.score
                                         \/ a.score = b.score /\ a.chunk < b.chunk
  BY <1>1
<1>3. \A a \in S : a \in Passage /\ a.score \in Int /\ a.chunk \in Int
  BY DEF Candidates, Passage
<1>4. StrictOrder(S, R)
  <2>1. \A a, b \in S : a # b => a.chunk # b.chunk
    BY DEF Candidates
  <2> QED
    BY <1>2, <1>3, <2>1 DEF StrictOrder
<1>5. PICK f, n : f = Ordered(S) /\ f = InOrderBy(S, R) /\ n = Cardinality(S)
  BY <1>1 DEF Ordered
<1>6. /\ n \in Nat /\ f \in Seq(S) /\ Len(f) = n
      /\ \A a \in S : \E k \in 1 .. n : f[k] = a
      /\ \A j, k \in 1 .. n : j < k => <<f[j], f[k]>> \in R
  BY <1>4, <1>5, InLineOrders DEF Candidates
<1>7. \A k \in 1 .. n : f[k] \in S
  BY <1>6, ElementOfSeq
<1>8. DOMAIN f = 1 .. n
  BY <1>6, LenProperties
<1>9. f \in Seq(Passage)
  <2>1. f \in [1 .. n -> Passage]
    <3>1. f \in [1 .. n -> S]
      BY <1>6, <1>8, LenProperties
    <3> QED
      BY <1>3, <3>1
  <2> QED
    BY <1>6, <2>1, SeqDef
<1>10. ASSUME NEW j \in 1 .. n, NEW k \in 1 .. n, f[j].chunk = f[k].chunk PROVE j = k
  <2>1. f[j] = f[k] /\ f[j] \in S
    BY <1>7, <1>10 DEF Candidates
  <2>2. ~ j < k /\ ~ k < j
    BY <1>4, <1>6, <2>1 DEF StrictOrder
  <2> QED
    BY <1>6, <2>2
<1>11. \A k \in 1 .. n : \E i \in S : Same(f[k], i)
  BY <1>7 DEF Same
<1>12. \A i \in S : \E k \in 1 .. n : Same(f[k], i)
  BY <1>6 DEF Same
<1> QED
  BY <1>5, <1>6, <1>8, <1>9, <1>10, <1>11, <1>12 DEF Line

(* A turn of a line is a line.                                             *)
LEMMA AlongLines ==
  ASSUME NEW S, NEW seq, Line(seq, S), NEW t, IsTurn(t, Len(seq))
  PROVE  Line(Along(seq, t), S)
<1>1. PICK n : n = Len(seq) /\ n \in Nat /\ DOMAIN seq = 1 .. n /\ DOMAIN t = 1 .. n
  BY LenProperties DEF Line, IsTurn
<1>2. \A k \in 1 .. n : t[k] \in 1 .. n
  BY <1>1, ElementOfSeq DEF IsTurn
<1>3. \A k \in 1 .. n : seq[k] \in Passage
  BY <1>1, ElementOfSeq DEF Line
<1>4. PICK a : a = Along(seq, t)
  OBVIOUS
<1>5. DOMAIN a = 1 .. n /\ \A k \in 1 .. n : a[k] = seq[t[k]]
  BY <1>1, <1>4 DEF Along
<1>6. a \in [1 .. n -> Passage]
  BY <1>1, <1>2, <1>3, <1>4 DEF Along
<1>7. a \in Seq(Passage) /\ Len(a) = n
  BY <1>1, <1>6
<1>8. ASSUME NEW j \in 1 .. n, NEW k \in 1 .. n, a[j].chunk = a[k].chunk PROVE j = k
  <2>1. PICK x \in 1 .. n, y \in 1 .. n : x = t[j] /\ y = t[k]
    BY <1>2
  <2>2. seq[x].chunk = seq[y].chunk
    BY <1>5, <1>8, <2>1
  <2>3. x = y
    BY <1>1, <2>2 DEF Line
  <2> QED
    BY <1>1, <2>1, <2>3 DEF IsTurn
<1>9. \A k \in 1 .. n : \E i \in S : Same(a[k], i)
  BY <1>1, <1>2, <1>5 DEF Line
<1>10. ASSUME NEW i \in S PROVE \E k \in 1 .. n : Same(a[k], i)
  <2>1. PICK j \in 1 .. n : Same(seq[j], i)
    BY <1>1 DEF Line
  <2>2. PICK k \in 1 .. n : t[k] = j
    BY <1>1 DEF IsTurn
  <2> QED
    BY <1>5, <2>1, <2>2
<1>11. n = Cardinality(S)
  BY <1>1 DEF Line
<1> QED
  BY <1>4, <1>5, <1>7, <1>8, <1>9, <1>10, <1>11 DEF Line

(* The greatest of some integers and one more.                             *)
LEMMA GreatestWith ==
  ASSUME NEW a \in Int, NEW S, S \subseteq Int, IsFiniteSet(S), NEW T, T = {a} \cup S
  PROVE  Max(T) \in Int /\ a <= Max(T)
<1>2. IsFiniteSet({a})
  BY FS_Singleton
<1>3. IsFiniteSet(T)
  BY <1>2, FS_Union
<1>4. T \subseteq Int /\ T # {} /\ a \in T
  OBVIOUS
<1>5. Max(T) \in T /\ \A y \in T : y <= Max(T)
  BY <1>3, <1>4, GreatestAndLeast
<1>6. PICK m : m = Max(T) /\ m \in T /\ \A y \in T : y <= m
  BY <1>5
<1>7. m \in Int /\ a <= m
  BY <1>4, <1>6
<1> QED
  BY <1>6, <1>7

(* A line's elements are passages of one text each.                        *)
LEMMA LineHolds ==
  ASSUME NEW S, Candidates(S), NEW seq, Line(seq, S)
  PROVE  /\ Len(seq) \in Nat /\ DOMAIN seq = 1 .. Len(seq)
         /\ \A k \in DOMAIN seq : /\ seq[k] \in Passage /\ seq[k].score \in Int
                                  /\ \E x \in Texts : seq[k].text = {x}
<1>1. Len(seq) \in Nat /\ DOMAIN seq = 1 .. Len(seq)
  BY LenProperties DEF Line
<1>2. ASSUME NEW k \in DOMAIN seq
      PROVE  seq[k] \in Passage /\ \E x \in Texts : seq[k].text = {x}
  <2>1. PICK i \in S : Same(seq[k], i)
    BY <1>2 DEF Line
  <2>2. seq[k] \in Passage
    BY <1>1, <1>2, ElementOfSeq DEF Line
  <2> QED
    BY <2>1, <2>2 DEF Same, Candidates
<1> QED
  BY <1>1, <1>2 DEF Passage

(* Likeness and gain are numbers.                                          *)
LEMMA GainIsInt ==
  ASSUME NEW S, Candidates(S), NEW seq, Line(seq, S), NEW w \in Int,
         NEW i \in DOMAIN seq, NEW placed, placed \subseteq DOMAIN seq
  PROVE  Gain(seq, w, i, placed) \in Int
<1>1. PICK n : n = Len(seq) /\ n \in Nat /\ DOMAIN seq = 1 .. n
  BY LineHolds
<1>2. IsFiniteSet(1 .. n)
  BY <1>1, FS_Interval
<1>3. PICK Y : Y = UNION {seq[j].text : j \in placed}
  OBVIOUS
<1>4. PICK P : P = seq[i].text \X Y
  OBVIOUS
<1>5. IsFiniteSet(P) /\ P \subseteq Texts \X Texts
  <2>1. PICK x \in Texts : seq[i].text = {x}
    BY LineHolds
  <2>2. PICK f : f = [j \in placed |-> CHOOSE y \in Texts : seq[j].text = {y}]
    OBVIOUS
  <2>3. \A j \in placed : f[j] \in Texts /\ seq[j].text = {f[j]}
    BY <2>2, LineHolds
  <2>4. Y = {f[j] : j \in placed}
    BY <1>3, <2>3
  <2>5. IsFiniteSet(placed)
    BY <1>1, <1>2, FS_Subset
  <2>6. DOMAIN f = placed
    BY <2>2
  <2>7. IsFiniteSet({f[j] : j \in placed})
    BY <2>5, <2>6, FiniteImage
  <2>8. Y \subseteq Texts
    BY <2>3, <2>4
  <2>9. PICK g : g = [y \in Y |-> <<x, y>>]
    OBVIOUS
  <2>10. g \in Surjection(Y, P)
    <3>1. P = {x} \X Y
      BY <1>4, <2>1
    <3>2. g \in [Y -> P]
      BY <2>9, <3>1
    <3>3. \A p \in P : \E y \in Y : g[y] = p
      BY <2>9, <3>1
    <3> QED
      BY <3>2, <3>3 DEF Surjection
  <2>11. IsFiniteSet(P)
    BY <2>4, <2>7, <2>10, FS_Surjection
  <2> QED
    BY <1>4, <2>1, <2>8, <2>11
<1>6. PICK L : L = {Like[p] : p \in P}
  OBVIOUS
<1>7. IsFiniteSet(L)
  <2>1. PICK g : g = [p \in P |-> Like[p]]
    OBVIOUS
  <2>2. g \in Surjection(P, L)
    BY <1>6, <2>1 DEF Surjection
  <2> QED
    BY <1>5, <2>2, FS_Surjection
<1>8. L \subseteq Int
  BY <1>5, <1>6, RecallAssumption
<1>9. PICK T : T = {0} \cup L
  OBVIOUS
<1>10. Max(T) \in Int
  <2>1. PICK z \in Int : z = 0
    OBVIOUS
  <2>2. T = {z} \cup L
    BY <1>9, <2>1
  <2> QED
    BY <1>7, <1>8, <2>2, GreatestWith
<1>11. Likeness(seq, i, placed) = Max(T)
  BY <1>3, <1>4, <1>6, <1>9 DEF Likeness
<1>12. PICK like \in Int : like = Likeness(seq, i, placed)
  BY <1>10, <1>11
<1>13. PICK f : f = [j \in 1 .. n |-> seq[j].score]
  OBVIOUS
<1>14. PICK C : C = {f[j] : j \in 1 .. n}
  OBVIOUS
<1>15. IsFiniteSet(C)
  <2>1. DOMAIN f = 1 .. n
    BY <1>13
  <2>2. IsFiniteSet({f[j] : j \in 1 .. n})
    BY <1>2, <2>1, FiniteImage
  <2> QED
    BY <1>14, <2>2
<1>16. \A j \in 1 .. n : seq[j].score \in Int
  BY <1>1, LineHolds
<1>17. C \subseteq Int
  BY <1>13, <1>14, <1>16
<1>18. PICK U : U = {1} \cup C
  OBVIOUS
<1>19. PICK top \in Int : top = Max(U) /\ 1 <= top
  <2>1. PICK one \in Int : one = 1
    OBVIOUS
  <2>2. U = {one} \cup C
    BY <1>18, <2>1
  <2>3. Max(U) \in Int /\ one <= Max(U)
    BY <1>15, <1>17, <2>2, GreatestWith
  <2> QED
    BY <2>1, <2>3
<1>20. {seq[j].score : j \in DOMAIN seq} = C
  BY <1>1, <1>13, <1>14
<1>21. top = Max({1} \cup {seq[j].score : j \in DOMAIN seq})
  BY <1>18, <1>19, <1>20
<1>22. PICK part \in Int : part = (100 * seq[i].score) \div top
  BY <1>1, <1>16, <1>19
<1>23. Gain(seq, w, i, placed) = (10 - w) * part - w * like
  BY <1>12, <1>21, <1>22 DEF Gain
<1>24. (10 - w) * part \in Int /\ w * like \in Int
  OBVIOUS
<1> QED
  BY <1>23, <1>24

(* The next place goes to one that has none.                               *)
LEMMA ForemostIsLeft ==
  ASSUME NEW S, Candidates(S), NEW seq, Line(seq, S), NEW w \in Int,
         NEW placed, placed \subseteq DOMAIN seq, placed # DOMAIN seq
  PROVE  Foremost(seq, w, placed) \in DOMAIN seq \ placed
<1>1. PICK left, n : left = DOMAIN seq \ placed /\ n \in Nat /\ DOMAIN seq = 1 .. n
  BY LineHolds
<1>2. IsFiniteSet(1 .. n)
  BY <1>1, FS_Interval
<1>3. left # {} /\ left \subseteq 1 .. n
  BY <1>1
<1>4. IsFiniteSet(left)
  BY <1>2, <1>3, FS_Subset
<1>5. PICK gain : gain = [i \in left |-> Gain(seq, w, i, placed)]
  OBVIOUS
<1>6. \A i \in left : gain[i] \in Int /\ i \in Int
  <2> SUFFICES ASSUME NEW i \in left PROVE gain[i] \in Int /\ i \in Int
    OBVIOUS
  <2>1. i \in DOMAIN seq /\ i \in Int
    BY <1>1
  <2>2. Gain(seq, w, i, placed) \in Int
    BY <2>1, GainIsInt
  <2> QED
    BY <1>5, <2>1, <2>2
<1>7. PICK R : R = {p \in left \X left :
                       gain[p[1]] > gain[p[2]] \/ (gain[p[1]] = gain[p[2]] /\ p[1] < p[2])}
  OBVIOUS
<1>8. \A a, b \in left : <<a, b>> \in R <=> gain[a] > gain[b] \/ (gain[a] = gain[b] /\ a < b)
  BY <1>7
<1>9. StrictOrder(left, R)
  BY <1>6, <1>8 DEF StrictOrder
<1>10. PICK a \in left : \A b \in left : b = a \/ <<a, b>> \in R
  BY <1>3, <1>4, <1>9, FirstInLine
<1>11. ASSUME NEW b \in left PROVE gain[a] > gain[b] \/ (gain[a] = gain[b] /\ a <= b)
  <2>1. CASE b = a
    BY <1>6, <2>1
  <2>2. CASE <<a, b>> \in R
    BY <1>6, <1>8, <2>2
  <2> QED
    BY <1>10, <2>1, <2>2
<1>12. (CHOOSE i \in left : \A j \in left : gain[i] > gain[j] \/ (gain[i] = gain[j] /\ i <= j)) \in left
  BY <1>11
<1> QED
  BY <1>1, <1>5, <1>12 DEF Foremost

(* The first places, from what they are said to be.                        *)
LEMMA DiverseIs ==
  ASSUME NEW seq, NEW w, NEW places \in Nat
  PROVE  Diverse(seq, w, places) =
           [k \in 1 .. places |->
              Foremost(seq, w, {Diverse(seq, w, places)[j] : j \in 1 .. k - 1})]
<1>1. PICK short : short = {m \in 0 .. places : ~ \E f :
                      f = [k \in 1 .. m |-> Foremost(seq, w, {f[j] : j \in 1 .. k - 1})]}
  OBVIOUS
<1>2. short = {}
  <2> SUFFICES ASSUME short # {} PROVE FALSE
    OBVIOUS
  <2>1. short \subseteq 0 .. places
    BY <1>1
  <2>2. PICK m \in short : m \in 0 .. places /\ \A k \in short : m <= k
    BY <2>1, FirstOf
  <2>3. m # 0
    <3>1. PICK f : f = [k \in 1 .. 0 |-> 0]
      OBVIOUS
    <3>2. f = [k \in 1 .. 0 |-> Foremost(seq, w, {f[j] : j \in 1 .. k - 1})]
      BY <3>1
    <3> QED
      BY <1>1, <3>2
  <2>4. m - 1 \in 0 .. places /\ m - 1 \notin short
    BY <2>2, <2>3
  <2>5. PICK g : g = [k \in 1 .. m - 1 |-> Foremost(seq, w, {g[j] : j \in 1 .. k - 1})]
    BY <1>1, <2>4
  <2>6. PICK f : f = [k \in 1 .. m |-> Foremost(seq, w, {g[j] : j \in 1 .. k - 1})]
    OBVIOUS
  <2>7. ASSUME NEW k \in 1 .. m - 1 PROVE f[k] = g[k]
    <3>1. k \in 1 .. m
      BY <2>2
    <3>2. f[k] = Foremost(seq, w, {g[j] : j \in 1 .. k - 1})
      BY <2>6, <3>1
    <3>3. g[k] = Foremost(seq, w, {g[j] : j \in 1 .. k - 1})
      BY <2>5
    <3> QED
      BY <3>2, <3>3
  <2>8. ASSUME NEW k \in 1 .. m PROVE {f[j] : j \in 1 .. k - 1} = {g[j] : j \in 1 .. k - 1}
    <3>1. \A j \in 1 .. k - 1 : j \in 1 .. m - 1
      BY <2>2
    <3> QED
      BY <2>7, <3>1
  <2>9. f = [k \in 1 .. m |-> Foremost(seq, w, {f[j] : j \in 1 .. k - 1})]
    BY <2>6, <2>8
  <2> QED
    BY <1>1, <2>9
<1>3. \E f : f = [k \in 1 .. places |-> Foremost(seq, w, {f[j] : j \in 1 .. k - 1})]
  <2>1. places \in 0 .. places
    OBVIOUS
  <2> QED
    BY <1>1, <1>2, <2>1
<1> QED
  BY <1>3, Zenon DEF Diverse

(* The first places are different places of the line.                      *)
LEMMA DiverseDiffer ==
  ASSUME NEW S, Candidates(S), NEW seq, Line(seq, S), NEW w \in Int,
         NEW places \in Nat, places <= Len(seq)
  PROVE  /\ Diverse(seq, w, places) \in Seq(DOMAIN seq) /\ Len(Diverse(seq, w, places)) = places
         /\ \A j, k \in 1 .. places :
              Diverse(seq, w, places)[j] = Diverse(seq, w, places)[k] => j = k
<1>1. PICK n : n = Len(seq) /\ n \in Nat /\ DOMAIN seq = 1 .. n /\ places <= n
  BY LineHolds
<1>2. PICK f : f = Diverse(seq, w, places)
  OBVIOUS
<1>3. f = [k \in 1 .. places |-> Foremost(seq, w, {f[j] : j \in 1 .. k - 1})]
  BY <1>2, DiverseIs
<1>4. PICK bad : bad = {k \in 1 .. places : f[k] \notin (1 .. n) \ {f[j] : j \in 1 .. k - 1}}
  OBVIOUS
<1>5. bad = {}
  <2> SUFFICES ASSUME bad # {} PROVE FALSE
    OBVIOUS
  <2>1. bad \subseteq 0 .. places
    BY <1>4
  <2>2. PICK k \in bad : k \in 0 .. places /\ \A j \in bad : k <= j
    BY <2>1, FirstOf
  <2>3. k \in 1 .. places
    BY <1>4
  <2>4. PICK P : P = {f[j] : j \in 1 .. k - 1}
    OBVIOUS
  <2>5. ASSUME NEW j \in 1 .. k - 1 PROVE f[j] \in 1 .. n
    <3>1. j \in 1 .. places /\ ~ k <= j
      BY <2>3
    <3>2. j \notin bad
      BY <2>2, <3>1
    <3> QED
      BY <1>4, <3>1, <3>2
  <2>6. P \subseteq 1 .. n
    BY <2>4, <2>5
  <2>7. P # 1 .. n
    <3>1. PICK m \in Nat : m = k - 1 /\ m < n
      BY <1>1, <2>3
    <3>2. PICK g : g = [j \in 1 .. m |-> f[j]]
      OBVIOUS
    <3>3. P = {f[j] : j \in 1 .. m}
      BY <2>4, <3>1
    <3>4. g \in Surjection(1 .. m, P)
      BY <3>2, <3>3 DEF Surjection
    <3>5. IsFiniteSet(1 .. m) /\ Cardinality(1 .. m) = m
      BY <3>1, FS_Interval
    <3>6. Cardinality(P) <= m
      BY <3>4, <3>5, FS_Surjection
    <3>7. Cardinality(1 .. n) = n
      <4>1. PICK one \in Int, last \in Int : one = 1 /\ last = n
        BY <1>1
      <4>2. Cardinality(one .. last) = IF one <= last THEN last - one + 1 ELSE 0
        BY FS_Interval
      <4> QED
        BY <1>1, <4>1, <4>2
    <3> QED
      BY <1>1, <3>1, <3>6, <3>7
  <2>8. Foremost(seq, w, P) \in (1 .. n) \ P
    BY <1>1, <2>6, <2>7, ForemostIsLeft
  <2>9. f[k] = Foremost(seq, w, P)
    BY <1>3, <2>3, <2>4
  <2> QED
    BY <1>4, <2>4, <2>8, <2>9
<1>6. ASSUME NEW k \in 1 .. places PROVE f[k] \in 1 .. n /\ \A j \in 1 .. k - 1 : f[k] # f[j]
  <2>1. f[k] \in (1 .. n) \ {f[j] : j \in 1 .. k - 1}
    BY <1>4, <1>5
  <2> QED
    BY <2>1
<1>7. DOMAIN f = 1 .. places
  BY <1>3
<1>8. f \in [1 .. places -> 1 .. n]
  <2>1. \A k \in 1 .. places : f[k] \in 1 .. n
    BY <1>6
  <2>2. f = [k \in 1 .. places |-> f[k]]
    BY <1>3, <1>7
  <2> QED
    BY <2>1, <2>2
<1>9. f \in Seq(1 .. n) /\ Len(f) = places
  <2>1. f \in Seq(1 .. n)
    BY <1>8, SeqDef
  <2>2. Len(f) \in Nat /\ DOMAIN f = 1 .. Len(f)
    BY <2>1, LenProperties
  <2>3. PICK l \in Nat, m \in Nat : l = Len(f) /\ m = places /\ 1 .. l = 1 .. m
    BY <1>7, <2>2
  <2>4. l = m
    <3>1. ~ l < m
      <4>1. l < m => m \in 1 .. m /\ m \notin 1 .. l
        BY <2>3
      <4> QED
        BY <2>3, <4>1
    <3>2. ~ m < l
      <4>1. m < l => l \in 1 .. l /\ l \notin 1 .. m
        BY <2>3
      <4> QED
        BY <2>3, <4>1
    <3> QED
      BY <2>3, <3>1, <3>2
  <2> QED
    BY <2>1, <2>3, <2>4
<1>10. ASSUME NEW j \in 1 .. places, NEW k \in 1 .. places, f[j] = f[k] PROVE j = k
  <2>1. ~ j \in 1 .. k - 1 /\ ~ k \in 1 .. j - 1
    BY <1>6, <1>10
  <2> QED
    BY <2>1
<1> QED
  BY <1>1, <1>2, <1>9, <1>10

(* mmr_order lists the candidates.                                         *)
LEMMA MostDiverseLines ==
  ASSUME NEW S, Candidates(S), NEW seq, Line(seq, S), NEW w \in Int, NEW places \in Nat
  PROVE  Line(MostDiverse(seq, w, places), S)
<1>1. PICK n : n = Len(seq) /\ n \in Nat /\ DOMAIN seq = 1 .. n
  BY LineHolds
<1>2. PICK m \in Nat : m = AtMost(places, Len(seq)) /\ m <= n
  BY <1>1 DEF AtMost
<1>3. PICK f : f = Diverse(seq, w, AtMost(places, Len(seq))) /\ f = Diverse(seq, w, m)
  BY <1>2
<1>4. f \in Seq(1 .. n) /\ Len(f) = m /\ \A j, k \in 1 .. m : f[j] = f[k] => j = k
  BY <1>1, <1>2, <1>3, DiverseDiffer
<1>5. DOMAIN f = 1 .. m
  BY <1>4, LenProperties
<1>6. PICK A : A = {f[k] : k \in 1 .. m}
  OBVIOUS
<1>7. IsTurn(f \o Increasing((1 .. n) \ A), n)
  BY <1>1, <1>4, <1>6, TwoTurns
<1>8. MostDiverse(seq, w, places) = Along(seq, f \o Increasing((1 .. n) \ A))
  BY <1>1, <1>3, <1>5, <1>6 DEF MostDiverse
<1> QED
  BY <1>1, <1>7, <1>8, AlongLines

(* A reranker gives other scores to the same candidates.                   *)
LEMMA RerankedAlike ==
  ASSUME NEW S, Candidates(S), S # {}, NEW rating \in [S -> Int]
  PROVE  /\ Candidates(Reranked(S, rating)) /\ Cardinality(Reranked(S, rating)) = Cardinality(S)
         /\ \A j \in Reranked(S, rating) : \E i \in S : Same(j, i)
         /\ \A i \in S : \E j \in Reranked(S, rating) : Same(j, i)
<1>1. PICK R : R = {rating[i] : i \in S}
  OBVIOUS
<1>2. IsFiniteSet(S) /\ \A i \in S : i \in Passage
  BY DEF Candidates
<1>3. IsFiniteSet(R)
  <2>1. DOMAIN rating = S
    OBVIOUS
  <2>2. IsFiniteSet({rating[i] : i \in S})
    BY <1>2, <2>1, FiniteImage
  <2> QED
    BY <1>1, <2>2
<1>4. R \subseteq Int /\ R # {}
  BY <1>1
<1>5. PICK low \in Int, high \in Int : low = Min(R) /\ high = Max(R) /\ low <= high
  <2>1. Max(R) \in R /\ Min(R) \in R /\ \A y \in R : Min(R) <= y
    BY <1>3, <1>4, GreatestAndLeast
  <2> QED
    BY <1>4, <2>1
<1>6. PICK span \in Int : span = (IF high = low THEN 1 ELSE high - low) /\ span > 0
  BY <1>5
<1>7. PICK new : new = [i \in S |->
                     [i EXCEPT !.score = 70 * (((rating[i] - low) * 100) \div span) + 30 * @]]
  OBVIOUS
<1>8. Reranked(S, rating) = {new[i] : i \in S}
  BY <1>1, <1>5, <1>6, <1>7 DEF Reranked
<1>9. ASSUME NEW i \in S PROVE new[i] \in Passage /\ Same(new[i], i)
  <2>1. PICK part \in Int : part = ((rating[i] - low) * 100) \div span
    BY <1>6
  <2>2. i \in Passage /\ i.score \in Int
    BY <1>2 DEF Passage
  <2>3. PICK score \in Int : score = 70 * part + 30 * i.score
    BY <2>2
  <2>4. new[i] = [i EXCEPT !.score = score]
    BY <1>7, <2>1, <2>3
  <2> QED
    BY <2>2, <2>3, <2>4 DEF Passage, Same
<1>10. PICK T : T = {new[i] : i \in S}
  OBVIOUS
<1>11. \A j \in T : \E i \in S : Same(j, i) /\ j = new[i]
  BY <1>9, <1>10
<1>12. \A i \in S : new[i] \in T /\ Same(new[i], i)
  BY <1>9, <1>10
<1>13. new \in Surjection(S, T) /\ new \in Injection(S, T)
  <2>1. new \in [S -> T]
    BY <1>7, <1>12
  <2>2. ASSUME NEW i \in S, NEW j \in S, new[i] = new[j] PROVE i = j
    <3>1. i.chunk = j.chunk
      BY <1>12, <2>2 DEF Same
    <3> QED
      BY <3>1 DEF Candidates
  <2> QED
    BY <1>11, <2>1, <2>2 DEF Surjection, Injection, IsInjective
<1>14. IsFiniteSet(T) /\ Cardinality(T) = Cardinality(S)
  BY <1>2, <1>13, FS_Surjection
<1>15. Candidates(T)
  <2>1. T \subseteq Passage
    BY <1>9, <1>10
  <2>2. ASSUME NEW j \in T PROVE \E x \in Texts : j.text = {x}
    <3>1. PICK i \in S : Same(j, i)
      BY <1>11
    <3> QED
      BY <3>1 DEF Same, Candidates
  <2>3. ASSUME NEW j \in T, NEW k \in T, j.chunk = k.chunk PROVE j = k
    <3>1. PICK a \in S : Same(j, a) /\ j = new[a]
      BY <1>11
    <3>2. PICK b \in S : Same(k, b) /\ k = new[b]
      BY <1>11
    <3>3. a.chunk = b.chunk
      BY <2>3, <3>1, <3>2 DEF Same
    <3>4. a = b
      BY <3>3 DEF Candidates
    <3> QED
      BY <3>1, <3>2, <3>4
  <2> QED
    BY <1>14, <2>1, <2>2, <2>3 DEF Candidates
<1> QED
  BY <1>8, <1>10, <1>11, <1>12, <1>14, <1>15

(* The order in which the survivors are considered lists each once,        *)
(* whether or not the reranker and the diversity work.                     *)
LEMMA InOrderLines ==
  ASSUME Candidates(items), request \in Requests, NEW r \in BOOLEAN, NEW d \in BOOLEAN
  PROVE  Candidates(Survivors) /\ Line(InOrder(r, d), Survivors)
<1>1. PICK S : S = Survivors
  OBVIOUS
<1>2. Candidates(S)
  <2>1. S \subseteq items
    BY <1>1 DEF Survivors
  <2> QED
    BY <2>1, SomeCandidates
<1>3. PICK rating : rating = [i \in S |-> RatingOf(i)]
  OBVIOUS
<1>4. rating \in [S -> Int]
  <2> SUFFICES ASSUME NEW i \in S PROVE RatingOf(i) \in Int
    BY <1>3
  <2>1. PICK x \in Texts : i.text = {x}
    BY <1>2 DEF Candidates
  <2>2. Rating[x] \in Int
    BY RecallAssumption
  <2>3. PICK R : R = {Rating[x]}
    OBVIOUS
  <2>4. IsFiniteSet(R) /\ R \subseteq Int /\ R # {}
    BY <2>2, <2>3, FS_Singleton
  <2>5. Max(R) \in Int
    BY <2>4, GreatestAndLeast
  <2>6. {Rating[y] : y \in i.text} = R
    BY <2>1, <2>3
  <2> QED
    BY <2>5, <2>6 DEF RatingOf
<1>5. PICK scored : scored = (IF request.rerank /\ S # {} /\ ~ r THEN Reranked(S, rating) ELSE S)
  OBVIOUS
<1>6. /\ Candidates(scored) /\ Cardinality(scored) = Cardinality(S)
      /\ \A j \in scored : \E i \in S : Same(j, i)
      /\ \A i \in S : \E j \in scored : Same(j, i)
  <2>1. CASE scored = S
    BY <1>2, <2>1 DEF Same
  <2>2. CASE S # {} /\ scored = Reranked(S, rating)
    BY <1>2, <1>4, <2>2, RerankedAlike
  <2> QED
    BY <1>5, <2>1, <2>2
<1>7. PICK ranked : ranked = Ordered(scored)
  OBVIOUS
<1>8. Line(ranked, scored)
  BY <1>6, <1>7, OrderedLines
<1>9. PICK w, places : w = request.diversity /\ places = 2 * request.limit
  OBVIOUS
<1>10. w \in Int /\ places \in Nat
  <2>1. request.limit \in Nat /\ request.diversity \in 0 .. 10
    BY RecallAssumption
  <2> QED
    BY <1>9, <2>1
<1>11. PICK seq : seq = (IF w > 0 /\ ~ d THEN MostDiverse(ranked, w, places) ELSE ranked)
  OBVIOUS
<1>12. Line(seq, scored)
  BY <1>6, <1>8, <1>10, <1>11, MostDiverseLines
<1>13. Line(seq, S)
  <2>1. \A k \in DOMAIN seq : \E i \in S : Same(seq[k], i)
    BY <1>6, <1>12 DEF Line, Same
  <2>2. \A i \in S : \E k \in DOMAIN seq : Same(seq[k], i)
    BY <1>6, <1>12 DEF Line, Same
  <2> QED
    BY <1>6, <1>12, <2>1, <2>2 DEF Line
<1>14. seq = InOrder(r, d)
  BY <1>1, <1>3, <1>5, <1>7, <1>9, <1>11 DEF InOrder
<1> QED
  BY <1>1, <1>2, <1>13, <1>14

-----------------------------------------------------------------------------
(***************************************************************************)
(* Which of them have a place                                              *)
(***************************************************************************)

(* Passages that are among the candidates S.                               *)
Drawn(seq, S) ==
  /\ seq \in Seq(Passage) /\ DOMAIN seq = 1 .. Len(seq)
  /\ \A k \in DOMAIN seq : \E i \in S : Same(seq[k], i)

(* Some places of a list of candidates, in any turn.                       *)
LEMMA AlongDraws ==
  ASSUME NEW S, NEW seq, Drawn(seq, S), NEW t \in Seq(DOMAIN seq)
  PROVE  /\ Drawn(Along(seq, t), S) /\ Len(Along(seq, t)) = Len(t)
         /\ DOMAIN Along(seq, t) = 1 .. Len(t)
         /\ \A k \in 1 .. Len(t) : t[k] \in DOMAIN seq /\ Along(seq, t)[k] = seq[t[k]]
<1>1. PICK n, m : n = Len(seq) /\ n \in Nat /\ DOMAIN seq = 1 .. n /\ m = Len(t) /\ m \in Nat /\ DOMAIN t = 1 .. m
  BY LenProperties DEF Drawn
<1>2. \A k \in 1 .. m : t[k] \in 1 .. n
  BY <1>1, ElementOfSeq
<1>3. \A k \in 1 .. n : seq[k] \in Passage
  BY <1>1, ElementOfSeq DEF Drawn
<1>4. PICK a : a = Along(seq, t)
  OBVIOUS
<1>5. DOMAIN a = 1 .. m /\ \A k \in 1 .. m : a[k] = seq[t[k]]
  BY <1>1, <1>4 DEF Along
<1>6. a \in [1 .. m -> Passage]
  BY <1>1, <1>2, <1>3, <1>4 DEF Along
<1>7. a \in Seq(Passage) /\ Len(a) = m
  BY <1>1, <1>6
<1>8. \A k \in 1 .. m : \E i \in S : Same(a[k], i)
  BY <1>1, <1>2, <1>5 DEF Drawn
<1> QED
  BY <1>1, <1>2, <1>4, <1>5, <1>7, <1>8 DEF Drawn

(* A sequence of some things is one of more things.                        *)
LEMMA SeqWider ==
  ASSUME NEW A, NEW B, A \subseteq B, NEW t \in Seq(A)
  PROVE  t \in Seq(B)
<1>1. PICK m \in Nat : m = Len(t) /\ DOMAIN t = 1 .. m /\ t \in [1 .. m -> A]
  BY LenProperties
<1>2. t \in [1 .. m -> B]
  BY <1>1
<1> QED
  BY <1>2, SeqDef

(* The cut leaves some of them.                                            *)
LEMMA CutDraws ==
  ASSUME NEW S, NEW seq, Drawn(seq, S)
  PROVE  Drawn(AboveTheCut(seq), S) /\ (~ request.cutoff => AboveTheCut(seq) = seq)
<1>1. CASE ~ request.cutoff
  BY <1>1 DEF AboveTheCut
<1>2. CASE request.cutoff
  <2>1. PICK floor : floor = Threshold(LaneCosines, request.limit)
    OBVIOUS
  <2>2. PICK above : above = {k \in DOMAIN seq : \/ floor = NoCosine
                                                 \/ /\ seq[k].similarity # NoCosine
                                                    /\ seq[k].similarity >= floor}
    OBVIOUS
  <2>3. PICK n : n = Len(seq) /\ n \in Nat /\ DOMAIN seq = 1 .. n
    BY LenProperties DEF Drawn
  <2>4. IsFiniteSet(1 .. n)
    BY <2>3, FS_Interval
  <2>5. above \subseteq 1 .. n
    BY <2>2, <2>3
  <2>6. IsFiniteSet(above) /\ above \subseteq Int
    <3>1. IsFiniteSet(above)
      BY <2>4, <2>5, FS_Subset
    <3>2. above \subseteq Int
      BY <2>5
    <3> QED
      BY <3>1, <3>2
  <2>7. PICK t : t = Increasing(above) /\ t \in Seq(above)
    BY <2>6, Increases
  <2>8. t \in Seq(1 .. n)
    BY <2>5, <2>7, SeqWider
  <2>9. Drawn(Along(seq, t), S)
    BY <2>3, <2>8, AlongDraws
  <2>10. AboveTheCut(seq) = Along(seq, t)
    BY <1>2, <2>1, <2>2, <2>7 DEF AboveTheCut
  <2> QED
    BY <1>2, <2>9, <2>10
<1> QED
  BY <1>1, <1>2

(* A set with two members has at least two.                                *)
LEMMA TwoIn ==
  ASSUME NEW S, IsFiniteSet(S), NEW a \in S, NEW b \in S, a # b
  PROVE  Cardinality(S) \in Nat /\ Cardinality(S) >= 2
<1>1. PICK T : T = {a, b}
  OBVIOUS
<1>2. T \subseteq S
  BY <1>1
<1>3. IsFiniteSet(T) /\ Cardinality(T) <= Cardinality(S)
  BY <1>2, FS_Subset
<1>4. T # {} /\ ~ \E x : T = {x}
  BY <1>1
<1>5. Cardinality(T) \in Nat /\ Cardinality(T) # 0 /\ Cardinality(T) # 1
  BY <1>3, <1>4, FS_CardinalityType, FS_EmptySet, FS_Singleton
<1>6. Cardinality(S) \in Nat
  BY FS_CardinalityType
<1> QED
  BY <1>3, <1>5, <1>6

(* A set within one element has at most one.                               *)
LEMMA OneIn ==
  ASSUME NEW S, NEW a, S \subseteq {a}
  PROVE  Cardinality(S) \in Nat /\ Cardinality(S) < 2
<1>1. IsFiniteSet({a}) /\ Cardinality({a}) = 1
  BY FS_Singleton
<1>2. IsFiniteSet(S) /\ Cardinality(S) <= 1
  BY <1>1, FS_Subset
<1> QED
  BY <1>2, FS_CardinalityType

(* Those of the same episode that come before.                             *)
Sooner(seq, k) == {j \in 1 .. k - 1 : seq[j].episode = seq[k].episode}

(* The places go to candidates, as many as there are up to the limit, and  *)
(* an episode has more than two only if every episode that is left out of  *)
(* some place has two.                                                     *)
LEMMA PickedShares ==
  ASSUME NEW S, Candidates(S), NEW seq, Line(seq, S), NEW limit \in Nat
  PROVE  /\ Drawn(Picked(seq, limit), S)
         /\ Len(Picked(seq, limit)) = (IF limit = 0 THEN Cardinality(S) ELSE AtMost(limit, Cardinality(S)))
         /\ \A i, j \in S :
              /\ OfEpisode(Picked(seq, limit), i.episode) > MaxPerEpisode
              /\ \A k \in DOMAIN Picked(seq, limit) : Picked(seq, limit)[k].chunk # j.chunk
              => OfEpisode(Picked(seq, limit), j.episode) >= MaxPerEpisode
<1>1. PICK n : n = Len(seq) /\ n \in Nat /\ DOMAIN seq = 1 .. n /\ n = Cardinality(S)
  BY LineHolds DEF Line
<1>2. IsFiniteSet(1 .. n)
  BY <1>1, FS_Interval
<1>3. PICK early : early = {k \in 1 .. n : Cardinality({j \in 1 .. k - 1 : seq[j].episode = seq[k].episode})
                                             < MaxPerEpisode}
  OBVIOUS
<1>4. early \subseteq 1 .. n /\ \A k \in 1 .. n : k \in early <=> Cardinality(Sooner(seq, k)) < 2
  BY <1>3 DEF Sooner, MaxPerEpisode
<1>5. IsFiniteSet(early)
  BY <1>2, <1>4, FS_Subset
<1>6. early \subseteq Int
  BY <1>4
<1>7. PICK f, l : f = Increasing(early) /\ l = Cardinality(early)
  OBVIOUS
<1>8. /\ l \in Nat /\ f \in Seq(early) /\ Len(f) = l
      /\ \A a \in early : \E k \in 1 .. l : f[k] = a
      /\ \A j, k \in 1 .. l : j < k => f[j] < f[k]
  BY <1>5, <1>6, <1>7, Increases
<1>9. \A k \in 1 .. l : f[k] \in early
  BY <1>8, ElementOfSeq
<1>10. f \in Seq(1 .. n)
  BY <1>4, <1>8, SeqWider
<1>11. ASSUME NEW j \in 1 .. l, NEW k \in 1 .. l, f[j] = f[k] PROVE j = k
  <2>1. f[j] \in Int /\ f[k] \in Int
    BY <1>6, <1>9
  <2>2. ~ j < k /\ ~ k < j
    BY <1>8, <1>11, <2>1
  <2> QED
    BY <1>8, <2>2
<1>12. early = {f[k] : k \in 1 .. l}
  BY <1>8, <1>9
<1>13. PICK g : g = Increasing((1 .. n) \ early)
  OBVIOUS
<1>14. IsTurn(f \o g, n)
  BY <1>1, <1>8, <1>10, <1>11, <1>12, <1>13, TwoTurns
<1>15. PICK t : t = f \o g
  OBVIOUS
<1>16. /\ t \in Seq(1 .. n) /\ Len(t) = n /\ DOMAIN t = 1 .. n
       /\ \A k \in 1 .. n : t[k] \in 1 .. n
       /\ \A j, k \in 1 .. n : t[j] = t[k] => j = k
  BY <1>1, <1>14, <1>15, ElementOfSeq DEF IsTurn
<1>17. l <= n /\ \A k \in 1 .. l : t[k] = f[k]
  <2>1. PICK B : B = (1 .. n) \ early
    OBVIOUS
  <2>2. IsFiniteSet(B)
    BY <1>2, <2>1, FS_Subset
  <2>3. B \subseteq Int
    BY <2>1
  <2>4. g \in Seq(B) /\ Len(g) = Cardinality(B) /\ Cardinality(B) \in Nat
    BY <1>13, <2>1, <2>2, <2>3, Increases
  <2>5. g \in Seq(1 .. n)
    BY <2>1, <2>4, SeqWider
  <2>6. /\ Len(f \o g) = Len(f) + Len(g)
        /\ \A k \in 1 .. Len(f) + Len(g) : (f \o g)[k] = IF k <= Len(f) THEN f[k] ELSE g[k - Len(f)]
    BY <1>10, <2>5, ConcatProperties, Zenon
  <2> QED
    BY <1>1, <1>8, <1>15, <1>16, <2>4, <2>6
<1>18. PICK m : m = (IF limit = 0 THEN n ELSE AtMost(limit, n)) /\ m \in Nat /\ m <= n
  BY <1>1 DEF AtMost
<1>19. PICK u : u = SubSeq(t, 1, m)
  OBVIOUS
<1>20. /\ u \in Seq(1 .. n) /\ Len(u) = m
       /\ \A k \in 1 .. m : u[k] = t[k] /\ k \in 1 .. n
  <2>1. PICK one \in Int, last \in Int : one = 1 /\ last = m
    BY <1>18
  <2>2. \A k \in one .. last : t[k] \in 1 .. n
    BY <1>16, <1>18, <2>1
  <2>3. /\ SubSeq(t, one, last) \in Seq(1 .. n)
        /\ Len(SubSeq(t, one, last)) = (IF one <= last THEN last - one + 1 ELSE 0)
        /\ \A k \in 1 .. last - one + 1 : SubSeq(t, one, last)[k] = t[one + k - 1]
    BY <2>2, SubSeqProperties
  <2>4. u = SubSeq(t, one, last)
    BY <1>19, <2>1
  <2> QED
    BY <1>1, <1>18, <2>1, <2>3, <2>4
<1>21. PICK p : p = Along(seq, u)
  OBVIOUS
<1>22. p = Picked(seq, limit)
  BY <1>1, <1>3, <1>7, <1>13, <1>15, <1>18, <1>19, <1>21 DEF Picked
<1>23. Drawn(seq, S)
  BY DEF Line, Drawn
<1>24. /\ Drawn(p, S) /\ Len(p) = m /\ DOMAIN p = 1 .. m
       /\ \A k \in 1 .. m : t[k] \in 1 .. n /\ p[k] = seq[t[k]]
  BY <1>1, <1>20, <1>21, <1>23, AlongDraws
<1>25. ASSUME NEW e, m <= l PROVE ~ OfEpisode(p, e) > MaxPerEpisode
  <2>1. PICK K, c : K = {k \in 1 .. m : p[k].episode = e} /\ c = Cardinality(K)
    OBVIOUS
  <2>2. K \subseteq 1 .. n
    BY <1>18, <2>1
  <2>3. IsFiniteSet(K)
    BY <1>2, <2>2, FS_Subset
  <2>4. K \subseteq Int
    BY <2>1
  <2>5. PICK h : h = Increasing(K)
    OBVIOUS
  <2>6. /\ c \in Nat /\ h \in Seq(K) /\ Len(h) = c
        /\ \A j, k \in 1 .. c : j < k => h[j] < h[k]
    BY <2>1, <2>3, <2>4, <2>5, Increases
  <2>7. ~ c > 2
    <3> SUFFICES ASSUME c > 2 PROVE FALSE
      OBVIOUS
    <3>1. 1 \in 1 .. c /\ 2 \in 1 .. c /\ 3 \in 1 .. c
      BY <2>6
    <3>2. PICK i \in K, j \in K, k \in K : i = h[1] /\ j = h[2] /\ k = h[3]
      BY <2>6, <3>1, ElementOfSeq
    <3>3. i < j /\ j < k
      BY <2>6, <3>1, <3>2
    <3>4. i \in 1 .. l /\ j \in 1 .. l /\ k \in 1 .. l /\ i \in 1 .. m /\ j \in 1 .. m /\ k \in 1 .. m
      BY <1>8, <1>18, <1>25, <2>1
    <3>5. PICK x \in early, y \in early, z \in early : x = f[i] /\ y = f[j] /\ z = f[k]
      BY <1>9, <3>4
    <3>6. x < y /\ y < z
      BY <1>8, <3>3, <3>4, <3>5
    <3>7. seq[x].episode = e /\ seq[y].episode = e /\ seq[z].episode = e
      BY <1>17, <1>24, <2>1, <3>4, <3>5
    <3>8. x \in 1 .. n /\ y \in 1 .. n /\ z \in 1 .. n
      BY <1>4
    <3>9. x \in Sooner(seq, z) /\ y \in Sooner(seq, z) /\ x # y /\ Sooner(seq, z) \subseteq 1 .. n
      BY <1>1, <3>6, <3>7, <3>8 DEF Sooner
    <3>10. IsFiniteSet(Sooner(seq, z))
      BY <1>2, <3>9, FS_Subset
    <3>11. Cardinality(Sooner(seq, z)) \in Nat /\ Cardinality(Sooner(seq, z)) >= 2
      BY <3>9, <3>10, TwoIn
    <3> QED
      BY <1>4, <3>8, <3>11
  <2>8. OfEpisode(p, e) = c
    BY <1>24, <2>1 DEF OfEpisode
  <2> QED
    BY <2>6, <2>7, <2>8 DEF MaxPerEpisode
<1>26. ASSUME NEW j \in S, ~ m <= l, \A k \in 1 .. m : p[k].chunk # j.chunk
       PROVE  OfEpisode(p, j.episode) >= MaxPerEpisode
  <2>1. PICK a \in 1 .. n : Same(seq[a], j)
    BY <1>1 DEF Line
  <2>2. \A k \in 1 .. m : t[k] # a
    BY <1>24, <1>26, <2>1 DEF Same
  <2>3. a \notin early
    <3> SUFFICES ASSUME a \in early PROVE FALSE
      OBVIOUS
    <3>1. PICK k \in 1 .. l : f[k] = a
      BY <1>8
    <3>2. k \in 1 .. m
      BY <1>8, <1>18, <1>26
    <3> QED
      BY <1>17, <2>2, <3>1, <3>2
  <2>4. PICK Q : Q = Sooner(seq, a)
    OBVIOUS
  <2>5. Q \subseteq 1 .. n
    BY <1>1, <2>4 DEF Sooner
  <2>6. IsFiniteSet(Q)
    BY <1>2, <2>5, FS_Subset
  <2>7. Q \subseteq Int
    BY <2>5
  <2>8. PICK h, c : h = Increasing(Q) /\ c = Cardinality(Q)
    OBVIOUS
  <2>9. /\ c \in Nat /\ h \in Seq(Q) /\ Len(h) = c
        /\ \A b \in Q : \E k \in 1 .. c : h[k] = b
        /\ \A i, k \in 1 .. c : i < k => h[i] < h[k]
    BY <2>6, <2>7, <2>8, Increases
  <2>10. c >= 2
    BY <1>4, <2>3, <2>4, <2>8, <2>9
  <2>11. 1 \in 1 .. c /\ 2 \in 1 .. c
    BY <2>9, <2>10
  <2>12. PICK x \in Q, y \in Q : x = h[1] /\ y = h[2] /\ x < y
    BY <2>9, <2>11, ElementOfSeq
  <2>13. ASSUME NEW w \in Q PROVE w \in Int /\ x <= w /\ (w = x \/ y <= w)
    <3>1. PICK k \in 1 .. c : h[k] = w
      BY <2>9
    <3>2. k = 1 \/ k = 2 \/ 2 < k
      BY <2>9
    <3>3. k = 1 \/ k = 2 \/ y < w
      BY <2>9, <2>11, <2>12, <3>1, <3>2
    <3>4. w \in Int /\ x \in Int /\ y \in Int
      BY <2>7
    <3> QED
      BY <2>12, <3>1, <3>3, <3>4
  <2>14. \A w \in Q : w \in 1 .. a - 1 /\ seq[w].episode = seq[a].episode
    BY <2>4 DEF Sooner
  <2>15. ASSUME NEW z \in {x, y} PROVE z \in early
    <3>1. z \in Q /\ z \in 1 .. n
      BY <2>5
    <3>2. Sooner(seq, z) \subseteq {x}
      <4> SUFFICES ASSUME NEW w \in Sooner(seq, z) PROVE w = x
        OBVIOUS
      <4>1. w \in 1 .. z - 1 /\ seq[w].episode = seq[z].episode
        BY DEF Sooner
      <4>2. w \in Q
        BY <1>1, <2>4, <2>14, <3>1, <4>1 DEF Sooner
      <4>3. w < z
        BY <3>1, <4>1
      <4> QED
        BY <2>12, <2>13, <4>2, <4>3
    <3>3. Cardinality(Sooner(seq, z)) < 2
      BY <3>2, OneIn
    <3> QED
      BY <1>4, <3>1, <3>3
  <2>16. PICK i \in 1 .. l : f[i] = x
    BY <1>8, <2>15
  <2>17. PICK k \in 1 .. l : f[k] = y
    BY <1>8, <2>15
  <2>18. i \in 1 .. m /\ k \in 1 .. m /\ i # k
    BY <1>8, <1>18, <1>26, <2>7, <2>12, <2>16, <2>17
  <2>19. p[i].episode = j.episode /\ p[k].episode = j.episode
    BY <1>17, <1>24, <2>1, <2>14, <2>16, <2>17, <2>18 DEF Same
  <2>20. PICK K : K = {b \in 1 .. m : p[b].episode = j.episode}
    OBVIOUS
  <2>21. K \subseteq 1 .. n
    BY <1>18, <2>20
  <2>22. IsFiniteSet(K)
    BY <1>2, <2>21, FS_Subset
  <2>23. Cardinality(K) >= 2
    BY <2>18, <2>19, <2>20, <2>22, TwoIn
  <2> QED
    BY <1>24, <2>20, <2>23 DEF OfEpisode, MaxPerEpisode
<1> QED
  BY <1>1, <1>18, <1>22, <1>24, <1>25, <1>26

(* The budget keeps the first of them.                                     *)
LEMMA BudgetedHeads ==
  ASSUME NEW seq \in Seq(Passage), NEW budget
  PROVE  /\ Budgeted(seq, budget) \in Seq(Passage)
         /\ \A k \in DOMAIN Budgeted(seq, budget) :
              k \in DOMAIN seq /\ Budgeted(seq, budget)[k] = seq[k]
<1>1. PICK n : n = Len(seq) /\ n \in Nat /\ DOMAIN seq = 1 .. n
  BY LenProperties
<1>2. PICK fitting : fitting = {k \in 0 .. Len(seq) : \A j \in 2 .. k : LengthOf(seq, j) <= budget}
  OBVIOUS
<1>3. fitting \subseteq 0 .. n /\ 0 \in fitting
  BY <1>1, <1>2
<1>4. IsFiniteSet(fitting)
  <2>1. IsFiniteSet(0 .. n)
    BY <1>1, FS_Interval
  <2> QED
    BY <1>3, <2>1, FS_Subset
<1>5. fitting \subseteq Int /\ fitting # {}
  BY <1>3
<1>6. PICK m : m = Max(fitting) /\ m \in fitting
  BY <1>4, <1>5, GreatestAndLeast
<1>7. PICK one \in Int, last \in Int : one = 1 /\ last = m /\ 0 <= last /\ last <= n
  BY <1>1, <1>3, <1>6
<1>8. \A k \in one .. last : seq[k] \in Passage
  BY <1>1, <1>7, ElementOfSeq
<1>9. /\ SubSeq(seq, one, last) \in Seq(Passage)
      /\ Len(SubSeq(seq, one, last)) = (IF one <= last THEN last - one + 1 ELSE 0)
      /\ \A k \in 1 .. last - one + 1 : SubSeq(seq, one, last)[k] = seq[one + k - 1]
  BY <1>8, SubSeqProperties
<1>10. PICK s : s = SubSeq(seq, one, last)
  OBVIOUS
<1>11. s \in Seq(Passage) /\ Len(s) = last /\ \A k \in 1 .. last : s[k] = seq[k]
  BY <1>7, <1>9, <1>10
<1>12. DOMAIN s = 1 .. last /\ \A k \in 1 .. last : k \in 1 .. n
  BY <1>1, <1>7, <1>11, LenProperties
<1>13. s = Budgeted(seq, budget)
  BY <1>2, <1>6, <1>7, <1>10 DEF Budgeted
<1> QED
  BY <1>1, <1>11, <1>12, <1>13

(* So is what is packed.                                                   *)
LEMMA PackedHeads ==
  ASSUME NEW seq \in Seq(Passage)
  PROVE  /\ Packed(seq) \in Seq(Passage)
         /\ \A k \in DOMAIN Packed(seq) : k \in DOMAIN seq /\ Packed(seq)[k] = seq[k]
         /\ request.budget = NoBudget => Packed(seq) = seq
<1>1. CASE request.budget = NoBudget
  BY <1>1 DEF Packed
<1>2. CASE request.budget # NoBudget
  <2>1. PICK left : left = Max({0, request.budget - FactBytes})
    OBVIOUS
  <2>2. PICK first : first = Budgeted(seq, request.budget)
    OBVIOUS
  <2>3. first \in Seq(Passage) /\ \A k \in DOMAIN first : k \in DOMAIN seq /\ first[k] = seq[k]
    BY <2>2, BudgetedHeads
  <2>4. PICK s : s = Budgeted(first, left)
    OBVIOUS
  <2>5. s \in Seq(Passage) /\ \A k \in DOMAIN s : k \in DOMAIN first /\ s[k] = first[k]
    BY <2>3, <2>4, BudgetedHeads
  <2>6. Packed(seq) = s
    BY <1>2, <2>1, <2>2, <2>4 DEF Packed
  <2> QED
    BY <1>2, <2>3, <2>5, <2>6
<1> QED
  BY <1>1, <1>2

-----------------------------------------------------------------------------
(***************************************************************************)
(* The search                                                              *)
(***************************************************************************)

(* The first of a line is of the line.                                     *)
LEMMA FirstOfLine ==
  ASSUME NEW S, NEW seq \in Seq(S), NEW w \in Nat
  PROVE  SubSeq(seq, 1, Min({w, Len(seq)})) \in Seq(S)
<1>1. PICK n : n = Len(seq) /\ n \in Nat /\ DOMAIN seq = 1 .. n
  BY LenProperties
<1>2. PICK T : T = {w, n}
  OBVIOUS
<1>3. IsFiniteSet(T)
  <2>1. IsFiniteSet({w}) /\ IsFiniteSet({n})
    BY FS_Singleton
  <2>2. IsFiniteSet({w} \cup {n})
    BY <2>1, FS_Union
  <2>3. {w} \cup {n} = T
    BY <1>2
  <2> QED
    BY <2>2, <2>3
<1>4. T \subseteq Int /\ T # {}
  BY <1>1, <1>2
<1>5. Min(T) \in T /\ \A y \in T : Min(T) <= y
  BY <1>3, <1>4, GreatestAndLeast
<1>6. PICK one \in Int, last \in Int : one = 1 /\ last = Min(T) /\ last <= n
  BY <1>1, <1>2, <1>5
<1>7. \A k \in one .. last : seq[k] \in S
  BY <1>1, <1>6, ElementOfSeq
<1>8. SubSeq(seq, one, last) \in Seq(S)
  BY <1>7, SubSeqProperties
<1> QED
  BY <1>1, <1>2, <1>6, <1>8

Asked == {"whole", "clause"}

(* Both lanes find what the indexes hold.                                  *)
LEMMA VectorHitsKnown ==
  ASSUME SearchInv, NEW q \in Asked
  PROVE  VectorHits(q) \in Seq(DOMAIN known)
<1>1. CASE "vector" \notin request.lanes
  BY <1>1 DEF VectorHits
<1>2. CASE "vector" \in request.lanes
  <2>1. PICK ids : ids = DOMAIN known
    OBVIOUS
  <2>2. IsFiniteSet(ids) /\ ids \subseteq Nat /\ \A c \in ids : known[c].text \in Texts
    BY <2>1 DEF SearchInv
  <2>3. PICK near : near = [c \in ids |-> Cosine[<<q, known[c].text>>]]
    OBVIOUS
  <2>4. \A c \in ids : near[c] \in Int
    BY <2>2, <2>3, RecallAssumption DEF Asked
  <2>5. PICK R : R = {p \in ids \X ids : \/ near[p[1]] > near[p[2]]
                                         \/ near[p[1]] = near[p[2]] /\ p[1] < p[2]}
    OBVIOUS
  <2>6. \A a, b \in ids : <<a, b>> \in R <=> near[a] > near[b] \/ (near[a] = near[b] /\ a < b)
    BY <2>5
  <2>7. StrictOrder(ids, R)
    BY <2>2, <2>4, <2>6 DEF StrictOrder
  <2>8. PICK hits : hits = InOrderBy(ids, R) /\ hits \in Seq(ids)
    BY <2>2, <2>7, InLineOrders
  <2>9. SubSeq(hits, 1, Min({Window, Len(hits)})) \in Seq(ids)
    BY <2>8, FirstOfLine, RecallAssumption
  <2>10. VectorHits(q) = SubSeq(hits, 1, Min({Window, Len(hits)}))
    BY <1>2, <2>1, <2>3, <2>5, <2>8 DEF VectorHits
  <2> QED
    BY <2>1, <2>9, <2>10
<1> QED
  BY <1>1, <1>2

(* And the text lane finds what the indexes hold.                          *)
LEMMA TextHitsKnown ==
  ASSUME SearchInv, NEW q, NEW fails \in BOOLEAN
  PROVE  TextHits(q, fails) \in Seq(DOMAIN known)
<1>1. CASE "text" \notin request.lanes \/ fails
  <2>1. TextHits(q, fails) = <<>>
    BY <1>1, Zenon DEF TextHits
  <2> QED
    BY <2>1
<1>2. CASE ~ ("text" \notin request.lanes \/ fails)
  <2>1. PICK K : K = {c \in DOMAIN known : /\ known[c].space = request.space
                                           /\ known[c].text \in Terms[q]}
    OBVIOUS
  <2>2. IsFiniteSet(K)
    BY <2>1, FS_Subset DEF SearchInv
  <2>3. K \subseteq Int
    BY <2>1 DEF SearchInv
  <2>4. PICK hits : hits = Increasing(K) /\ hits \in Seq(K)
    BY <2>2, <2>3, Increases
  <2>5. hits \in Seq(DOMAIN known)
    BY <2>1, <2>4, SeqWider
  <2>6. SubSeq(hits, 1, Min({Window, Len(hits)})) \in Seq(DOMAIN known)
    BY <2>5, FirstOfLine, RecallAssumption
  <2>7. TextHits(q, fails) = SubSeq(hits, 1, Min({Window, Len(hits)}))
    BY <1>2, <2>1, <2>4 DEF TextHits
  <2> QED
    BY <2>6, <2>7
<1> QED
  BY <1>1, <1>2

(* A share of the fused score is a number.                                 *)
LEMMA ShareIsInt ==
  ASSUME NEW S, NEW hits \in Seq(S), NEW weight \in Int, NEW c
  PROVE  Share(hits, weight, c) \in Int
<1>1. CASE c \notin ToSet(hits)
  BY <1>1 DEF Share
<1>2. CASE c \in ToSet(hits)
  <2>1. PICK n : n = Len(hits) /\ n \in Nat /\ DOMAIN hits = 1 .. n
    BY LenProperties
  <2>2. PICK k \in DOMAIN hits : k = CHOOSE j \in DOMAIN hits : hits[j] = c
    BY <1>2 DEF ToSet
  <2>3. k \in Nat /\ 1 <= k
    BY <2>1
  <2>4. PICK rank \in Int : rank = RrfK + k /\ rank > 0
    BY <2>3 DEF RrfK
  <2>5. Share(hits, weight, c) = (10000 * weight) \div rank
    BY <1>2, <2>2, <2>4 DEF Share
  <2>6. (10000 * weight) \div rank \in Int
    BY <2>4
  <2> QED
    BY <2>5, <2>6
<1> QED
  BY <1>1, <1>2

(* What the search finds is of the indexes, with numbers for scores.       *)
LEMMA SearchFinds ==
  ASSUME RecallInv, NEW textFails \in BOOLEAN, Search(textFails)
  PROVE  /\ SearchInv'
         /\ request.lanes = {"vector"} => \A c \in DOMAIN cosine' : cosine'[c] \in Int
<1>1. known' = known
  BY DEF Search, stored
<1>2. SearchInv
  BY DEF RecallInv
<1>3. CASE request.lanes = {"text"} /\ textFails
  <2>1. fused' = fused /\ cosine' = cosine /\ unread' = unread
    BY <1>3 DEF Search
  <2>2. request.lanes # {"vector"}
    BY <1>3
  <2> QED
    BY <1>1, <1>2, <2>1, <2>2 DEF SearchInv
<1>4. CASE ~ (request.lanes = {"text"} /\ textFails)
  <2> DEFINE qs == DOMAIN Queries
             vector == [i \in qs |-> VectorHits(Queries[i])]
             text == [i \in qs |-> TextHits(Queries[i], textFails)]
             found == UNION {ToSet(vector[i]) \cup ToSet(text[i]) : i \in qs}
             Cosines(c) == {Cosine[<<Queries[i], known[c].text>>] :
                              i \in {j \in qs : c \in ToSet(vector[j])}}
  <2>1. /\ fused' = [c \in found |->
             (Share(vector[1], 2, c) + Share(text[1], 2, c))
             + (IF 2 \in qs THEN Share(vector[2], SubQueryWeight, c) + Share(text[2], SubQueryWeight, c)
                ELSE 0)]
        /\ cosine' = [c \in found |-> IF Cosines(c) = {} THEN NoCosine ELSE Max(Cosines(c))]
        /\ unread' = found
    BY <1>4 DEF Search
  <2>2. (qs = {1} \/ qs = {1, 2}) /\ \A i \in qs : Queries[i] \in Asked
    BY DEF Queries, Asked
  <2>3. request.lanes = {"vector"} => \A i \in qs : text[i] = <<>>
    BY DEF TextHits
  <2>4. \A c : \A i \in qs : c \in ToSet(vector[i]) => Cosines(c) # {}
    OBVIOUS
  <2>5. PICK ids : ids = DOMAIN known
    OBVIOUS
  <2>6. \A i \in qs : vector[i] \in Seq(ids) /\ text[i] \in Seq(ids)
    BY <1>2, <2>2, <2>5, VectorHitsKnown, TextHitsKnown
  <2>7. \A c \in found : \E i \in qs : c \in ToSet(vector[i]) \/ c \in ToSet(text[i])
    OBVIOUS
  <2> HIDE DEF qs, vector, text, found
  <2>8. found \subseteq ids
    <3> SUFFICES ASSUME NEW c \in found PROVE c \in ids
      OBVIOUS
    <3>1. PICK i \in qs : c \in ToSet(vector[i]) \/ c \in ToSet(text[i])
      BY <2>7
    <3>2. PICK hits \in Seq(ids) : c \in ToSet(hits)
      BY <2>6, <3>1
    <3>3. PICK k \in DOMAIN hits : hits[k] = c
      BY <3>2 DEF ToSet
    <3>4. k \in 1 .. Len(hits)
      BY <3>2, LenProperties
    <3> QED
      BY <3>2, <3>3, <3>4, ElementOfSeq
  <2>9. IsFiniteSet(found) /\ found \subseteq Nat
    <3>1. IsFiniteSet(ids) /\ ids \subseteq Nat
      BY <1>2, <2>5 DEF SearchInv
    <3>2. IsFiniteSet(found)
      BY <2>8, <3>1, FS_Subset
    <3> QED
      BY <2>8, <3>1, <3>2
  <2>11. ASSUME NEW c \in found PROVE fused'[c] \in Int
    <3>1. PICK two \in Int, one \in Int : two = 2 /\ one = SubQueryWeight
      BY DEF SubQueryWeight
    <3>2. 1 \in qs
      BY <2>2
    <3>3. Share(vector[1], two, c) \in Int /\ Share(text[1], two, c) \in Int
      BY <2>6, <3>2, ShareIsInt
    <3>4. 2 \in qs => Share(vector[2], one, c) \in Int /\ Share(text[2], one, c) \in Int
      BY <2>6, ShareIsInt
    <3>5. fused'[c] = (Share(vector[1], two, c) + Share(text[1], two, c))
             + (IF 2 \in qs THEN Share(vector[2], one, c) + Share(text[2], one, c) ELSE 0)
      BY <2>1, <3>1
    <3> QED
      BY <3>3, <3>4, <3>5
  <2>14. ASSUME NEW c \in found
         PROVE  /\ cosine'[c] \in Int \cup {NoCosine}
                /\ Cosines(c) # {} => cosine'[c] \in Int
    <3>1. PICK J : J = {j \in qs : c \in ToSet(vector[j])}
      OBVIOUS
    <3>2. PICK f : f = [i \in J |-> Cosine[<<Queries[i], known[c].text>>]]
      OBVIOUS
    <3>3. Cosines(c) = {f[i] : i \in J} /\ DOMAIN f = J
      BY <3>1, <3>2
    <3>4. IsFiniteSet(J)
      <4>1. IsFiniteSet({1}) /\ IsFiniteSet({2})
        BY FS_Singleton
      <4>2. IsFiniteSet({1} \cup {2})
        BY <4>1, FS_Union
      <4>3. J \subseteq {1} \cup {2}
        BY <2>2, <3>1
      <4> QED
        BY <4>2, <4>3, FS_Subset
    <3>5. IsFiniteSet({f[i] : i \in J})
      BY <3>3, <3>4, FiniteImage
    <3>6. known[c].text \in Texts
      BY <1>2, <2>5, <2>8 DEF SearchInv
    <3>7. \A i \in J : f[i] \in Int
      BY <2>2, <3>1, <3>2, <3>6, RecallAssumption DEF Asked
    <3>8. IsFiniteSet(Cosines(c)) /\ Cosines(c) \subseteq Int
      BY <3>3, <3>5, <3>7
    <3>9. PICK N : N = Cosines(c)
      OBVIOUS
    <3>10. Cosines(c) # {} => Max(Cosines(c)) \in Int
      <4>1. N # {} => Max(N) \in Int
        BY <3>8, <3>9, GreatestAndLeast
      <4> QED
        BY <3>9, <4>1
    <3> QED
      BY <2>1, <3>10
  <2>15. DOMAIN fused' = found /\ DOMAIN cosine' = found
    BY <2>1
  <2>16. ASSUME request.lanes = {"vector"}, NEW c \in found PROVE cosine'[c] \in Int
    <3>1. PICK i \in qs : c \in ToSet(vector[i]) \/ c \in ToSet(text[i])
      BY <2>7
    <3>2. ToSet(text[i]) = {}
      BY <2>3, <2>16 DEF ToSet
    <3>3. Cosines(c) # {}
      BY <2>4, <3>1, <3>2
    <3> QED
      BY <2>14, <3>3
  <2> QED
    BY <1>1, <1>2, <2>1, <2>9, <2>11, <2>14, <2>15, <2>16 DEF SearchInv
<1> QED
  BY <1>3, <1>4

(* The verified candidates' scores are numbers.                            *)
LEMMA ItemIsPassage ==
  ASSUME RecallInv, NEW c \in unread, c \in DOMAIN rows
  PROVE  /\ Item(c, rows[c]) \in Passage
         /\ Item(c, rows[c]).chunk = c /\ Item(c, rows[c]).episode = rows[c].episode
         /\ Item(c, rows[c]).text = {PassageOf(rows[c])} /\ PassageOf(rows[c]) \in Texts
<1>1. /\ c \in Nat /\ IsFiniteSet(DOMAIN fused) /\ \A d \in DOMAIN fused : fused[d] \in Int
      /\ c \in DOMAIN fused /\ cosine[c] \in Int \cup {NoCosine}
  BY DEF RecallInv, SearchInv
<1>2. PICK F : F = {fused[d] : d \in DOMAIN fused}
  OBVIOUS
<1>3. IsFiniteSet(F) /\ F \subseteq Int
  <2>1. PICK D : D = DOMAIN fused
    OBVIOUS
  <2>2. IsFiniteSet({fused[d] : d \in D})
    BY <1>1, <2>1, FiniteImage
  <2> QED
    BY <1>1, <1>2, <2>1, <2>2
<1>4. PICK best \in Int : best = Best /\ best >= 1
  <2>1. PICK T : T = {1} \cup F
    OBVIOUS
  <2>5. PICK one \in Int : one = 1
    OBVIOUS
  <2>6. T = {one} \cup F
    BY <2>1, <2>5
  <2>2. Max(T) \in Int /\ one <= Max(T)
    BY <1>3, <2>6, GreatestWith
  <2>3. T = {1} \cup {fused[d] : d \in DOMAIN fused}
    BY <1>2, <2>1
  <2> QED
    BY <2>2, <2>3, <2>5 DEF Best
<1>5. PICK row : row = rows[c] /\ row.body \in Bodies /\ row.episode \in Nat
  BY DEF RecallInv, IsStore
<1>6. PICK recency \in Int : recency = Recency[row.body]
  BY <1>5, RecallAssumption
<1>7. PICK score \in Int : score = Score(c, row)
  <2>1. PICK fuse \in Int : fuse = fused[c]
    BY <1>1
  <2>2. (80 * fuse) \div best \in Int /\ (20 * recency) \div 100 \in Int
    BY <1>4
  <2>3. Score(c, row) = (80 * fuse) \div best + (20 * recency) \div 100
                        + (IF row.body \in Dated THEN 40 ELSE 0)
    BY <1>4, <1>6, <2>1 DEF Score
  <2> QED
    BY <2>2, <2>3
<1>8. PassageOf(row) \in Texts
  BY <1>5, PassageTold DEF RecallInv
<1>9. Item(c, row) = [chunk |-> c, episode |-> row.episode, text |-> {PassageOf(row)},
                      score |-> score, similarity |-> cosine[c]]
  BY <1>7 DEF Item
<1>10. Item(c, row) \in Passage
  BY <1>1, <1>5, <1>7, <1>8, <1>9 DEF Passage
<1> QED
  BY <1>5, <1>8, <1>9, <1>10

-----------------------------------------------------------------------------
(***************************************************************************)
(* The invariant is inductive                                              *)
(***************************************************************************)

(* The invariant holds before anything is asked.                           *)
LEMMA RecallInvInit == RecallInit => RecallInv
<1> SUFFICES ASSUME RecallInit PROVE RecallInv
  OBVIOUS
<1>1. IsStore(rows, held)
  BY RowsAfterStore DEF RecallInit
<1>2. SearchInv
  <2>1. \A c \in DOMAIN rows : PassageOf(rows[c]) \in Texts
    BY <1>1, PassageTold
  <2>2. DOMAIN known = DOMAIN rows /\ \A c \in DOMAIN rows : known[c].text = PassageOf(rows[c])
    BY DEF RecallInit
  <2>3. fused = <<>> /\ cosine = <<>> /\ unread = {}
    BY DEF RecallInit
  <2>4. DOMAIN fused = {} /\ DOMAIN cosine = {}
    BY <2>3
  <2> QED
    BY <1>1, <2>1, <2>2, <2>3, <2>4, FS_EmptySet DEF SearchInv, IsStore
<1>3. items = {} /\ picked = <<>> /\ answer = <<>> /\ place = 1 /\ stage = "idle"
  BY DEF RecallInit
<1>4. ItemsInv
  BY <1>3, FS_EmptySet DEF ItemsInv, Candidates
<1>5. AnswerInv
  BY <1>3 DEF AnswerInv
<1>6. PlacesInv
  BY <1>3 DEF PlacesInv
<1> QED
  BY <1>1, <1>2, <1>4, <1>5, <1>6 DEF RecallInv

(* The order and the cut are read off the candidates and the request.      *)
LEMMA PlacesStay ==
  ASSUME items' = items, request' = request, NEW r \in BOOLEAN, NEW d \in BOOLEAN
  PROVE  AboveTheCut(Placed(InOrder(r, d)))' = AboveTheCut(Placed(InOrder(r, d)))
BY DEF AboveTheCut, Placed, InOrder, Survivors, LaneCosines

(* A request changes nothing that is found.                                *)
LEMMA AskKeeps ==
  ASSUME RecallInv, NEW o \in Requests, Ask(o)
  PROVE  RecallInv'
<1>1. /\ rows' = rows /\ known' = known /\ held' = held /\ reused' = reused
      /\ cosine' = cosine /\ fused' = fused /\ unread' = unread
      /\ items' = items /\ picked' = picked /\ place' = place /\ answer' = answer
      /\ stage = "idle" /\ request' = o /\ stage' \in {"search", "refused"}
  BY DEF Ask, stored, search
<1>2. IsStore(rows, held)' /\ SearchInv'
  BY <1>1 DEF RecallInv, IsStore, SearchInv
<1>3. items = {} /\ picked = <<>> /\ place = 1 /\ answer = <<>>
  BY <1>1 DEF RecallInv, AnswerInv
<1>4. ItemsInv'
  BY <1>1, <1>3, FS_EmptySet DEF ItemsInv, Candidates
<1>5. AnswerInv'
  BY <1>1, <1>3 DEF AnswerInv
<1>6. PlacesInv'
  BY <1>1, <1>3 DEF PlacesInv
<1> QED
  BY <1>2, <1>4, <1>5, <1>6 DEF RecallInv

(* The search keeps the invariant: nothing is verified yet.                *)
LEMMA SearchKeeps ==
  ASSUME RecallInv, NEW textFails \in BOOLEAN, Search(textFails)
  PROVE  RecallInv'
<1>1. /\ rows' = rows /\ known' = known /\ held' = held /\ reused' = reused
      /\ items' = items /\ picked' = picked /\ place' = place /\ answer' = answer
      /\ request' = request /\ stage = "search" /\ stage' \in {"verify", "refused"}
  BY DEF Search, stored
<1>2. IsStore(rows, held)'
  BY <1>1 DEF RecallInv, IsStore
<1>3. SearchInv'
  BY SearchFinds
<1>4. items = {} /\ picked = <<>> /\ place = 1 /\ answer = <<>> /\ request \in Requests
  BY <1>1 DEF RecallInv, AnswerInv
<1>5. ItemsInv'
  BY <1>1, <1>4, FS_EmptySet DEF ItemsInv, Candidates
<1>6. AnswerInv'
  BY <1>1, <1>4 DEF AnswerInv
<1>7. PlacesInv'
  BY <1>1, <1>4 DEF PlacesInv
<1> QED
  BY <1>2, <1>3, <1>5, <1>6, <1>7 DEF RecallInv

(* A candidate that is verified was stored in the space.                   *)
LEMMA VerifyKeeps ==
  ASSUME RecallInv, NEW c \in unread, Verify(c)
  PROVE  RecallInv'
<1>1. /\ rows' = rows /\ known' = known /\ held' = held /\ reused' = reused
      /\ cosine' = cosine /\ fused' = fused /\ unread' = unread \ {c}
      /\ picked' = picked /\ place' = place /\ answer' = answer
      /\ request' = request /\ stage = "verify" /\ stage' = stage
      /\ items' = items \cup {Item(d, rows[d]) : d \in {d \in {c} \cap DOMAIN rows : Answers(rows[d])}}
  BY DEF Verify, stored
<1>2. IsStore(rows, held)'
  BY <1>1 DEF RecallInv, IsStore
<1>3. SearchInv'
  BY <1>1 DEF RecallInv, SearchInv
<1>4. ItemsInv /\ \A i \in items : i.chunk # c
  BY DEF RecallInv, ItemsInv
<1>5. ItemsInv'
  <2>1. CASE c \in DOMAIN rows /\ Answers(rows[c])
    <3>1. PICK item : item = Item(c, rows[c])
      OBVIOUS
    <3>2. items' = items \cup {item}
      BY <1>1, <2>1, <3>1
    <3>3. /\ item \in Passage /\ item.chunk = c
          /\ item.text = {PassageOf(rows[c])} /\ PassageOf(rows[c]) \in Texts
      BY <2>1, <3>1, ItemIsPassage
    <3>4. rows[c].space = request.space
      BY <2>1 DEF Answers
    <3>5. Told(held, request.space, PassageOf(rows[c]))
      BY <2>1, <3>4, PassageTold DEF RecallInv
    <3>6. IsFiniteSet(items')
      BY <1>4, <3>2, FS_AddElement DEF ItemsInv, Candidates
    <3>7. Candidates(items')
      <4>1. items' \subseteq Passage
        BY <1>4, <3>2, <3>3 DEF ItemsInv, Candidates
      <4>2. \A i \in items' : \E x \in Texts : i.text = {x}
        BY <1>4, <3>2, <3>3 DEF ItemsInv, Candidates
      <4>3. \A i, j \in items' : i.chunk = j.chunk => i = j
        BY <1>4, <3>2, <3>3 DEF ItemsInv, Candidates
      <4> QED
        BY <3>6, <4>1, <4>2, <4>3 DEF Candidates
    <3>8. \A i \in items' : i.chunk \notin unread'
      BY <1>1, <1>4, <3>2, <3>3 DEF ItemsInv
    <3>9. \A i \in items' : \A x \in i.text : Told(held', request'.space, x)
      BY <1>1, <1>4, <3>2, <3>3, <3>5 DEF ItemsInv
    <3>10. ~ reused' => \A i \in items' : i.chunk \in DOMAIN rows' => rows'[i.chunk].space = request'.space
      BY <1>1, <1>4, <3>2, <3>3, <3>4 DEF ItemsInv
    <3> QED
      BY <3>7, <3>8, <3>9, <3>10 DEF ItemsInv, Candidates
  <2>2. CASE ~ (c \in DOMAIN rows /\ Answers(rows[c]))
    <3>1. items' = items
      BY <1>1, <2>2
    <3> QED
      BY <1>1, <1>4, <3>1 DEF ItemsInv, Candidates
  <2> QED
    BY <2>1, <2>2
<1>6. AnswerInv'
  BY <1>1 DEF RecallInv, AnswerInv
<1>7. PlacesInv'
  BY <1>1 DEF RecallInv, PlacesInv
<1> QED
  BY <1>2, <1>3, <1>5, <1>6, <1>7 DEF RecallInv

(* What the places are, whichever of the two models fails.                 *)
LEMMA PlacesDrawn ==
  ASSUME Candidates(items), request \in Requests, NEW r \in BOOLEAN, NEW d \in BOOLEAN
  PROVE  Drawn(AboveTheCut(Placed(InOrder(r, d))), items)
<1>1. Candidates(Survivors) /\ Line(InOrder(r, d), Survivors)
  BY InOrderLines
<1>2. request.limit \in Nat
  BY RecallAssumption
<1>3. Drawn(Placed(InOrder(r, d)), Survivors)
  BY <1>1, <1>2, PickedShares DEF Placed
<1>4. Drawn(AboveTheCut(Placed(InOrder(r, d))), Survivors)
  BY <1>3, CutDraws
<1>5. Survivors \subseteq items
  BY DEF Survivors
<1> QED
  BY <1>4, <1>5 DEF Drawn

(* The places are given by the order, the cap and the cut.                 *)
LEMMA SelectKeeps ==
  ASSUME RecallInv, NEW r \in BOOLEAN, NEW d \in BOOLEAN, Select(r, d)
  PROVE  RecallInv'
<1>1. /\ rows' = rows /\ known' = known /\ held' = held /\ reused' = reused
      /\ cosine' = cosine /\ fused' = fused /\ unread' = unread
      /\ items' = items /\ place' = place /\ answer' = answer
      /\ request' = request /\ stage = "verify" /\ stage' = "expand" /\ unread = {}
  BY DEF Select, stored, search
<1>2. picked' = AboveTheCut(Placed(InOrder(r, d)))
  BY DEF Select
<1>3. IsStore(rows, held)' /\ SearchInv'
  BY <1>1 DEF RecallInv, IsStore, SearchInv
<1>4. ItemsInv'
  BY <1>1 DEF RecallInv, ItemsInv, Candidates
<1>5. Candidates(items) /\ request \in Requests /\ place = 1 /\ answer = <<>>
  BY <1>1 DEF RecallInv, ItemsInv, AnswerInv
<1>6. picked' \in Seq(Passage) /\ Len(picked') \in Nat
  <2>1. picked' \in Seq(Passage)
    BY <1>2, <1>5, PlacesDrawn DEF Drawn
  <2> QED
    BY <2>1, LenProperties
<1>7. picked' = AboveTheCut(Placed(InOrder(r, d)))'
  BY <1>1, <1>2, PlacesStay
<1>8. AnswerInv'
  BY <1>1, <1>5, <1>6, <1>7 DEF AnswerInv
<1>9. PlacesInv'
  <2>1. SubSeq(picked', 1, 1 - 1) = <<>>
    BY SubSeqEmpty
  <2> QED
    BY <1>1, <1>5, <1>6, <2>1 DEF PlacesInv
<1> QED
  BY <1>3, <1>4, <1>8, <1>9 DEF RecallInv

(* What an item is widened to was stored in the space, unless its id was   *)
(* used again.                                                             *)
LEMMA WidenedTold ==
  ASSUME RecallInv, NEW item, NEW i \in items, Same(item, i)
  PROVE  /\ Widened(item) \subseteq Texts
         /\ ~ reused => \A x \in Widened(item) : Told(held, request.space, x)
<1>1. IsStore(rows, held) /\ ItemsInv
  BY DEF RecallInv
<1>2. CASE item.chunk \notin DOMAIN rows
  <2>1. Widened(item) = i.text
    BY <1>2 DEF Widened, Same
  <2>2. i.text \subseteq Texts
    BY <1>1 DEF ItemsInv, Candidates
  <2> QED
    BY <1>1, <2>1, <2>2 DEF ItemsInv
<1>3. CASE item.chunk \in DOMAIN rows
  <2>1. PICK e, near : /\ e = rows[item.chunk].episode
                       /\ near = {d \in DOMAIN rows : /\ rows[d].episode = rows[item.chunk].episode
                                                     /\ rows[d].pos \in rows[item.chunk].pos - 1 .. rows[item.chunk].pos + 1}
    OBVIOUS
  <2>2. Widened(item) = {PassageOf(rows[c]) : c \in near}
    BY <1>3, <2>1 DEF Widened
  <2>3. ASSUME NEW c \in near
        PROVE  /\ PassageOf(rows[c]) \in Texts
               /\ ~ reused => Told(held, request.space, PassageOf(rows[c]))
    <3>1. c \in DOMAIN rows /\ rows[c].episode = rows[item.chunk].episode
      BY <2>1
    <3>2. rows[c].space = rows[item.chunk].space
      BY <1>1, <1>3, <3>1 DEF IsStore
    <3>3. ~ reused => rows[item.chunk].space = request.space
      BY <1>1, <1>3 DEF ItemsInv, Same
    <3>4. PassageOf(rows[c]) \in Texts /\ Told(held, rows[c].space, PassageOf(rows[c]))
      BY <1>1, <3>1, PassageTold
    <3> QED
      BY <3>2, <3>3, <3>4
  <2> QED
    BY <2>2, <2>3
<1> QED
  BY <1>2, <1>3

(* What is returned for a place was stored in the space.                   *)
LEMMA ExpandKeeps ==
  ASSUME RecallInv, Expand
  PROVE  RecallInv'
<1>1. /\ rows' = rows /\ known' = known /\ held' = held /\ reused' = reused
      /\ cosine' = cosine /\ fused' = fused /\ unread' = unread
      /\ items' = items /\ picked' = picked /\ place' = place + 1
      /\ request' = request /\ stage = "expand" /\ stage' = stage /\ place <= Len(picked)
  BY DEF Expand, stored, search
<1>2. IsStore(rows, held)' /\ SearchInv'
  BY <1>1 DEF RecallInv, IsStore, SearchInv
<1>3. ItemsInv'
  BY <1>1 DEF RecallInv, ItemsInv, Candidates
<1>4. /\ Candidates(items) /\ request \in Requests /\ place \in Nat \ {0} /\ unread = {}
      /\ picked \in Seq(Passage) /\ answer \in Seq(Passage)
  BY <1>1 DEF RecallInv, ItemsInv, AnswerInv
<1>5. PICK r \in BOOLEAN, d \in BOOLEAN : picked = AboveTheCut(Placed(InOrder(r, d)))
  BY <1>1 DEF RecallInv, AnswerInv
<1>6. Drawn(picked, items)
  BY <1>4, <1>5, PlacesDrawn
<1>7. Len(picked) \in Nat /\ place \in 1 .. Len(picked)
  BY <1>1, <1>4, LenProperties
<1>8. PICK item : item = picked[place] /\ item \in Passage
  BY <1>4, <1>7, ElementOfSeq
<1>9. PICK i \in items : Same(item, i)
  BY <1>6, <1>7, <1>8 DEF Drawn
<1>10. PICK wider : wider = (IF request.expand THEN [item EXCEPT !.text = Widened(item)] ELSE item)
  OBVIOUS
<1>11. /\ Widened(item) \subseteq Texts
       /\ ~ reused => \A x \in Widened(item) : Told(held, request.space, x)
  BY <1>9, WidenedTold
<1>12. wider \in Passage
  BY <1>8, <1>10, <1>11 DEF Passage
<1>13. ~ reused => \A x \in wider.text : Told(held, request.space, x)
  <2>1. CASE request.expand
    <3>1. wider.text = Widened(item)
      BY <1>8, <1>10, <2>1 DEF Passage
    <3> QED
      BY <1>11, <3>1
  <2>2. CASE ~ request.expand
    <3>1. wider.text = i.text
      BY <1>9, <1>10, <2>2 DEF Same
    <3> QED
      BY <3>1 DEF RecallInv, ItemsInv
  <2> QED
    BY <2>1, <2>2
<1>14. answer' = answer \/ answer' = Append(answer, wider)
  BY <1>8, <1>10 DEF Expand
<1>15. ~ request.expand => answer' = Append(answer, item)
  BY <1>8, <1>10 DEF Expand
<1>16. /\ answer' \in Seq(Passage)
       /\ ~ reused => \A k \in DOMAIN answer' : \A x \in answer'[k].text : Told(held, request.space, x)
  <2>1. ~ reused => \A k \in DOMAIN answer : \A x \in answer[k].text : Told(held, request.space, x)
    BY DEF RecallInv, AnswerInv
  <2>2. CASE answer' = answer
    BY <1>4, <2>1, <2>2
  <2>3. CASE answer' = Append(answer, wider)
    <3>1. PICK n : n = Len(answer) /\ n \in Nat /\ DOMAIN answer = 1 .. n
      BY <1>4, LenProperties
    <3>2. /\ answer' \in Seq(Passage) /\ Len(answer') = n + 1
          /\ \A k \in 1 .. n : answer'[k] = answer[k]
          /\ answer'[n + 1] = wider
      BY <1>4, <1>12, <2>3, <3>1, AppendProperties
    <3>3. DOMAIN answer' = 1 .. n + 1
      BY <3>2, LenProperties
    <3>4. \A k \in DOMAIN answer' : k \in 1 .. n \/ k = n + 1
      BY <3>1, <3>3
    <3> QED
      BY <1>13, <2>1, <3>1, <3>2, <3>4
  <2> QED
    BY <1>14, <2>2, <2>3
<1>17. AnswerInv'
  <2>1. picked' = AboveTheCut(Placed(InOrder(r, d)))'
    BY <1>1, <1>5, PlacesStay
  <2> QED
    BY <1>1, <1>4, <1>16, <2>1 DEF AnswerInv
<1>18. PlacesInv'
  <2>1. place' <= Len(picked') + 1
    BY <1>1, <1>7
  <2>2. ASSUME ~ request.expand PROVE answer' = SubSeq(picked, 1, (place + 1) - 1)
    <3>1. answer = SubSeq(picked, 1, place - 1)
      BY <1>1, <2>2 DEF RecallInv, PlacesInv
    <3>2. PICK one \in Int, last \in Int, next \in Int : one = 1 /\ last = place - 1 /\ next = place
      BY <1>4
    <3>3. \A k \in one .. next : picked[k] \in Passage
      BY <1>4, <1>7, <3>2, ElementOfSeq
    <3>4. \A k \in one .. last : picked[k] \in Passage
      BY <3>2, <3>3
    <3>5. PICK a, b : a = SubSeq(picked, one, last) /\ b = SubSeq(picked, one, next)
      OBVIOUS
    <3>6. /\ a \in Seq(Passage) /\ Len(a) = last
          /\ \A k \in 1 .. last : a[k] = picked[k]
      BY <1>4, <3>2, <3>4, <3>5, SubSeqProperties
    <3>7. /\ b \in Seq(Passage) /\ Len(b) = next
          /\ \A k \in 1 .. next : b[k] = picked[k]
      BY <1>4, <3>2, <3>3, <3>5, SubSeqProperties
    <3>8. PICK c : c = Append(a, item)
      OBVIOUS
    <3>9. /\ c \in Seq(Passage) /\ Len(c) = last + 1
          /\ \A k \in 1 .. last : c[k] = a[k]
          /\ c[last + 1] = item
      BY <1>8, <3>6, <3>8, AppendProperties
    <3>10. \A k \in 1 .. next : c[k] = b[k]
      <4> SUFFICES ASSUME NEW k \in 1 .. next PROVE c[k] = b[k]
        OBVIOUS
      <4>1. k \in 1 .. last \/ k = last + 1
        BY <1>4, <3>2
      <4>2. last + 1 = place /\ next = place
        BY <1>4, <3>2
      <4>3. CASE k \in 1 .. last
        BY <3>6, <3>7, <3>9, <4>3
      <4>4. CASE k = last + 1
        BY <1>8, <3>7, <3>9, <4>2, <4>4
      <4> QED
        BY <4>1, <4>3, <4>4
    <3>11. Len(c) = Len(b) /\ Len(c) = next
      BY <1>4, <3>2, <3>7, <3>9
    <3>12. c = b
      BY <3>7, <3>9, <3>10, <3>11, SeqEqual
    <3>13. answer' = c
      BY <1>15, <2>2, <3>1, <3>2, <3>5, <3>8
    <3>14. (place + 1) - 1 = next
      BY <1>4, <3>2
    <3> QED
      BY <3>2, <3>5, <3>12, <3>13, <3>14
  <2> QED
    BY <1>1, <2>1, <2>2 DEF PlacesInv
<1> QED
  BY <1>2, <1>3, <1>17, <1>18 DEF RecallInv

(* Packing returns a beginning.                                            *)
LEMMA PackKeeps ==
  ASSUME RecallInv, Pack
  PROVE  RecallInv'
<1>1. /\ rows' = rows /\ known' = known /\ held' = held /\ reused' = reused
      /\ cosine' = cosine /\ fused' = fused /\ unread' = unread
      /\ items' = items /\ picked' = picked /\ place' = place /\ answer' = Packed(answer)
      /\ request' = request /\ stage = "expand" /\ stage' = "answered" /\ place > Len(picked)
  BY DEF Pack, stored, search
<1>2. IsStore(rows, held)' /\ SearchInv'
  BY <1>1 DEF RecallInv, IsStore, SearchInv
<1>3. ItemsInv'
  BY <1>1 DEF RecallInv, ItemsInv, Candidates
<1>4. /\ request \in Requests /\ place \in Nat \ {0} /\ unread = {}
      /\ picked \in Seq(Passage) /\ answer \in Seq(Passage)
      /\ ~ reused => \A k \in DOMAIN answer : \A x \in answer[k].text : Told(held, request.space, x)
  BY <1>1 DEF RecallInv, AnswerInv
<1>5. PICK r \in BOOLEAN, d \in BOOLEAN : picked = AboveTheCut(Placed(InOrder(r, d)))
  BY <1>1 DEF RecallInv, AnswerInv
<1>6. /\ answer' \in Seq(Passage)
      /\ \A k \in DOMAIN answer' : k \in DOMAIN answer /\ answer'[k] = answer[k]
      /\ request.budget = NoBudget => answer' = answer
  BY <1>1, <1>4, PackedHeads
<1>7. AnswerInv'
  <2>1. picked' = AboveTheCut(Placed(InOrder(r, d)))'
    BY <1>1, <1>5, PlacesStay
  <2> QED
    BY <1>1, <1>4, <1>6, <2>1 DEF AnswerInv
<1>8. PlacesInv'
  <2>1. ASSUME Unbounded PROVE answer' = picked
    <3>1. answer' = answer /\ answer = SubSeq(picked, 1, place - 1)
      BY <1>1, <1>6, <2>1 DEF RecallInv, PlacesInv, Unbounded
    <3>2. PICK n : n = Len(picked) /\ n \in Nat /\ DOMAIN picked = 1 .. n
      BY <1>4, LenProperties
    <3>3. place - 1 = n
      BY <1>1, <1>4, <3>2 DEF RecallInv, PlacesInv
    <3>4. PICK one \in Int, last \in Int : one = 1 /\ last = n
      BY <3>2
    <3>5. \A k \in one .. last : picked[k] \in Passage
      BY <1>4, <3>2, <3>4, ElementOfSeq
    <3>6. PICK a : a = SubSeq(picked, one, last)
      OBVIOUS
    <3>7. a \in Seq(Passage) /\ Len(a) = n /\ \A k \in 1 .. n : a[k] = picked[k]
      BY <3>2, <3>4, <3>5, <3>6, SubSeqProperties
    <3>8. a = picked
      BY <1>4, <3>2, <3>7, SeqEqual
    <3> QED
      BY <3>1, <3>3, <3>4, <3>6, <3>8
  <2>2. Unbounded' => Unbounded
    BY <1>1 DEF Unbounded
  <2>3. place' <= Len(picked') + 1
    BY <1>1 DEF RecallInv, PlacesInv
  <2> QED
    BY <1>1, <2>1, <2>2, <2>3 DEF PlacesInv
<1> QED
  BY <1>2, <1>3, <1>7, <1>8 DEF RecallInv

(* A recall that fails returns nothing.                                    *)
LEMMA FailKeeps ==
  ASSUME RecallInv, Fail
  PROVE  RecallInv'
<1>1. /\ rows' = rows /\ known' = known /\ held' = held /\ reused' = reused
      /\ cosine' = cosine /\ fused' = fused /\ unread' = unread
      /\ items' = items /\ picked' = picked /\ place' = place /\ answer' = answer
      /\ request' = request /\ stage' = "refused"
  BY DEF Fail, stored, search
<1>2. IsStore(rows, held)' /\ SearchInv'
  BY <1>1 DEF RecallInv, IsStore, SearchInv
<1>3. ItemsInv'
  BY <1>1 DEF RecallInv, ItemsInv, Candidates
<1>4. AnswerInv'
  BY <1>1 DEF RecallInv, AnswerInv
<1>5. PlacesInv'
  BY <1>1 DEF RecallInv, PlacesInv
<1> QED
  BY <1>2, <1>3, <1>4, <1>5 DEF RecallInv

(* A deletion beside the recall takes rows away.                           *)
LEMMA OtherDeletesKeeps ==
  ASSUME RecallInv, NEW s \in Spaces, OtherDeletes(s)
  PROVE  RecallInv'
<1>1. /\ rows' = [c \in {d \in DOMAIN rows : rows[d].space # s} |-> rows[c]]
      /\ known' = known /\ held' = held /\ reused' = reused
      /\ cosine' = cosine /\ fused' = fused /\ unread' = unread
      /\ items' = items /\ picked' = picked /\ place' = place /\ answer' = answer
      /\ request' = request /\ stage' = stage
  BY DEF OtherDeletes, stored, search
<1>2. DOMAIN rows' \subseteq DOMAIN rows /\ \A c \in DOMAIN rows' : rows'[c] = rows[c]
  BY <1>1
<1>3. IsStore(rows, held)
  BY DEF RecallInv
<1>4. IsFiniteSet(DOMAIN rows')
  BY <1>2, <1>3, FS_Subset DEF IsStore
<1>5. IsStore(rows, held)'
  BY <1>1, <1>2, <1>3, <1>4 DEF IsStore
<1>6. SearchInv'
  BY <1>1 DEF RecallInv, SearchInv
<1>7. ItemsInv'
  BY <1>1, <1>2 DEF RecallInv, ItemsInv, Candidates
<1>8. AnswerInv'
  <2>1. stage \in {"expand", "answered"} =>
          \E r, d \in BOOLEAN : picked' = AboveTheCut(Placed(InOrder(r, d)))'
    BY <1>1, PlacesStay DEF RecallInv, AnswerInv
  <2> QED
    BY <1>1, <2>1 DEF RecallInv, AnswerInv
<1>9. PlacesInv'
  BY <1>1 DEF RecallInv, PlacesInv, Unbounded
<1> QED
  BY <1>5, <1>6, <1>7, <1>8, <1>9 DEF RecallInv

(* An ingest beside the recall adds rows of one space.                     *)
LEMMA OtherIngestsKeeps ==
  ASSUME RecallInv, NEW s \in Spaces, NEW b \in Bodies, OtherIngests(s, b)
  PROVE  RecallInv'
<1>1. /\ rows' = WithEpisode(rows, s, b) /\ held' = held \cup {<<s, b>>}
      /\ known' = known /\ cosine' = cosine /\ fused' = fused /\ unread' = unread
      /\ items' = items /\ picked' = picked /\ place' = place /\ answer' = answer
      /\ request' = request /\ stage' = stage
  BY DEF OtherIngests, search
<1>2. ~ reused' => ~ reused /\ (DOMAIN rows' \ DOMAIN rows) \cap {i.chunk : i \in items} = {}
  BY DEF OtherIngests
<1>3. IsStore(rows, held)
  BY DEF RecallInv
<1>4. /\ IsStore(rows', held') /\ DOMAIN rows \subseteq DOMAIN rows'
      /\ \A c \in DOMAIN rows : rows'[c] = rows[c]
  BY <1>1, <1>3, EpisodeStored
<1>5. IsStore(rows, held)'
  BY <1>4 DEF IsStore
<1>6. SearchInv'
  BY <1>1 DEF RecallInv, SearchInv
<1>7. \A x : Told(held, request.space, x) => Told(held', request'.space, x)
  BY <1>1 DEF Told
<1>8. ItemsInv'
  <2>1. ~ reused' => \A i \in items : i.chunk \in DOMAIN rows' => rows'[i.chunk].space = request.space
    BY <1>2, <1>4 DEF RecallInv, ItemsInv
  <2>2. \A i \in items : \A x \in i.text : Told(held', request'.space, x)
    BY <1>7 DEF RecallInv, ItemsInv
  <2> QED
    BY <1>1, <2>1, <2>2 DEF RecallInv, ItemsInv, Candidates
<1>9. AnswerInv'
  <2>1. stage \in {"expand", "answered"} =>
          \E r, d \in BOOLEAN : picked' = AboveTheCut(Placed(InOrder(r, d)))'
    BY <1>1, PlacesStay DEF RecallInv, AnswerInv
  <2>2. ~ reused' => \A k \in DOMAIN answer : \A x \in answer[k].text : Told(held', request'.space, x)
    BY <1>2, <1>7 DEF RecallInv, AnswerInv
  <2> QED
    BY <1>1, <2>1, <2>2 DEF RecallInv, AnswerInv
<1>10. PlacesInv'
  BY <1>1 DEF RecallInv, PlacesInv, Unbounded
<1> QED
  BY <1>5, <1>6, <1>8, <1>9, <1>10 DEF RecallInv

(* The invariant holds throughout a recall, whatever the other process     *)
(* does between its statements.                                            *)
THEOREM RecallInvariant == RecallSpec => []RecallInv
<1>1. RecallInv /\ [RecallNext]_recallVars => RecallInv'
  <2> SUFFICES ASSUME RecallInv, [RecallNext]_recallVars PROVE RecallInv'
    OBVIOUS
  <2>1. CASE \E o \in Requests : Ask(o)
    BY <2>1, AskKeeps
  <2>2. CASE \E fails \in BOOLEAN : Search(fails)
    BY <2>2, SearchKeeps
  <2>3. CASE \E c \in unread : Verify(c)
    BY <2>3, VerifyKeeps
  <2>4. CASE \E r, d \in BOOLEAN : Select(r, d)
    BY <2>4, SelectKeeps
  <2>5. CASE Expand
    BY <2>5, ExpandKeeps
  <2>6. CASE Pack
    BY <2>6, PackKeeps
  <2>7. CASE Fail
    BY <2>7, FailKeeps
  <2>8. CASE \E s \in Spaces : OtherDeletes(s)
    BY <2>8, OtherDeletesKeeps
  <2>9. CASE \E s \in Spaces, b \in Bodies : OtherIngests(s, b)
    BY <2>9, OtherIngestsKeeps
  <2>10. CASE UNCHANGED recallVars
    <3>1. /\ rows' = rows /\ known' = known /\ held' = held /\ reused' = reused
          /\ cosine' = cosine /\ fused' = fused /\ unread' = unread
          /\ items' = items /\ picked' = picked /\ place' = place /\ answer' = answer
          /\ request' = request /\ stage' = stage
      BY <2>10 DEF recallVars, stored, search
    <3>2. IsStore(rows, held)' /\ SearchInv' /\ ItemsInv'
      BY <3>1 DEF RecallInv, IsStore, SearchInv, ItemsInv, Candidates
    <3>3. stage \in {"expand", "answered"} =>
            \E r, d \in BOOLEAN : picked' = AboveTheCut(Placed(InOrder(r, d)))'
      BY <3>1, PlacesStay DEF RecallInv, AnswerInv
    <3>4. AnswerInv' /\ PlacesInv'
      BY <3>1, <3>3 DEF RecallInv, AnswerInv, PlacesInv, Unbounded
    <3> QED
      BY <3>2, <3>4 DEF RecallInv
  <2> QED
    BY <2>1, <2>2, <2>3, <2>4, <2>5, <2>6, <2>7, <2>8, <2>9, <2>10 DEF RecallNext
<1> QED
  BY <1>1, RecallInvInit, PTL DEF RecallSpec

-----------------------------------------------------------------------------
(***************************************************************************)
(* What the answer owes                                                    *)
(***************************************************************************)

(* Every passage of an answer was at some time stored in the space that    *)
(* was asked, although the lanes rank those of every space, and whatever   *)
(* is deleted and stored between the statements of the recall, as long as  *)
(* no verified id is used again.                                           *)
THEOREM AnswersAreOfTheSpace == RecallSpec => []AnswerIsOfTheSpace
<1>1. RecallInv => AnswerIsOfTheSpace
  BY DEF RecallInv, AnswerInv, AnswerIsOfTheSpace, Answered, Told
<1> QED
  BY <1>1, RecallInvariant, PTL

(* No passage of an unbounded answer fails a phrase, and it is short of    *)
(* the limit only for want of verified passages that would do.             *)
THEOREM PhrasesDecide == RecallSpec => []PhrasesDecideBeforePlaces
<1>1. RecallInv => PhrasesDecideBeforePlaces
  <2> SUFFICES ASSUME RecallInv, Answered, Unbounded
               PROVE  /\ \A k \in DOMAIN answer : Wanted(answer[k], request.require, request.exclude)
                      /\ request.limit > 0 =>
                           Len(answer) = Min({request.limit, Cardinality(Survivors)})
    BY DEF PhrasesDecideBeforePlaces
  <2>1. stage = "answered" /\ ~ request.cutoff
    BY DEF Answered, Unbounded
  <2>2. answer = picked /\ Candidates(items) /\ request \in Requests
    BY <2>1 DEF RecallInv, PlacesInv, ItemsInv, AnswerInv
  <2>3. PICK r \in BOOLEAN, d \in BOOLEAN : picked = AboveTheCut(Placed(InOrder(r, d)))
    BY <2>1 DEF RecallInv, AnswerInv
  <2>4. Candidates(Survivors) /\ Line(InOrder(r, d), Survivors)
    BY <2>2, InOrderLines
  <2>5. request.limit \in Nat
    BY <2>2, RecallAssumption
  <2>6. PICK p, n : p = Placed(InOrder(r, d)) /\ n = Cardinality(Survivors)
    OBVIOUS
  <2>7. /\ Drawn(p, Survivors)
        /\ Len(p) = (IF request.limit = 0 THEN n ELSE AtMost(request.limit, n))
    BY <2>4, <2>5, <2>6, PickedShares DEF Placed
  <2>8. answer = p
    BY <2>1, <2>2, <2>3, <2>6, <2>7, CutDraws
  <2>9. ASSUME NEW k \in DOMAIN answer
        PROVE  Wanted(answer[k], request.require, request.exclude)
    <3>1. PICK i \in Survivors : Same(answer[k], i)
      BY <2>7, <2>8, <2>9 DEF Drawn
    <3>2. Wanted(i, request.require, request.exclude) /\ answer[k].text = i.text
      BY <3>1 DEF Survivors, Same
    <3> QED
      BY <3>2 DEF Wanted
  <2>10. ASSUME request.limit > 0 PROVE Len(answer) = Min({request.limit, n})
    <3>1. n \in Nat
      BY <2>4, <2>6, FS_CardinalityType DEF Candidates
    <3>2. PICK a, T : a = request.limit /\ a \in Nat /\ T = {a, n}
      BY <2>5
    <3>3. IsFiniteSet(T)
      <4>1. IsFiniteSet({a}) /\ IsFiniteSet({n})
        BY FS_Singleton
      <4>2. IsFiniteSet({a} \cup {n})
        BY <4>1, FS_Union
      <4>3. T = {a} \cup {n}
        BY <3>2
      <4> QED
        BY <4>2, <4>3
    <3>4. T \subseteq Int /\ T # {}
      BY <3>1, <3>2
    <3>5. PICK m : m = Min(T) /\ m \in T /\ \A y \in T : m <= y
      BY <3>3, <3>4, GreatestAndLeast
    <3>6. m = AtMost(a, n)
      BY <3>1, <3>2, <3>5 DEF AtMost
    <3>7. Len(answer) = AtMost(a, n)
      BY <2>7, <2>8, <2>10, <3>2
    <3> QED
      BY <3>2, <3>5, <3>6, <3>7
  <2> QED
    BY <2>6, <2>9, <2>10
<1> QED
  BY <1>1, RecallInvariant, PTL

(* An episode has more than two places only when no passage that is left   *)
(* out is of an episode with fewer.                                        *)
THEOREM EpisodesShare == RecallSpec => []EpisodesShareTheAnswer
<1>1. RecallInv => EpisodesShareTheAnswer
  <2> SUFFICES ASSUME RecallInv, Answered, ~ request.cutoff, NEW i \in Survivors, NEW j \in Survivors,
                      OfEpisode(picked, i.episode) > MaxPerEpisode,
                      \A k \in DOMAIN picked : picked[k].chunk # j.chunk
               PROVE  OfEpisode(picked, j.episode) >= MaxPerEpisode
    BY DEF EpisodesShareTheAnswer
  <2>1. stage = "answered"
    BY DEF Answered
  <2>2. Candidates(items) /\ request \in Requests
    BY <2>1 DEF RecallInv, ItemsInv, AnswerInv
  <2>3. PICK r \in BOOLEAN, d \in BOOLEAN : picked = AboveTheCut(Placed(InOrder(r, d)))
    BY <2>1 DEF RecallInv, AnswerInv
  <2>4. Candidates(Survivors) /\ Line(InOrder(r, d), Survivors)
    BY <2>2, InOrderLines
  <2>5. request.limit \in Nat
    BY <2>2, RecallAssumption
  <2>6. PICK seq : seq = InOrder(r, d)
    OBVIOUS
  <2>7. Drawn(Picked(seq, request.limit), Survivors)
    BY <2>4, <2>5, <2>6, PickedShares
  <2>8. picked = Picked(seq, request.limit)
    BY <2>3, <2>6, <2>7, CutDraws DEF Placed
  <2> QED
    BY <2>4, <2>5, <2>6, <2>8, PickedShares
<1> QED
  BY <1>1, RecallInvariant, PTL


-----------------------------------------------------------------------------
(***************************************************************************)
(* The budget                                                              *)
(***************************************************************************)

(* A list whose every item says something.                                 *)
Spoken(seq) == \A k \in DOMAIN seq : IsFiniteSet(seq[k].text) /\ seq[k].text # {}

(* A text has finitely many bytes, and one at least.                       *)
LEMMA BytesAreSome ==
  ASSUME NEW text, text \subseteq Texts, IsFiniteSet(text), text # {}
  PROVE  IsFiniteSet(BytesOf(text)) /\ BytesOf(text) # {}
<1>1. PICK f : f = [x \in text |-> {x} \X (1 .. Bytes[x])]
  OBVIOUS
<1>2. PICK F : F = {f[x] : x \in text}
  OBVIOUS
<1>3. BytesOf(text) = UNION F
  <2>1. F = {{x} \X (1 .. Bytes[x]) : x \in text}
    BY <1>1, <1>2
  <2> QED
    BY <2>1 DEF BytesOf
<1>4. IsFiniteSet(F)
  <2>1. DOMAIN f = text
    BY <1>1
  <2> QED
    BY <1>2, <2>1, FiniteImage
<1>5. ASSUME NEW x \in text
      PROVE  IsFiniteSet(f[x]) /\ <<x, 1>> \in f[x]
  <2>1. Bytes[x] \in Nat \ {0}
    BY RecallAssumption
  <2>2. PICK m \in Nat : m = Bytes[x] /\ 1 \in 1 .. m
    BY <2>1
  <2>3. IsFiniteSet(1 .. m)
    BY FS_Interval
  <2>4. IsFiniteSet({x})
    BY FS_Singleton
  <2>5. IsFiniteSet({x} \X (1 .. m))
    BY <2>3, <2>4, FS_Product
  <2>6. f[x] = {x} \X (1 .. m)
    BY <1>1, <2>2
  <2> QED
    BY <2>2, <2>5, <2>6
<1>6. \A T \in F : IsFiniteSet(T)
  BY <1>2, <1>5
<1>7. IsFiniteSet(UNION F)
  BY <1>4, <1>6, FS_UNION
<1>8. UNION F # {}
  <2>1. PICK x : x \in text
    OBVIOUS
  <2>2. f[x] \in F /\ <<x, 1>> \in f[x]
    BY <1>2, <1>5, <2>1
  <2> QED
    BY <2>2
<1> QED
  BY <1>3, <1>7, <1>8

(* The length of a list of some items is a number, and not zero.           *)
LEMMA LengthIsSome ==
  ASSUME NEW seq \in Seq(Passage), seq # <<>>, Spoken(seq)
  PROVE  LengthOf(seq, Len(seq)) \in Nat /\ LengthOf(seq, Len(seq)) >= 1
<1>1. PICK n : n = Len(seq) /\ n \in Nat \ {0} /\ DOMAIN seq = 1 .. n
  BY LenProperties, EmptySeq
<1>2. PICK f : f = [j \in 1 .. n |-> {j} \X BytesOf(seq[j].text)]
  OBVIOUS
<1>3. PICK F : F = {f[j] : j \in 1 .. n}
  OBVIOUS
<1>4. F = {{j} \X BytesOf(seq[j].text) : j \in 1 .. n}
  BY <1>2, <1>3
<1>5. LengthOf(seq, n) = Cardinality(UNION F)
  BY <1>4 DEF LengthOf
<1>6. IsFiniteSet(1 .. n) /\ DOMAIN f = 1 .. n
  BY <1>1, <1>2, FS_Interval
<1>7. IsFiniteSet(F)
  BY <1>3, <1>6, FiniteImage
<1>8. ASSUME NEW j \in 1 .. n
      PROVE  IsFiniteSet(f[j]) /\ f[j] # {}
  <2>1. PICK text : text = seq[j].text /\ text \subseteq Texts /\ IsFiniteSet(text) /\ text # {}
    <3>1. seq[j] \in Passage
      BY <1>1, ElementOfSeq
    <3> QED
      BY <1>1, <3>1 DEF Spoken, Passage
  <2>2. PICK B : B = BytesOf(text) /\ IsFiniteSet(B) /\ B # {}
    BY <2>1, BytesAreSome
  <2>3. IsFiniteSet({j} \X B)
    <3>1. IsFiniteSet({j})
      BY FS_Singleton
    <3> QED
      BY <2>2, <3>1, FS_Product
  <2>4. f[j] = {j} \X B
    BY <1>2, <2>1, <2>2
  <2>5. PICK b \in B : <<j, b>> \in {j} \X B
    BY <2>2
  <2> QED
    BY <2>3, <2>4, <2>5
<1>9. \A T \in F : IsFiniteSet(T)
  BY <1>3, <1>8
<1>10. IsFiniteSet(UNION F)
  BY <1>7, <1>9, FS_UNION
<1>11. UNION F # {}
  <2>1. 1 \in 1 .. n
    BY <1>1
  <2>2. f[1] \in F /\ f[1] # {}
    BY <1>3, <1>8, <2>1
  <2> QED
    BY <2>2
<1>12. Cardinality(UNION F) \in Nat /\ Cardinality(UNION F) # 0
  BY <1>10, <1>11, FS_CardinalityType, FS_EmptySet
<1> QED
  BY <1>1, <1>5, <1>12

(* What is held to a budget keeps its first item, and has another only     *)
(* within the budget.                                                      *)
LEMMA BudgetedFits ==
  ASSUME NEW seq \in Seq(Passage), NEW budget
  PROVE  /\ seq # <<>> => Budgeted(seq, budget) # <<>>
         /\ Len(Budgeted(seq, budget)) > 1 =>
              LengthOf(Budgeted(seq, budget), Len(Budgeted(seq, budget))) <= budget
<1>1. PICK n : n = Len(seq) /\ n \in Nat /\ DOMAIN seq = 1 .. n
  BY LenProperties
<1>2. PICK fitting : fitting = {k \in 0 .. Len(seq) : \A j \in 2 .. k : LengthOf(seq, j) <= budget}
  OBVIOUS
<1>3. /\ fitting \subseteq 0 .. n /\ 0 \in fitting
      /\ n >= 1 => 1 \in fitting
      /\ \A k \in fitting : \A j \in 2 .. k : LengthOf(seq, j) <= budget
  BY <1>1, <1>2
<1>4. IsFiniteSet(fitting)
  <2>1. IsFiniteSet(0 .. n)
    BY <1>1, FS_Interval
  <2> QED
    BY <1>3, <2>1, FS_Subset
<1>5. fitting \subseteq Int /\ fitting # {}
  BY <1>3
<1>6. PICK m : m = Max(fitting) /\ m \in fitting /\ \A y \in fitting : y <= m
  BY <1>4, <1>5, GreatestAndLeast
<1>7. PICK one \in Int, last \in Int : one = 1 /\ last = m /\ 0 <= last /\ last <= n
  BY <1>1, <1>3, <1>6
<1>8. \A k \in one .. last : seq[k] \in Passage
  BY <1>1, <1>7, ElementOfSeq
<1>9. /\ SubSeq(seq, one, last) \in Seq(Passage)
      /\ Len(SubSeq(seq, one, last)) = (IF one <= last THEN last - one + 1 ELSE 0)
      /\ \A k \in 1 .. last - one + 1 : SubSeq(seq, one, last)[k] = seq[one + k - 1]
  BY <1>8, SubSeqProperties
<1>10. PICK s : s = SubSeq(seq, one, last)
  OBVIOUS
<1>11. s \in Seq(Passage) /\ Len(s) = last /\ \A k \in 1 .. last : s[k] = seq[k]
  BY <1>7, <1>9, <1>10
<1>12. s = Budgeted(seq, budget)
  BY <1>2, <1>6, <1>7, <1>10 DEF Budgeted
<1>13. seq # <<>> => s # <<>>
  <2> SUFFICES ASSUME seq # <<>> PROVE s # <<>>
    OBVIOUS
  <2>1. n >= 1
    BY <1>1, EmptySeq
  <2>2. last >= 1
    BY <1>3, <1>6, <1>7, <2>1
  <2> QED
    BY <1>11, <2>2, EmptySeq
<1>14. ASSUME last > 1 PROVE LengthOf(s, last) <= budget
  <2>1. \A j \in 1 .. last : s[j].text = seq[j].text
    BY <1>11
  <2>2. {{j} \X BytesOf(s[j].text) : j \in 1 .. last} = {{j} \X BytesOf(seq[j].text) : j \in 1 .. last}
    BY <2>1
  <2>3. LengthOf(s, last) = LengthOf(seq, last)
    BY <2>2 DEF LengthOf
  <2>4. last \in 2 .. last /\ last \in fitting
    BY <1>6, <1>7, <1>14
  <2> QED
    BY <1>3, <2>3, <2>4
<1> QED
  BY <1>11, <1>12, <1>13, <1>14

(* The answer that is packed keeps its first item, and has another only    *)
(* while items and facts together fit the budget.                          *)
LEMMA PackedFits ==
  ASSUME request \in Requests, request.budget # NoBudget,
         NEW seq \in Seq(Passage), seq # <<>>, Spoken(seq)
  PROVE  /\ Packed(seq) # <<>> /\ Packed(seq)[1] = seq[1] /\ Spoken(Packed(seq))
         /\ Len(Packed(seq)) > 1 =>
              LengthOf(Packed(seq), Len(Packed(seq))) + FactBytes <= request.budget
<1>1. PICK budget \in Nat, facts \in Nat : budget = request.budget /\ facts = FactBytes
  BY RecallAssumption
<1>2. PICK left : left = Max({0, budget - facts})
  OBVIOUS
<1>3. PICK first : first = Budgeted(seq, budget)
  OBVIOUS
<1>4. first \in Seq(Passage) /\ first # <<>> /\ \A k \in DOMAIN first : k \in DOMAIN seq /\ first[k] = seq[k]
  BY <1>3, BudgetedHeads, BudgetedFits
<1>5. PICK s : s = Budgeted(first, left)
  OBVIOUS
<1>6. /\ s \in Seq(Passage) /\ s # <<>> /\ \A k \in DOMAIN s : k \in DOMAIN first /\ s[k] = first[k]
      /\ Len(s) > 1 => LengthOf(s, Len(s)) <= left
  BY <1>4, <1>5, BudgetedHeads, BudgetedFits
<1>7. Packed(seq) = s
  BY <1>1, <1>2, <1>3, <1>5 DEF Packed
<1>8. \A k \in DOMAIN s : k \in DOMAIN seq /\ s[k] = seq[k]
  BY <1>4, <1>6
<1>9. 1 \in DOMAIN s
  BY <1>6, LenProperties, EmptySeq
<1>10. Spoken(s)
  BY <1>8 DEF Spoken
<1>11. left = 0 \/ left = budget - facts
  <2>1. PICK zero \in Int, rest \in Int : zero = 0 /\ rest = budget - facts
    OBVIOUS
  <2>2. PICK T : T = {zero, rest}
    OBVIOUS
  <2>3. IsFiniteSet(T)
    <3>1. IsFiniteSet({zero}) /\ IsFiniteSet({rest})
      BY FS_Singleton
    <3>2. IsFiniteSet({zero} \cup {rest})
      BY <3>1, FS_Union
    <3>3. T = {zero} \cup {rest}
      BY <2>2
    <3> QED
      BY <3>2, <3>3
  <2>4. T \subseteq Int /\ T # {}
    BY <2>2
  <2>5. Max(T) \in T
    BY <2>3, <2>4, GreatestAndLeast
  <2> QED
    BY <1>2, <2>1, <2>5, <2>2
<1>12. LengthOf(s, Len(s)) \in Nat /\ LengthOf(s, Len(s)) >= 1
  BY <1>6, <1>10, LengthIsSome
<1>13. ASSUME Len(s) > 1 PROVE LengthOf(s, Len(s)) + facts <= budget
  BY <1>6, <1>11, <1>12, <1>13
<1> QED
  BY <1>1, <1>6, <1>7, <1>8, <1>9, <1>10, <1>13


-----------------------------------------------------------------------------
(***************************************************************************)
(* The cut                                                                 *)
(***************************************************************************)

Falling(scores) == \A j, k \in DOMAIN scores : j < k => scores[j] >= scores[k]

(* The lane's cosines are in falling order, and every item's is there.     *)
LEMMA LaneFalls ==
  ASSUME Candidates(items)
  PROVE  /\ LaneCosines \in Seq(Int) /\ Falling(LaneCosines)
         /\ \A i \in items : i.similarity # NoCosine =>
              \E k \in DOMAIN LaneCosines : LaneCosines[k] = i.similarity
<1>1. PICK S : S = {i \in items : i.similarity # NoCosine}
  OBVIOUS
<1>2. Candidates(S)
  BY <1>1, SomeCandidates
<1>3. \A a \in S : a.similarity \in Int /\ a.chunk \in Int
  BY <1>1 DEF Candidates, Passage
<1>4. PICK R : R = {p \in S \X S : \/ p[1].similarity > p[2].similarity
                                   \/ p[1].similarity = p[2].similarity /\ p[1].chunk < p[2].chunk}
  OBVIOUS
<1>5. \A a, b \in S : <<a, b>> \in R <=> \/ a.similarity > b.similarity
                                         \/ a.similarity = b.similarity /\ a.chunk < b.chunk
  BY <1>4
<1>6. StrictOrder(S, R)
  <2>1. \A a, b \in S : a # b => a.chunk # b.chunk
    BY <1>2 DEF Candidates
  <2> QED
    BY <1>3, <1>5, <2>1 DEF StrictOrder
<1>7. PICK f, n : f = InOrderBy(S, R) /\ n = Cardinality(S)
  OBVIOUS
<1>8. /\ n \in Nat /\ f \in Seq(S) /\ Len(f) = n
      /\ \A a \in S : \E k \in 1 .. n : f[k] = a
      /\ \A j, k \in 1 .. n : j < k => <<f[j], f[k]>> \in R
  BY <1>2, <1>6, <1>7, InLineOrders DEF Candidates
<1>9. DOMAIN f = 1 .. n /\ \A k \in 1 .. n : f[k] \in S
  BY <1>8, LenProperties, ElementOfSeq
<1>10. PICK L : L = LaneCosines /\ L = [k \in 1 .. n |-> f[k].similarity]
  BY <1>1, <1>4, <1>7, <1>9 DEF LaneCosines
<1>11. L \in [1 .. n -> Int]
  BY <1>3, <1>9, <1>10
<1>12. L \in Seq(Int) /\ DOMAIN L = 1 .. n
  BY <1>8, <1>11, SeqDef
<1>13. ASSUME NEW j \in 1 .. n, NEW k \in 1 .. n, j < k PROVE L[j] >= L[k]
  <2>1. <<f[j], f[k]>> \in R /\ f[j] \in S /\ f[k] \in S
    BY <1>8, <1>9, <1>13
  <2>2. f[j].similarity >= f[k].similarity
    BY <1>3, <1>5, <2>1
  <2> QED
    BY <1>10, <2>2
<1>14. ASSUME NEW i \in items, i.similarity # NoCosine
       PROVE  \E k \in 1 .. n : L[k] = i.similarity
  <2>1. PICK k \in 1 .. n : f[k] = i
    BY <1>1, <1>8, <1>14
  <2> QED
    BY <1>10, <2>1
<1> QED
  BY <1>10, <1>12, <1>13, <1>14 DEF Falling

(* Of some numbered drops there is a best.                                 *)
LEMMA BestOfCuts ==
  ASSUME NEW m \in Nat, m >= 1, NEW val \in [1 .. m -> Int]
  PROVE  \E p \in 1 .. m : \A q \in 1 .. m : val[p] > val[q] \/ (val[p] = val[q] /\ p <= q)
<1>1. PICK S : S = 1 .. m
  OBVIOUS
<1>2. IsFiniteSet(S) /\ S # {}
  <2>1. 1 \in S
    BY <1>1
  <2>2. IsFiniteSet(1 .. m)
    BY FS_Interval
  <2> QED
    BY <1>1, <2>1, <2>2
<1>3. PICK R : R = {p \in S \X S : val[p[1]] > val[p[2]] \/ (val[p[1]] = val[p[2]] /\ p[1] < p[2])}
  OBVIOUS
<1>4. \A a, b \in S : <<a, b>> \in R <=> val[a] > val[b] \/ (val[a] = val[b] /\ a < b)
  BY <1>3
<1>5. \A a \in S : a \in Int /\ val[a] \in Int
  BY <1>1
<1>6. StrictOrder(S, R)
  <2>1. ASSUME NEW a \in S, NEW b \in S, NEW c \in S, <<a, b>> \in R, <<b, c>> \in R
        PROVE  <<a, c>> \in R
    <3>1. val[a] > val[b] \/ (val[a] = val[b] /\ a < b)
      BY <1>4, <2>1
    <3>2. val[b] > val[c] \/ (val[b] = val[c] /\ b < c)
      BY <1>4, <2>1
    <3>3. val[a] > val[c] \/ (val[a] = val[c] /\ a < c)
      BY <1>5, <3>1, <3>2
    <3> QED
      BY <1>4, <3>3
  <2>2. ASSUME NEW a \in S, NEW b \in S, a # b PROVE <<a, b>> \in R \/ <<b, a>> \in R
    <3>1. val[a] > val[b] \/ val[b] > val[a] \/ (val[a] = val[b] /\ (a < b \/ b < a))
      BY <1>5, <2>2
    <3> QED
      BY <1>4, <3>1
  <2>3. ASSUME NEW a \in S PROVE <<a, a>> \notin R
    <3>1. ~ (val[a] > val[a]) /\ ~ (a < a)
      BY <1>5
    <3> QED
      BY <1>4, <3>1
  <2> QED
    BY <2>1, <2>2, <2>3 DEF StrictOrder
<1>7. PICK a \in S : \A b \in S : b = a \/ <<a, b>> \in R
  BY <1>2, <1>6, FirstInLine
<1>8. ASSUME NEW b \in S PROVE val[a] > val[b] \/ (val[a] = val[b] /\ a <= b)
  <2>1. CASE b = a
    BY <1>5, <2>1
  <2>2. CASE <<a, b>> \in R
    <3>1. val[a] > val[b] \/ (val[a] = val[b] /\ a < b)
      BY <1>4, <2>2
    <3> QED
      BY <1>5, <3>1
  <2> QED
    BY <1>7, <2>1, <2>2
<1> QED
  BY <1>1, <1>8

(* What exceeds a share of the whole exceeds that share of a part.         *)
LEMMA MoreOfLess ==
  ASSUME NEW x \in Int, NEW y \in Int, NEW a \in Int, NEW z \in Int, NEW whole \in Int,
         100 * (x - y) >= 15 * whole, a - z <= whole
  PROVE  100 * (x - y) >= 15 * (a - z)
OBVIOUS

(* Where the scores show a boundary, it is at a drop of at least MinGap of *)
(* the spread.                                                             *)
LEMMA GapIsADrop ==
  ASSUME NEW L \in Seq(Int), NEW limit \in Nat, Threshold(L, limit) # NoCosine
  PROVE  \E keep \in 1 .. Len(L) - 1 :
           /\ Threshold(L, limit) = L[keep]
           /\ L[1] - L[Min({Len(L), limit + 1})] \in Int
           /\ 100 * (L[keep] - L[keep + 1]) >= MinGap * (L[1] - L[Min({Len(L), limit + 1})])
<1>1. PICK n \in Nat : n = Len(L) /\ DOMAIN L = 1 .. n /\ \A k \in 1 .. n : L[k] \in Int
  BY LenProperties, ElementOfSeq
<1>2. PICK high : high = Max({1, AtMost(limit, Len(L))})
  OBVIOUS
<1>3. PICK some \in Nat : some = AtMost(limit, n) /\ some <= limit /\ some <= n /\ (some = limit \/ some = n)
  BY <1>1 DEF AtMost
<1>4. high \in Nat /\ high >= 1 /\ (some >= 1 => high = some) /\ (some = 0 => high = 1)
  <2>1. PICK one \in Int : one = 1
    OBVIOUS
  <2>2. PICK T : T = {one, some}
    OBVIOUS
  <2>3. IsFiniteSet(T)
    <3>1. IsFiniteSet({one}) /\ IsFiniteSet({some})
      BY FS_Singleton
    <3>2. IsFiniteSet({one} \cup {some})
      BY <3>1, FS_Union
    <3>3. T = {one} \cup {some}
      BY <2>2
    <3> QED
      BY <3>2, <3>3
  <2>4. T \subseteq Int /\ T # {}
    BY <2>2
  <2>5. Max(T) \in T /\ \A y \in T : y <= Max(T)
    BY <2>3, <2>4, GreatestAndLeast
  <2>6. high = Max(T)
    BY <1>1, <1>2, <1>3, <2>1, <2>2
  <2> QED
    BY <2>1, <2>2, <2>5, <2>6
<1>5. PICK cut : cut = GapCutoff(L, 1, high)
  OBVIOUS
<1>6. cut.rule = "gap" /\ Threshold(L, limit) = L[cut.keep]
  BY <1>2, <1>5 DEF Threshold
<1> DEFINE Value(p) == 100 * high * (L[p] - L[p + 1])
                       - LateCharge * p * (L[1] - L[AtMost(Len(L), high + 1)])
           Best1 == CHOOSE p \in 1 .. AtMost(high, Len(L) - 1) :
                      \A q \in 1 .. AtMost(high, Len(L) - 1) :
                        \/ Value(p) > Value(q)
                        \/ Value(p) = Value(q) /\ p <= q
<1>7. cut = CASE Len(L) <= 1 -> [rule |-> "short", keep |-> Len(L)]
              [] /\ Len(L) > 1
                 /\ \/ L[1] - L[AtMost(Len(L), high + 1)] <= 0
                    \/ 100 * (L[Best1] - L[Best1 + 1]) < MinGap * (L[1] - L[AtMost(Len(L), high + 1)])
                   -> [rule |-> "no-boundary", keep |-> AtMost(high, Len(L))]
              [] OTHER -> [rule |-> "gap", keep |-> Best1]
  BY <1>5, Zenon DEF GapCutoff
<1>8. PICK spread : spread = L[1] - L[AtMost(n, high + 1)]
  OBVIOUS
<1>9. PICK cuts : cuts = 1 .. AtMost(high, n - 1)
  OBVIOUS
<1>10. PICK val : val = [p \in cuts |-> Value(p)]
  OBVIOUS
<1>11. PICK best : best = Best1
  OBVIOUS
<1>12. best = CHOOSE p \in cuts : \A q \in cuts : val[p] > val[q] \/ (val[p] = val[q] /\ p <= q)
  BY <1>1, <1>9, <1>10, <1>11
<1> HIDE DEF Best1
<1>13. /\ n > 1 /\ ~ (spread <= 0) /\ ~ (100 * (L[best] - L[best + 1]) < MinGap * spread)
       /\ cut.keep = best
  BY <1>1, <1>6, <1>7, <1>8, <1>11
<1>14. PICK m \in Nat : m = AtMost(high, n - 1) /\ m >= 1 /\ m <= n - 1
  <2>1. n > 1 /\ high \in Nat /\ high >= 1
    BY <1>4, <1>13
  <2> QED
    BY <2>1 DEF AtMost
<1>15. best \in 1 .. m
  <2>1. spread \in Int
    BY <1>1, <1>4, <1>8, <1>13 DEF AtMost
  <2>2. \A p \in cuts : val[p] \in Int
    <3> SUFFICES ASSUME NEW p \in cuts PROVE val[p] \in Int
      OBVIOUS
    <3>1. PICK x \in Int, y \in Int, c \in Int : x = L[p] /\ y = L[p + 1] /\ c = LateCharge /\ p \in Int
      BY <1>1, <1>9, <1>14 DEF LateCharge
    <3>2. 100 * high * (x - y) \in Int /\ c * p * spread \in Int
      BY <1>4, <2>1, <3>1
    <3> QED
      BY <1>1, <1>8, <1>10, <3>1, <3>2
  <2>3. cuts = 1 .. m /\ val \in [1 .. m -> Int]
    BY <1>9, <1>10, <1>14, <2>2
  <2>4. \E p \in cuts : \A q \in cuts : val[p] > val[q] \/ (val[p] = val[q] /\ p <= q)
    BY <1>14, <2>3, BestOfCuts
  <2> QED
    BY <1>12, <2>3, <2>4
<1>16. PICK last \in Int : /\ last = Min({n, limit + 1}) /\ last \in 1 .. n
                           /\ last <= limit + 1 /\ (last = n \/ last = limit + 1)
  <2>1. PICK more \in Nat : more = limit + 1 /\ more >= 1
    OBVIOUS
  <2>2. PICK T : T = {n, more}
    OBVIOUS
  <2>3. IsFiniteSet(T)
    <3>1. IsFiniteSet({n}) /\ IsFiniteSet({more})
      BY FS_Singleton
    <3>2. IsFiniteSet({n} \cup {more})
      BY <3>1, FS_Union
    <3>3. T = {n} \cup {more}
      BY <2>2
    <3> QED
      BY <3>2, <3>3
  <2>4. T \subseteq Int /\ T # {}
    BY <2>2
  <2>5. Min(T) \in T /\ \A y \in T : Min(T) <= y
    BY <2>3, <2>4, GreatestAndLeast
  <2>6. PICK least \in Int : least = Min(T) /\ least <= n /\ least <= more /\ (least = n \/ least = more)
    BY <2>2, <2>4, <2>5
  <2> QED
    BY <1>13, <2>1, <2>2, <2>6
<1>17. L[1] - L[last] <= spread
  <2>1. CASE limit = 0
    <3>1. last = 1
      BY <1>13, <1>16, <2>1
    <3>2. L[1] \in Int
      BY <1>1, <1>13
    <3>3. spread \in Int
      BY <1>1, <1>4, <1>8, <1>13 DEF AtMost
    <3> QED
      BY <1>13, <3>1, <3>2, <3>3
  <2>2. CASE limit >= 1
    <3>1. high = some
      BY <1>3, <1>4, <1>13, <2>2
    <3>2. last = AtMost(n, high + 1)
      BY <1>3, <1>16, <3>1 DEF AtMost
    <3>3. L[1] \in Int /\ L[last] \in Int
      BY <1>1, <1>13, <1>16
    <3> QED
      BY <1>8, <3>2, <3>3
  <2> QED
    BY <2>1, <2>2
<1>18. /\ L[1] - L[last] \in Int
       /\ 100 * (L[best] - L[best + 1]) >= MinGap * (L[1] - L[last])
  <2>1. best \in 1 .. n /\ best + 1 \in 1 .. n /\ 1 \in 1 .. n /\ AtMost(n, high + 1) \in 1 .. n
    BY <1>4, <1>13, <1>14, <1>15 DEF AtMost
  <2>2. PICK x \in Int, y \in Int, a \in Int, z \in Int :
          x = L[best] /\ y = L[best + 1] /\ a = L[1] /\ z = L[last]
    BY <1>1, <1>16, <2>1
  <2>3. spread \in Int
    BY <1>1, <1>8, <2>1
  <2>4. 100 * (x - y) >= 15 * spread
    BY <1>13, <2>2, <2>3 DEF MinGap
  <2>5. 100 * (x - y) >= 15 * (a - z)
    <3>1. a - z <= spread
      BY <1>17, <2>2
    <3> QED
      BY <2>3, <2>4, <3>1, MoreOfLess
  <2>6. PICK u \in Int, v \in Int : u = a - z /\ v = x - y
    OBVIOUS
  <2>7. 100 * v >= 15 * u
    BY <2>5, <2>6
  <2>8. u = L[1] - L[last] /\ v = L[best] - L[best + 1]
    BY <2>2, <2>6, Zenon
  <2> QED
    BY <2>6, <2>7, <2>8, Zenon DEF MinGap
<1>19. best \in 1 .. n - 1
  BY <1>14, <1>15
<1> QED
  BY <1>1, <1>6, <1>13, <1>16, <1>18, <1>19


(* What is kept by a cut is of the list and at its floor or above it, and  *)
(* what is dropped is below.                                               *)
LEMMA CutParts ==
  ASSUME request.cutoff, NEW S, NEW seq, Drawn(seq, S),
         NEW floor, floor = Threshold(LaneCosines, request.limit)
  PROVE  /\ \A i \in ToSet(AboveTheCut(seq)) :
              i \in ToSet(seq) /\ (floor = NoCosine \/ (i.similarity # NoCosine /\ i.similarity >= floor))
         /\ \A j \in ToSet(seq) \ ToSet(AboveTheCut(seq)) :
              floor # NoCosine /\ ~ (j.similarity # NoCosine /\ j.similarity >= floor)
<1>1. PICK above : above = {k \in DOMAIN seq : \/ floor = NoCosine
                                               \/ /\ seq[k].similarity # NoCosine
                                                  /\ seq[k].similarity >= floor}
  OBVIOUS
<1>2. PICK n : n = Len(seq) /\ n \in Nat /\ DOMAIN seq = 1 .. n
  BY LenProperties DEF Drawn
<1>3. above \subseteq 1 .. n
  BY <1>1, <1>2
<1>4. IsFiniteSet(above) /\ above \subseteq Int
  <2>1. IsFiniteSet(1 .. n)
    BY <1>2, FS_Interval
  <2>2. IsFiniteSet(above)
    BY <1>3, <2>1, FS_Subset
  <2>3. above \subseteq Int
    BY <1>3
  <2> QED
    BY <2>2, <2>3
<1>5. PICK t, m : t = Increasing(above) /\ m = Cardinality(above)
  OBVIOUS
<1>6. /\ t \in Seq(above) /\ Len(t) = m /\ m \in Nat
      /\ \A a \in above : \E k \in 1 .. m : t[k] = a
  BY <1>4, <1>5, Increases
<1>7. \A k \in 1 .. m : t[k] \in above
  BY <1>6, ElementOfSeq
<1>8. t \in Seq(1 .. n)
  BY <1>3, <1>6, SeqWider
<1>9. PICK cut : cut = Along(seq, t)
  OBVIOUS
<1>10. DOMAIN cut = 1 .. m /\ \A k \in 1 .. m : cut[k] = seq[t[k]]
  BY <1>2, <1>6, <1>8, <1>9, AlongDraws
<1>11. AboveTheCut(seq) = cut
  BY <1>1, <1>5, <1>9 DEF AboveTheCut
<1>12. ASSUME NEW i \in ToSet(cut) PROVE \E k \in above : i = seq[k]
  <2>1. PICK k \in 1 .. m : i = cut[k]
    BY <1>10 DEF ToSet
  <2> QED
    BY <1>7, <1>10, <2>1
<1>13. ASSUME NEW j \in ToSet(seq) \ ToSet(cut) PROVE \E k \in DOMAIN seq : j = seq[k] /\ k \notin above
  <2>1. PICK k \in DOMAIN seq : j = seq[k]
    BY DEF ToSet
  <2>2. ASSUME k \in above PROVE FALSE
    <3>1. PICK p \in 1 .. m : t[p] = k
      BY <1>6, <2>2
    <3>2. cut[p] = j
      BY <1>10, <2>1, <3>1
    <3>3. j \in ToSet(cut)
      BY <1>10, <3>2 DEF ToSet
    <3> QED
      BY <3>3
  <2> QED
    BY <2>1, <2>2
<1>14. \A k \in DOMAIN seq : seq[k] \in ToSet(seq)
  BY DEF ToSet
<1> QED
  BY <1>1, <1>11, <1>12, <1>13, <1>14

-----------------------------------------------------------------------------
(***************************************************************************)
(* The settings and what is returned so far                                *)
(***************************************************************************)

(* Only settings that were measured are searched with, and where only the  *)
(* vector lane is asked, every candidate has a cosine.                     *)
SettingsInv ==
  /\ stage \notin {"idle", "refused"} => Accepted(request)
  /\ stage \in {"verify", "expand", "answered"} /\ request.lanes = {"vector"} =>
       /\ \A c \in DOMAIN cosine : cosine[c] \in Int
       /\ \A i \in items : i.similarity \in Int

(* Every item says something, and the first that is returned is the best.  *)
BudgetInv ==
  /\ Spoken(answer)
  /\ place = 1 => answer = <<>>
  /\ stage = "expand" /\ place > 1 => answer # <<>> /\ answer[1].chunk = picked[1].chunk
  /\ BudgetKeepsTheTop

PackInv == SettingsInv /\ BudgetInv

(* The second invariant holds before anything is asked.                    *)
LEMMA PackInvInit == RecallInit => PackInv
<1> SUFFICES ASSUME RecallInit PROVE PackInv
  OBVIOUS
<1>1. stage = "idle" /\ place = 1 /\ answer = <<>>
  BY DEF RecallInit
<1>2. Spoken(answer)
  BY <1>1 DEF Spoken
<1> QED
  BY <1>1, <1>2 DEF PackInv, SettingsInv, BudgetInv, BudgetKeepsTheTop, Answered

(* Until the packing nothing is answered, and before the first place is    *)
(* widened nothing is returned.                                            *)
LEMMA StillNothing ==
  ASSUME BudgetInv, answer' = answer, place' = place, picked' = picked,
         stage' # "answered", stage' # "expand" \/ stage = "expand" \/ place = 1
  PROVE  BudgetInv'
<1>1. Spoken(answer)'
  BY DEF BudgetInv, Spoken
<1>2. BudgetKeepsTheTop'
  BY DEF BudgetKeepsTheTop, Answered
<1> QED
  BY <1>1, <1>2 DEF BudgetInv

(* A request is searched with if its settings are accepted.                *)
LEMMA AskPacks ==
  ASSUME RecallInv, PackInv, NEW o \in Requests, Ask(o)
  PROVE  PackInv'
<1>1. /\ answer' = answer /\ place' = place /\ picked' = picked /\ request' = o /\ stage = "idle"
      /\ stage' = IF Accepted(o) THEN "search" ELSE "refused"
  BY DEF Ask
<1>2. SettingsInv'
  <2>1. stage' \notin {"idle", "refused"} => Accepted(o)
    BY <1>1
  <2>2. Accepted(request)' <=> Accepted(o)
    BY <1>1 DEF Accepted, Lanes
  <2> QED
    BY <1>1, <2>1, <2>2 DEF SettingsInv
<1>3. BudgetInv'
  BY <1>1, StillNothing DEF PackInv
<1> QED
  BY <1>2, <1>3 DEF PackInv

(* The vector lane gives each of its candidates a cosine.                  *)
LEMMA SearchPacks ==
  ASSUME RecallInv, PackInv, NEW textFails \in BOOLEAN, Search(textFails)
  PROVE  PackInv'
<1>1. /\ answer' = answer /\ place' = place /\ picked' = picked /\ request' = request
      /\ items' = items /\ stage = "search" /\ stage' \in {"verify", "refused"}
  BY DEF Search
<1>2. SettingsInv'
  <2>1. request.lanes = {"vector"} => \A c \in DOMAIN cosine' : cosine'[c] \in Int
    BY SearchFinds
  <2>2. items = {}
    BY <1>1 DEF RecallInv, AnswerInv
  <2>3. Accepted(request)'
    BY <1>1 DEF PackInv, SettingsInv, Accepted
  <2> QED
    BY <1>1, <2>1, <2>2, <2>3 DEF SettingsInv
<1>3. BudgetInv'
  BY <1>1, StillNothing DEF PackInv
<1> QED
  BY <1>2, <1>3 DEF PackInv

(* A verified candidate has the cosine of its id.                          *)
LEMMA VerifyPacks ==
  ASSUME RecallInv, PackInv, NEW c \in unread, Verify(c)
  PROVE  PackInv'
<1>1. /\ answer' = answer /\ place' = place /\ picked' = picked /\ request' = request
      /\ cosine' = cosine /\ stage = "verify" /\ stage' = stage
      /\ items' = items \cup {Item(d, rows[d]) : d \in {d \in {c} \cap DOMAIN rows : Answers(rows[d])}}
  BY DEF Verify
<1>2. SettingsInv'
  <2>1. c \in DOMAIN cosine
    BY DEF RecallInv, SearchInv
  <2>2. Item(c, rows[c]).similarity = cosine[c]
    BY DEF Item
  <2>3. \A i \in items' : i \in items \/ i = Item(c, rows[c])
    BY <1>1
  <2>4. Accepted(request)'
    BY <1>1 DEF PackInv, SettingsInv, Accepted
  <2> QED
    BY <1>1, <2>1, <2>2, <2>3, <2>4 DEF PackInv, SettingsInv
<1>3. BudgetInv'
  BY <1>1, StillNothing DEF PackInv
<1> QED
  BY <1>2, <1>3 DEF PackInv

(* Before the first place is widened nothing is returned.                  *)
LEMMA SelectPacks ==
  ASSUME RecallInv, PackInv, NEW r \in BOOLEAN, NEW d \in BOOLEAN, Select(r, d)
  PROVE  PackInv'
<1>1. /\ answer' = answer /\ place' = place /\ request' = request /\ items' = items
      /\ cosine' = cosine /\ stage = "verify" /\ stage' = "expand"
  BY DEF Select, search
<1>2. SettingsInv'
  <2>1. Accepted(request)'
    BY <1>1 DEF PackInv, SettingsInv, Accepted
  <2> QED
    BY <1>1, <2>1 DEF PackInv, SettingsInv
<1>3. answer = <<>> /\ place = 1
  BY <1>1 DEF RecallInv, AnswerInv
<1>4. Spoken(answer)'
  BY <1>1, <1>3 DEF Spoken
<1>5. BudgetInv'
  BY <1>1, <1>3, <1>4 DEF BudgetInv, BudgetKeepsTheTop, Answered
<1> QED
  BY <1>2, <1>5 DEF PackInv

(* Whatever an item is widened to says something.                          *)
LEMMA WidenedSpeaks ==
  ASSUME RecallInv, NEW item, NEW i \in items, Same(item, i)
  PROVE  IsFiniteSet(Widened(item)) /\ Widened(item) # {}
<1>1. PICK x \in Texts : item.text = {x}
  BY DEF RecallInv, ItemsInv, Candidates, Same
<1>2. IsStore(rows, held)
  BY DEF RecallInv
<1>3. CASE item.chunk \notin DOMAIN rows
  <2>1. Widened(item) = {x}
    BY <1>1, <1>3 DEF Widened
  <2> QED
    BY <2>1, FS_Singleton
<1>4. CASE item.chunk \in DOMAIN rows
  <2>1. PICK near : near = {d \in DOMAIN rows :
                             /\ rows[d].episode = rows[item.chunk].episode
                             /\ rows[d].pos \in rows[item.chunk].pos - 1 .. rows[item.chunk].pos + 1}
    OBVIOUS
  <2>2. PICK f : f = [d \in near |-> PassageOf(rows[d])]
    OBVIOUS
  <2>3. Widened(item) = {f[d] : d \in near}
    <3>1. {f[d] : d \in near} = {PassageOf(rows[c]) : c \in near}
      BY <2>2
    <3> QED
      BY <1>4, <2>1, <3>1 DEF Widened
  <2>4. IsFiniteSet(near)
    BY <1>2, <2>1, FS_Subset DEF IsStore
  <2>5. DOMAIN f = near
    BY <2>2
  <2>6. IsFiniteSet({f[d] : d \in near})
    BY <2>4, <2>5, FiniteImage
  <2>7. item.chunk \in near
    <3>1. PICK b \in Bodies : b = rows[item.chunk].body /\ rows[item.chunk].pos \in DOMAIN Passages[b]
      BY <1>2, <1>4 DEF IsStore
    <3>2. Passages[b] \in Seq(Texts)
      BY RecallAssumption
    <3>3. rows[item.chunk].pos \in Nat
      BY <3>1, <3>2, LenProperties
    <3> QED
      BY <1>4, <2>1, <3>3
  <2> QED
    BY <2>3, <2>6, <2>7
<1> QED
  BY <1>3, <1>4

(* The first place is never redundant, and the others come after it.       *)
LEMMA ExpandPacks ==
  ASSUME RecallInv, PackInv, Expand
  PROVE  PackInv'
<1>1. /\ picked' = picked /\ place' = place + 1 /\ request' = request /\ items' = items
      /\ cosine' = cosine /\ stage = "expand" /\ stage' = stage /\ place <= Len(picked)
  BY DEF Expand, search
<1>2. SettingsInv'
  <2>1. Accepted(request)'
    BY <1>1 DEF PackInv, SettingsInv, Accepted
  <2> QED
    BY <1>1, <2>1 DEF PackInv, SettingsInv
<1>3. /\ Candidates(items) /\ request \in Requests /\ place \in Nat \ {0}
      /\ picked \in Seq(Passage) /\ answer \in Seq(Passage)
  BY <1>1 DEF RecallInv, ItemsInv, AnswerInv
<1>4. PICK r \in BOOLEAN, d \in BOOLEAN : picked = AboveTheCut(Placed(InOrder(r, d)))
  BY <1>1 DEF RecallInv, AnswerInv
<1>5. Drawn(picked, items)
  BY <1>3, <1>4, PlacesDrawn
<1>6. place \in DOMAIN picked
  BY <1>1, <1>3, LenProperties
<1>7. PICK item : item = picked[place] /\ item \in Passage
  BY <1>3, <1>6, LenProperties, ElementOfSeq
<1>8. PICK i \in items : Same(item, i)
  BY <1>5, <1>6, <1>7 DEF Drawn
<1>9. PICK wider : wider = (IF request.expand THEN [item EXCEPT !.text = Widened(item)] ELSE item)
  OBVIOUS
<1>10. IsFiniteSet(wider.text) /\ wider.text # {} /\ wider.chunk = item.chunk /\ wider \in Passage
  <2>1. CASE request.expand
    <3>1. wider.text = Widened(item) /\ wider.chunk = item.chunk
      BY <1>7, <1>9, <2>1 DEF Passage
    <3>2. IsFiniteSet(Widened(item)) /\ Widened(item) # {} /\ Widened(item) \subseteq Texts
      BY <1>8, WidenedSpeaks, WidenedTold
    <3> QED
      BY <1>7, <1>9, <2>1, <3>1, <3>2 DEF Passage
  <2>2. CASE ~ request.expand
    <3>1. PICK x \in Texts : item.text = {x}
      BY <1>3, <1>8 DEF Candidates, Same
    <3> QED
      BY <1>7, <1>9, <2>2, <3>1, FS_Singleton
  <2> QED
    BY <2>1, <2>2
<1>11. /\ answer' = answer \/ answer' = Append(answer, wider)
       /\ answer = <<>> => answer' = Append(answer, wider)
  BY <1>7, <1>9 DEF Expand
<1>12. PICK n : n = Len(answer) /\ n \in Nat /\ DOMAIN answer = 1 .. n
  BY <1>3, LenProperties
<1>13. ASSUME answer' = Append(answer, wider)
       PROVE  /\ DOMAIN answer' = 1 .. n + 1 /\ answer' # <<>>
              /\ \A k \in 1 .. n : answer'[k] = answer[k]
              /\ answer'[n + 1] = wider
  <2>1. /\ answer' \in Seq(Passage) /\ Len(answer') = n + 1
        /\ \A k \in 1 .. n : answer'[k] = answer[k]
        /\ answer'[n + 1] = wider
    BY <1>3, <1>10, <1>12, <1>13, AppendProperties
  <2> QED
    BY <1>12, <2>1, LenProperties, EmptySeq
<1>14. Spoken(answer)'
  <2>1. Spoken(answer)
    BY DEF PackInv, BudgetInv
  <2>2. CASE answer' = answer
    BY <2>1, <2>2 DEF Spoken
  <2>3. CASE answer' = Append(answer, wider)
    <3>1. \A k \in DOMAIN answer' : k \in 1 .. n \/ k = n + 1
      BY <1>12, <1>13, <2>3
    <3> QED
      BY <1>10, <1>12, <1>13, <2>1, <2>3, <3>1 DEF Spoken
  <2> QED
    BY <1>11, <2>2, <2>3
<1>15. answer' # <<>> /\ answer'[1].chunk = picked[1].chunk
  <2>1. CASE place = 1
    <3>1. answer = <<>> /\ n = 0
      BY <1>12, <2>1 DEF PackInv, BudgetInv
    <3> QED
      BY <1>7, <1>10, <1>11, <1>13, <2>1, <3>1
  <2>2. CASE place > 1
    <3>1. answer # <<>> /\ answer[1].chunk = picked[1].chunk
      BY <1>1, <2>2 DEF PackInv, BudgetInv
    <3>2. 1 \in 1 .. n
      BY <1>3, <1>12, <3>1, EmptySeq
    <3> QED
      BY <1>11, <1>13, <3>1, <3>2
  <2> QED
    BY <1>3, <2>1, <2>2
<1>16. BudgetInv'
  <2>1. place' # 1
    BY <1>1, <1>3
  <2> QED
    BY <1>1, <1>14, <1>15, <2>1 DEF BudgetInv, BudgetKeepsTheTop, Answered
<1> QED
  BY <1>2, <1>16 DEF PackInv

(* Packing keeps the first item and the budget.                            *)
LEMMA PackPacks ==
  ASSUME RecallInv, PackInv, Pack
  PROVE  PackInv'
<1>1. /\ picked' = picked /\ place' = place /\ request' = request /\ items' = items
      /\ cosine' = cosine /\ stage = "expand" /\ stage' = "answered" /\ place > Len(picked)
      /\ answer' = Packed(answer)
  BY DEF Pack, search
<1>2. SettingsInv'
  <2>1. Accepted(request)'
    BY <1>1 DEF PackInv, SettingsInv, Accepted
  <2> QED
    BY <1>1, <2>1 DEF PackInv, SettingsInv
<1>3. /\ request \in Requests /\ place \in Nat \ {0}
      /\ picked \in Seq(Passage) /\ answer \in Seq(Passage) /\ Spoken(answer)
  BY <1>1 DEF RecallInv, AnswerInv, PackInv, BudgetInv
<1>4. /\ \A k \in DOMAIN answer' : k \in DOMAIN answer /\ answer'[k] = answer[k]
      /\ answer' \in Seq(Passage)
  BY <1>1, <1>3, PackedHeads
<1>5. Spoken(answer)'
  BY <1>3, <1>4 DEF Spoken
<1>6. place = 1 => answer' = <<>>
  <2> SUFFICES ASSUME place = 1 PROVE answer' = <<>>
    OBVIOUS
  <2>1. answer = <<>>
    BY DEF PackInv, BudgetInv
  <2>2. DOMAIN answer' = {}
    <3>1. Len(answer) = 0 /\ DOMAIN answer = 1 .. 0
      BY <1>3, <2>1, LenProperties, EmptySeq
    <3>2. \A k : k \notin 1 .. 0
      OBVIOUS
    <3> QED
      BY <1>4, <3>1, <3>2, Zenon
  <2>3. Len(answer') = 0
    BY <1>4, <2>2, LenProperties
  <2> QED
    BY <1>4, <2>3, EmptySeq
<1>7. BudgetKeepsTheTop'
  <2> SUFFICES ASSUME request.budget # NoBudget, picked # <<>>
               PROVE  /\ answer' # <<>> /\ answer'[1].chunk = picked[1].chunk
                      /\ Len(answer') > 1 =>
                           LengthOf(answer', Len(answer')) + FactBytes <= request.budget
    BY <1>1 DEF BudgetKeepsTheTop
  <2>1. place > 1
    BY <1>1, <1>3, EmptySeq
  <2>2. answer # <<>> /\ answer[1].chunk = picked[1].chunk
    BY <1>1, <2>1 DEF PackInv, BudgetInv
  <2> QED
    BY <1>1, <1>3, <2>2, PackedFits
<1>8. BudgetInv'
  BY <1>1, <1>5, <1>6, <1>7 DEF BudgetInv
<1> QED
  BY <1>2, <1>8 DEF PackInv

(* The other process does not touch any of it.                             *)
LEMMA OthersPack ==
  ASSUME PackInv, answer' = answer, place' = place, picked' = picked, request' = request,
         items' = items, cosine' = cosine, stage' = stage
  PROVE  PackInv'
<1>1. SettingsInv'
  BY DEF PackInv, SettingsInv, Accepted
<1>2. BudgetInv'
  BY DEF PackInv, BudgetInv, Spoken, BudgetKeepsTheTop, Answered
<1> QED
  BY <1>1, <1>2 DEF PackInv

(* Both hold throughout a recall.                                          *)
THEOREM PackInvariant == RecallSpec => []PackInv
<1>1. RecallInv /\ PackInv /\ [RecallNext]_recallVars => PackInv'
  <2> SUFFICES ASSUME RecallInv, PackInv, [RecallNext]_recallVars PROVE PackInv'
    OBVIOUS
  <2>1. CASE \E o \in Requests : Ask(o)
    BY <2>1, AskPacks
  <2>2. CASE \E fails \in BOOLEAN : Search(fails)
    BY <2>2, SearchPacks
  <2>3. CASE \E c \in unread : Verify(c)
    BY <2>3, VerifyPacks
  <2>4. CASE \E r, d \in BOOLEAN : Select(r, d)
    BY <2>4, SelectPacks
  <2>5. CASE Expand
    BY <2>5, ExpandPacks
  <2>6. CASE Pack
    BY <2>6, PackPacks
  <2>7. CASE Fail
    <3>1. answer' = answer /\ place' = place /\ picked' = picked /\ stage' = "refused"
      BY <2>7 DEF Fail
    <3>2. BudgetInv'
      BY <3>1, StillNothing DEF PackInv
    <3> QED
      BY <3>1, <3>2 DEF PackInv, SettingsInv
  <2>8. CASE \E s \in Spaces : OtherDeletes(s)
    BY <2>8, OthersPack DEF OtherDeletes, search
  <2>9. CASE \E s \in Spaces, b \in Bodies : OtherIngests(s, b)
    BY <2>9, OthersPack DEF OtherIngests, search
  <2>10. CASE UNCHANGED recallVars
    BY <2>10, OthersPack DEF recallVars, search
  <2> QED
    BY <2>1, <2>2, <2>3, <2>4, <2>5, <2>6, <2>7, <2>8, <2>9, <2>10 DEF RecallNext
<1> QED
  BY <1>1, PackInvInit, RecallInvariant, PTL DEF RecallSpec

(* The best passage always survives the budget, and any other only while   *)
(* passages and facts together fit.                                        *)
THEOREM TheTopIsKept == RecallSpec => []BudgetKeepsTheTop
<1>1. PackInv => BudgetKeepsTheTop
  BY DEF PackInv, BudgetInv
<1> QED
  BY <1>1, PackInvariant, PTL

(* Where a passage that has a place is cut off, it lies below those that   *)
(* are kept by MIN_GAP of the spread of the lane's cosines.                *)
THEOREM CutsFallInDrops == RecallSpec => []CutFallsInADrop
<1>1. RecallInv /\ PackInv => CutFallsInADrop
  <2> SUFFICES ASSUME RecallInv, PackInv, Answered, request.cutoff
               PROVE  \E d \in BOOLEAN :
                        /\ ToSet(picked) \subseteq ToSet(Placed(InOrder(FALSE, d)))
                        /\ \A i \in ToSet(picked),
                              j \in ToSet(Placed(InOrder(FALSE, d))) \ ToSet(picked) :
                             100 * (i.similarity - j.similarity)
                               >= MinGap * (LaneCosines[1]
                                            - LaneCosines[Min({Len(LaneCosines), request.limit + 1})])
    BY Zenon DEF CutFallsInADrop
  <2>1. stage = "answered" /\ Accepted(request)
    BY DEF Answered, PackInv, SettingsInv
  <2>2. request.lanes = {"vector"} /\ ~ request.rerank
    BY <2>1 DEF Accepted
  <2>3. Candidates(items) /\ request \in Requests /\ \A i \in items : i.similarity \in Int
    BY <2>1, <2>2 DEF RecallInv, ItemsInv, AnswerInv, PackInv, SettingsInv
  <2>4. PICK r \in BOOLEAN, d \in BOOLEAN : picked = AboveTheCut(Placed(InOrder(r, d)))
    BY <2>1 DEF RecallInv, AnswerInv
  <2>5. InOrder(r, d) = InOrder(FALSE, d)
    BY <2>2 DEF InOrder
  <2>6. PICK P : P = Placed(InOrder(FALSE, d)) /\ picked = AboveTheCut(P)
    BY <2>4, <2>5
  <2>7. PICK limit \in Nat : limit = request.limit
    BY <2>3, RecallAssumption
  <2>8. Drawn(P, Survivors) /\ Survivors \subseteq items
    <3>1. Candidates(Survivors) /\ Line(InOrder(FALSE, d), Survivors)
      BY <2>3, InOrderLines
    <3> QED
      BY <2>6, <2>7, <3>1, PickedShares DEF Placed, Survivors
  <2>9. ASSUME NEW i \in ToSet(P)
        PROVE  \E a \in items : i.similarity = a.similarity /\ a.similarity \in Int
    <3>1. PICK k \in DOMAIN P : i = P[k]
      BY <2>9 DEF ToSet
    <3>2. PICK a \in Survivors : Same(P[k], a)
      BY <2>8, <3>1 DEF Drawn
    <3> QED
      BY <2>3, <2>8, <3>1, <3>2 DEF Same
  <2>10. PICK floor : floor = Threshold(LaneCosines, request.limit)
    OBVIOUS
  <2>11. /\ \A i \in ToSet(picked) :
              i \in ToSet(P) /\ (floor = NoCosine \/ (i.similarity # NoCosine /\ i.similarity >= floor))
         /\ \A j \in ToSet(P) \ ToSet(picked) :
              floor # NoCosine /\ ~ (j.similarity # NoCosine /\ j.similarity >= floor)
    BY <2>6, <2>8, <2>10, CutParts
  <2>12. PICK L : L = LaneCosines
    OBVIOUS
  <2>13. /\ L \in Seq(Int) /\ Falling(L)
         /\ \A i \in items : i.similarity # NoCosine => \E k \in DOMAIN L : L[k] = i.similarity
    BY <2>3, <2>12, LaneFalls
  <2>14. ASSUME NEW i \in ToSet(picked), NEW j \in ToSet(P) \ ToSet(picked)
         PROVE  100 * (i.similarity - j.similarity) >= MinGap * (L[1] - L[Min({Len(L), limit + 1})])
    <3>1. /\ floor # NoCosine /\ i.similarity >= floor
          /\ ~ (j.similarity # NoCosine /\ j.similarity >= floor)
      BY <2>11, <2>14
    <3>2. PICK x \in Int, y \in Int : x = i.similarity /\ y = j.similarity
      BY <2>9, <2>11, <2>14
    <3>3. PICK keep \in 1 .. Len(L) - 1, whole \in Int :
            /\ floor = L[keep]
            /\ whole = L[1] - L[Min({Len(L), limit + 1})]
            /\ 100 * (L[keep] - L[keep + 1]) >= MinGap * whole
      <4>1. floor = Threshold(L, limit) /\ floor # NoCosine
        BY <2>7, <2>10, <2>12, <3>1
      <4>2. PICK keep \in 1 .. Len(L) - 1 :
              /\ Threshold(L, limit) = L[keep]
              /\ L[1] - L[Min({Len(L), limit + 1})] \in Int
              /\ 100 * (L[keep] - L[keep + 1]) >= MinGap * (L[1] - L[Min({Len(L), limit + 1})])
        BY <2>13, <4>1, GapIsADrop
      <4>3. PICK whole \in Int : whole = L[1] - L[Min({Len(L), limit + 1})]
        BY <4>2
      <4>4. 100 * (L[keep] - L[keep + 1]) >= MinGap * whole
        BY <4>2, <4>3
      <4> QED
        BY <4>1, <4>2, <4>3, <4>4
    <3>4. PICK n \in Nat : n = Len(L) /\ DOMAIN L = 1 .. n /\ \A k \in 1 .. n : L[k] \in Int
      BY <2>13, LenProperties, ElementOfSeq
    <3>5. y # NoCosine
      BY <3>2, RecallAssumption
    <3>6. PICK k \in 1 .. n : L[k] = y
      BY <2>9, <2>13, <3>2, <3>4, <3>5
    <3>7. keep \in 1 .. n /\ keep + 1 \in 1 .. n /\ L[keep] \in Int /\ L[keep + 1] \in Int
      BY <3>3, <3>4
    <3>8. ~ (k <= keep)
      <4>1. y < L[keep]
        BY <3>1, <3>2, <3>3, <3>5, <3>7
      <4>2. k < keep => L[k] >= L[keep]
        BY <2>13, <3>4, <3>7 DEF Falling
      <4> QED
        BY <3>2, <3>6, <3>7, <4>1, <4>2
    <3>9. y <= L[keep + 1]
      <4>1. k = keep + 1 \/ keep + 1 < k
        BY <3>7, <3>8
      <4>2. keep + 1 < k => L[keep + 1] >= L[k]
        BY <2>13, <3>4, <3>7 DEF Falling
      <4> QED
        BY <3>2, <3>6, <3>7, <4>1, <4>2
    <3>10. PICK a \in Int, b \in Int : a = L[keep] /\ b = L[keep + 1] /\ x >= a /\ y <= b
      BY <3>1, <3>2, <3>3, <3>7, <3>9
    <3>11. 100 * (a - b) >= 15 * whole
      BY <3>3, <3>10 DEF MinGap
    <3>12. 100 * (x - y) >= 15 * whole
      BY <3>10, <3>11
    <3> QED
      BY <3>2, <3>3, <3>12 DEF MinGap
  <2>15. ToSet(picked) \subseteq ToSet(P)
    BY <2>11
  <2>16. PICK spread : spread = LaneCosines[1] - LaneCosines[Min({Len(LaneCosines), request.limit + 1})]
    OBVIOUS
  <2>17. \A i \in ToSet(picked), j \in ToSet(P) \ ToSet(picked) :
            100 * (i.similarity - j.similarity) >= MinGap * spread
    BY <2>7, <2>12, <2>14, <2>16
  <2> QED
    BY <2>4, <2>6, <2>15, <2>16, <2>17, Zenon
<1> QED
  BY <1>1, RecallInvariant, PackInvariant, PTL

=============================================================================
