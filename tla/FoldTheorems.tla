---------------------------- MODULE FoldTheorems ----------------------------
(***************************************************************************)
(* What the proofs need of the folds of the community modules: that the    *)
(* function they choose exists, and the inductions by which what it holds  *)
(* at the end follows from what one step does.  The inductions are stated  *)
(* of a set, the elements a formula holds of, so that they can be cited.   *)
(***************************************************************************)
EXTENDS Integers, FiniteSets, FiniteSetsExt, Functions, SequencesExt, FiniteSetTheorems,
        WellFoundedInduction, TLAPS

----------------------------------------------------------------------------

(* Induction over the naturals for a set of them.                          *)
LEMMA Induction ==
  ASSUME NEW T, 0 \in T, \A n \in Nat : n \in T => n + 1 \in T
  PROVE  \A n \in Nat : n \in T
<1> DEFINE Left == Nat \ T
           Below == OpToRel(<, Nat)
<1> SUFFICES ASSUME Left # {} PROVE FALSE
  OBVIOUS
<1>1. IsWellFoundedOn(Below, Nat)
  BY NatLessThanWellFounded
<1>2. \A m, n \in Nat : m < n => <<m, n>> \in Below
  BY DEF OpToRel
<1> HIDE DEF Below
<1>3. PICK least \in Left : \A n \in Left : <<n, least>> \notin Below
  BY <1>1, WFMin
<1>4. least \in Nat \ {0}
  OBVIOUS
<1>5. least - 1 \in Nat /\ least = (least - 1) + 1
  BY <1>4
<1>6. least - 1 \in Left
  BY <1>5
<1>7. least - 1 < least /\ least \in Nat
  BY <1>4, <1>5
<1>8. <<least - 1, least>> \in Below
  BY <1>2, <1>5, <1>7
<1> HIDE DEF Left
<1> QED
  BY <1>3, <1>6, <1>8

(* Every set of the naturals up to n that is not empty has a maximum, and  *)
(* FiniteSetsExt!Max is it.                                                *)
LEMMA MaxOfSome ==
  ASSUME NEW n \in Nat, NEW s \in SUBSET (1..n), s # {}
  PROVE  Max(s) \in s /\ \A i \in s : i <= Max(s)
<1> DEFINE T == {m \in Nat : \A t \in SUBSET (1..m) :
                              t # {} => \E x \in t : \A y \in t : x >= y}
<1>1. 0 \in T
  <2>1. 1..0 = {}
    OBVIOUS
  <2>2. \A t \in SUBSET {} : t = {}
    OBVIOUS
  <2> QED BY <2>1, <2>2
<1>2. ASSUME NEW m \in Nat, m \in T PROVE m + 1 \in T
  <2>1. ASSUME NEW t \in SUBSET (1..(m + 1)), t # {}
        PROVE  \E x \in t : \A y \in t : x >= y
    <3>1. CASE m + 1 \in t
      BY <3>1
    <3>2. CASE m + 1 \notin t
      <4>1. t \in SUBSET (1..m)
        BY <3>2
      <4> QED BY <1>2, <2>1, <4>1
    <3> QED BY <3>1, <3>2
  <2> QED BY <2>1
<1>3. n \in T
  <2> HIDE DEF T
  <2> QED BY <1>1, <1>2, Induction
<1>4. \E x \in s : \A y \in s : x >= y
  BY <1>3
<1>5. Max(s) \in s /\ \A y \in s : Max(s) >= y
  BY <1>4 DEF Max
<1> QED
  BY <1>5

(* g folds F over the subsets of S, c choosing which element is last.       *)
IsFold(g, S, c, B, base, F) ==
  /\ g \in [SUBSET S -> B]
  /\ \A s \in SUBSET S : g[s] = IF s = {} THEN base ELSE F[<<c[s], g[s \ {c[s]}]>>]

Chooses(c, S) == \A s \in SUBSET S : s # {} => c[s] \in s

Maps(F, S, B) == \A x \in S, y \in B : F[<<x, y>>] \in B

(* A fold takes the elements of a set one at a time.                       *)
LEMMA FoldExists ==
  ASSUME NEW S, IsFiniteSet(S), NEW c, Chooses(c, S),
         NEW B, NEW base \in B, NEW F, Maps(F, S, B)
  PROVE  \E g : IsFold(g, S, c, B, base, F)
<1> USE DEF Chooses, Maps
<1> DEFINE Small(n) == {s \in SUBSET S : Cardinality(s) <= n}
           Good(n) == \E g \in [Small(n) -> B] : \A s \in Small(n) :
                        g[s] = IF s = {} THEN base ELSE F[<<c[s], g[s \ {c[s]}]>>]
           T == {n \in Nat : Good(n)}
<1>a. \A s \in SUBSET S : IsFiniteSet(s) /\ Cardinality(s) \in Nat /\ Cardinality(s) <= Cardinality(S)
  BY FS_Subset, FS_CardinalityType
<1>b. \A s \in SUBSET S : s # {} => Cardinality(s \ {c[s]}) = Cardinality(s) - 1
  BY <1>a, FS_RemoveElement
<1>1. 0 \in T
  <2>1. Small(0) \subseteq {{}}
    BY <1>a, FS_EmptySet
  <2>2. Good(0)
    <3> DEFINE g == [s \in Small(0) |-> base]
    <3>1. g \in [Small(0) -> B]
      OBVIOUS
    <3>2. \A s \in Small(0) : g[s] = IF s = {} THEN base ELSE F[<<c[s], g[s \ {c[s]}]>>]
      BY <2>1
    <3> QED BY <3>1, <3>2
  <2> QED BY <2>2
<1>2. ASSUME NEW n \in Nat, n \in T PROVE n + 1 \in T
  <2>1. PICK g \in [Small(n) -> B] : \A s \in Small(n) :
          g[s] = IF s = {} THEN base ELSE F[<<c[s], g[s \ {c[s]}]>>]
    BY <1>2
  <2> DEFINE h == [s \in Small(n + 1) |->
                     IF s = {} THEN base ELSE F[<<c[s], g[s \ {c[s]}]>>]]
  <2>2. \A s \in Small(n + 1) : s # {} => s \ {c[s]} \in Small(n)
    BY <1>a, <1>b
  <2>3. h \in [Small(n + 1) -> B]
    <3>1. ASSUME NEW s \in Small(n + 1), s # {} PROVE F[<<c[s], g[s \ {c[s]}]>>] \in B
      <4>1. g[s \ {c[s]}] \in B /\ c[s] \in S
        BY <2>2, <3>1
      <4> QED BY <4>1
    <3> QED BY <3>1
  <2>4. \A s \in Small(n) : s \in Small(n + 1) /\ h[s] = g[s]
    BY <1>a, <2>1
  <2>5. \A s \in Small(n + 1) :
          h[s] = IF s = {} THEN base ELSE F[<<c[s], h[s \ {c[s]}]>>]
    BY <2>2, <2>4
  <2>6. Good(n + 1)
    <3> HIDE DEF h
    <3> QED BY <2>3, <2>5
  <2> HIDE DEF Good
  <2> QED BY <2>6
<1>3. Cardinality(S) \in T
  <2>1. Cardinality(S) \in Nat
    BY FS_CardinalityType
  <2> HIDE DEF T
  <2> QED BY <1>1, <1>2, <2>1, Induction
<1>4. Small(Cardinality(S)) = SUBSET S
  BY <1>a
<1> QED
  BY <1>3, <1>4 DEF IsFold

(* The same for what holds of the first elements of a sequence.            *)
LEMMA PrefixInduction ==
  ASSUME NEW n \in Nat, NEW T, 0 \in T, \A k \in 0..(n - 1) : k \in T => k + 1 \in T
  PROVE  \A k \in 0..n : k \in T
<1> DEFINE U == T \cup {k \in Nat : k > n}
<1>1. \A k \in Nat : k \in U => k + 1 \in U
  OBVIOUS
<1>2. 0 \in U
  OBVIOUS
<1> HIDE DEF U
<1>3. \A k \in Nat : k \in U
  BY <1>1, <1>2, Induction
<1> QED
  BY <1>3 DEF U

(* And for finite sets: what holds of the empty set, and of a set when it  *)
(* holds of it without any one element, holds of every one.                *)
LEMMA SubsetInduction ==
  ASSUME NEW S, IsFiniteSet(S), NEW T, {} \in T,
         \A s \in SUBSET S : s # {} /\ (\A x \in s : s \ {x} \in T) => s \in T
  PROVE  \A s \in SUBSET S : s \in T
<1> DEFINE U == {n \in Nat : \A s \in SUBSET S : Cardinality(s) = n => s \in T}
<1>a. \A s \in SUBSET S : IsFiniteSet(s) /\ Cardinality(s) \in Nat
  BY FS_Subset, FS_CardinalityType
<1>b. \A s \in SUBSET S : \A x \in s : Cardinality(s \ {x}) = Cardinality(s) - 1
  BY <1>a, FS_RemoveElement
<1>1. 0 \in U
  BY <1>a, FS_EmptySet
<1>2. ASSUME NEW n \in Nat, n \in U PROVE n + 1 \in U
  <2>1. ASSUME NEW s \in SUBSET S, Cardinality(s) = n + 1 PROVE s \in T
    <3>1. \A x \in s : s \ {x} \in T
      BY <1>2, <1>b, <2>1
    <3>2. s # {}
      <4>1. Cardinality({}) = 0
        BY FS_EmptySet
      <4> QED BY <2>1, <4>1
    <3> QED BY <3>1, <3>2
  <2> QED BY <2>1
<1>3. \A n \in Nat : n \in U
  <2> HIDE DEF U
  <2> QED BY <1>1, <1>2, Induction
<1> QED
  BY <1>3, <1>a

(* What FoldLeft is defined by, over the first n indices of a sequence.    *)
LEMMA LeftFoldExists ==
  ASSUME NEW n \in Nat, NEW B, NEW base \in B, NEW F, Maps(F, 1..n, B)
  PROVE  \E g : IsFold(g, 1..n, [s \in SUBSET (1..n) |-> Max(s)], B, base, F)
<1> DEFINE c == [s \in SUBSET (1..n) |-> Max(s)]
<1>1. Chooses(c, 1..n)
  BY MaxOfSome DEF Chooses
<1>2. IsFiniteSet(1..n)
  BY FS_Interval
<1>3. \E g : IsFold(g, 1..n, c, B, base, F)
  <2> HIDE DEF c
  <2> QED BY <1>1, <1>2, FoldExists
<1> QED
  BY <1>3

LEMMA LastIndex ==
  ASSUME NEW k \in Nat
  PROVE  Max(1..(k + 1)) = k + 1 /\ (1..(k + 1)) \ {k + 1} = 1..k /\ 1..(k + 1) # {}
<1>1. 1..(k + 1) # {} /\ (1..(k + 1)) \ {k + 1} = 1..k /\ k + 1 \in Nat
  OBVIOUS
<1> DEFINE s == 1..(k + 1)
<1>2. s \in SUBSET (1..(k + 1))
  OBVIOUS
<1>3. Max(s) \in s /\ \A i \in s : i <= Max(s)
  <2> HIDE DEF s
  <2> QED BY <1>1, <1>2, MaxOfSome DEF s
<1> QED
  BY <1>1, <1>3

(* The same of a fold that takes the elements of a set in an order chosen  *)
(* by CHOOSE.                                                              *)
LEMMA SetFoldExists ==
  ASSUME NEW S, IsFiniteSet(S), NEW B, NEW base \in B, NEW F, Maps(F, S, B)
  PROVE  \E g : IsFold(g, S, [s \in SUBSET S |-> CHOOSE x \in s : TRUE], B, base, F)
<1> DEFINE c == [s \in SUBSET S |-> CHOOSE x \in s : TRUE]
<1>1. Chooses(c, S)
  BY DEF Chooses
<1>2. \E g : IsFold(g, S, c, B, base, F)
  <2> HIDE DEF c
  <2> QED BY <1>1, FoldExists
<1> QED
  BY <1>2

(* The values a fold takes on the first indices of a sequence.             *)
Steps(p, n, B, base, F) ==
  /\ p \in [0..n -> B]
  /\ p[0] = base
  /\ \A k \in 0..(n - 1) : p[k + 1] = F[<<k + 1, p[k]>>]

StepsTo(p, n, B, base, F, end) == Steps(p, n, B, base, F) /\ p[n] = end

(* A function defined as FoldLeft defines the one it takes its value from  *)
(* takes one step per element, from the first to the last.                 *)
LEMMA LeftFoldSteps ==
  ASSUME NEW n \in Nat, NEW B, NEW base \in B, NEW F, Maps(F, 1..n, B), NEW h,
         h[{}] = base,
         \A s \in SUBSET (1..n) : (s # {} /\ h[s \ {Max(s)}] \in B) =>
           h[s] = F[<<Max(s), h[s \ {Max(s)}]>>]
  PROVE  \E p : StepsTo(p, n, B, base, F, h[1..n])
<1> DEFINE p == [k \in 0..n |-> h[1..k]]
           T == {k \in 0..n : h[1..k] \in B}
<1>1. 1..0 = {} /\ 0 \in 0..n /\ n \in 0..n
  OBVIOUS
<1>2. ASSUME NEW k \in 0..(n - 1), h[1..k] \in B
      PROVE  h[1..(k + 1)] = F[<<k + 1, h[1..k]>>] /\ h[1..(k + 1)] \in B
  <2>1. 1..(k + 1) \in SUBSET (1..n) /\ k \in Nat /\ k + 1 \in 1..n
    OBVIOUS
  <2>2. Max(1..(k + 1)) = k + 1 /\ (1..(k + 1)) \ {k + 1} = 1..k /\ 1..(k + 1) # {}
    BY <2>1, LastIndex
  <2>3. h[1..(k + 1)] = F[<<k + 1, h[1..k]>>]
    BY <1>2, <2>1, <2>2
  <2> QED
    BY <1>2, <2>1, <2>3 DEF Maps
<1>3. \A k \in 0..n : k \in T
  <2>1. 0 \in T
    BY <1>1
  <2>2. ASSUME NEW k \in 0..(n - 1), k \in T PROVE k + 1 \in T
    <3>1. k + 1 \in 0..n
      OBVIOUS
    <3> QED
      BY <1>2, <2>2, <3>1
  <2> HIDE DEF T
  <2> QED
    BY <2>1, <2>2, PrefixInduction
<1>4. p \in [0..n -> B] /\ p[0] = base /\ p[n] = h[1..n]
  BY <1>1, <1>3
<1>5. ASSUME NEW k \in 0..(n - 1) PROVE p[k + 1] = F[<<k + 1, p[k]>>]
  <2>1. k \in 0..n /\ k + 1 \in 0..n /\ h[1..k] \in B
    BY <1>3
  <2> QED
    BY <1>2, <2>1
<1> HIDE DEF p
<1> QED
  BY <1>4, <1>5 DEF Steps, StepsTo

----------------------------------------------------------------------------
(* Sums.  What a fold that adds the weights of a set's elements comes to   *)
(* does not depend on which it takes first.                                *)
IsSum(g, S, w) ==
  /\ g \in [SUBSET S -> Nat] /\ g[{}] = 0
  /\ \A s \in SUBSET S : \A x \in s : g[s] = w[x] + g[s \ {x}]

LEMMA SumInAnyOrder ==
  ASSUME NEW S, IsFiniteSet(S), NEW w \in [S -> Nat], NEW c, Chooses(c, S),
         NEW g \in [SUBSET S -> Nat], g[{}] = 0,
         \A s \in SUBSET S : s # {} => g[s] = w[c[s]] + g[s \ {c[s]}]
  PROVE  IsSum(g, S, w)
<1> DEFINE T == {s \in SUBSET S : \A x \in s : g[s] = w[x] + g[s \ {x}]}
<1>1. {} \in T
  OBVIOUS
<1>2. ASSUME NEW s \in SUBSET S, s # {}, \A x \in s : s \ {x} \in T
      PROVE  s \in T
  <2>1. ASSUME NEW x \in s PROVE g[s] = w[x] + g[s \ {x}]
    <3>1. c[s] \in s /\ g[s] = w[c[s]] + g[s \ {c[s]}]
      BY <1>2 DEF Chooses
    <3>2. CASE x # c[s]
      <4> DEFINE y == c[s]
                 rest == s \ {x, y}
      <4>1. (s \ {y}) \ {x} = rest /\ (s \ {x}) \ {y} = rest
            /\ x \in s \ {y} /\ y \in s \ {x} /\ rest \in SUBSET S
        BY <3>1, <3>2
      <4>2. s \ {y} \in T /\ s \ {x} \in T
        BY <1>2, <3>1
      <4>3. g[s \ {y}] = w[x] + g[rest] /\ g[s \ {x}] = w[y] + g[rest]
        BY <4>1, <4>2
      <4>4. w[x] \in Nat /\ w[y] \in Nat /\ g[rest] \in Nat
        BY <3>1, <4>1
      <4> HIDE DEF rest
      <4> QED
        BY <3>1, <4>3, <4>4
    <3> QED
      BY <3>1, <3>2
  <2> QED
    BY <2>1
<1>3. \A s \in SUBSET S : s \in T
  <2> HIDE DEF T
  <2> QED
    BY <1>1, <1>2, SubsetInduction
<1> QED
  BY <1>3 DEF IsSum

(* What a prompt is counted as, message by message.                        *)
PromptTokens(messages) == FoldLeft(LAMBDA n, message : n + 4 + message.tokens, 3, messages)

Counts(p, messages) ==
  /\ p \in [0..Len(messages) -> Nat] /\ p[0] = 3
  /\ \A k \in 0..(Len(messages) - 1) : p[k + 1] = p[k] + 4 + messages[k + 1].tokens
  /\ p[Len(messages)] = PromptTokens(messages)

LEMMA PromptCounted ==
  ASSUME NEW S, NEW messages \in Seq(S), \A message \in S : message.tokens \in Nat
  PROVE  \E p : Counts(p, messages)
<1> DEFINE n == Len(messages)
           F == [pair \in (1..n) \X Nat |-> pair[2] + 4 + messages[pair[1]].tokens]
<1>1. /\ n \in Nat /\ DOMAIN messages = 1..n
      /\ \A i \in 1..n : messages[i].tokens \in Nat
  OBVIOUS
<1>2. \A i \in 1..n, c \in Nat : /\ F[<<i, c>>] = c + 4 + messages[i].tokens
                                 /\ c + 4 + messages[i].tokens \in Nat
  BY <1>1
<1> HIDE DEF F, n
<1>3. Maps(F, 1..n, Nat)
  BY <1>2 DEF Maps
<1>4. PICK g : IsFold(g, 1..n, [s \in SUBSET (1..n) |-> Max(s)], Nat, 3, F)
  BY <1>1, <1>3, LeftFoldExists
<1>5. g = [s \in SUBSET (1..n) |-> IF s = {} THEN 3
                                   ELSE g[s \ {Max(s)}] + 4 + messages[Max(s)].tokens]
  <2>1. ASSUME NEW s \in SUBSET (1..n), s # {}
        PROVE  g[s] = g[s \ {Max(s)}] + 4 + messages[Max(s)].tokens
    <3>1. Max(s) \in 1..n
      BY <1>1, <2>1, MaxOfSome
    <3>2. g[s] = F[<<Max(s), g[s \ {Max(s)}]>>] /\ g[s \ {Max(s)}] \in Nat
      BY <1>4, <2>1 DEF IsFold
    <3> QED
      BY <1>2, <3>1, <3>2
  <2> QED
    BY <1>4, <2>1 DEF IsFold
<1>6. PICK h : /\ h = [s \in SUBSET (1..n) |->
                         IF s = {} THEN 3
                         ELSE h[s \ {Max(s)}] + 4 + messages[Max(s)].tokens]
               /\ PromptTokens(messages) = h[1..n]
  BY <1>1, <1>5 DEF PromptTokens, FoldLeft, MapThenFoldSet
<1>7. h[{}] = 3
  BY <1>6
<1>8. ASSUME NEW s \in SUBSET (1..n), s # {}, h[s \ {Max(s)}] \in Nat
      PROVE  h[s] = F[<<Max(s), h[s \ {Max(s)}]>>]
  <2>1. Max(s) \in 1..n
    BY <1>1, <1>8, MaxOfSome
  <2> QED
    BY <1>2, <1>6, <1>8, <2>1
<1>9. PICK p : StepsTo(p, n, Nat, 3, F, h[1..n])
  BY <1>1, <1>3, <1>7, <1>8, LeftFoldSteps
<1>10. ASSUME NEW k \in 0..(n - 1) PROVE p[k + 1] = p[k] + 4 + messages[k + 1].tokens
  <2>1. k \in 0..n /\ k + 1 \in 1..n
    BY <1>1
  <2>2. p[k + 1] = F[<<k + 1, p[k]>>] /\ p[k] \in Nat
    BY <1>9, <2>1 DEF Steps, StepsTo
  <2> QED
    BY <1>2, <2>1, <2>2
<1>11. p \in [0..n -> Nat] /\ p[0] = 3 /\ p[n] = PromptTokens(messages)
  BY <1>6, <1>9 DEF Steps, StepsTo
<1>12. Counts(p, messages)
  BY <1>10, <1>11 DEF Counts, n
<1> QED
  BY <1>12

(* The same of the messages of a set, in no order: four tokens for each    *)
(* on top of its content.                                                  *)
SetTokens(t, S) == FoldFunctionOnSet(LAMBDA tokens, n : n + 4 + tokens, 0, t, S)

Weights(t, S) == [i \in S |-> t[i] + 4]

LEMMA MessagesSummed ==
  ASSUME NEW S, IsFiniteSet(S), NEW t \in [S -> Nat]
  PROVE  \E g : IsSum(g, S, Weights(t, S)) /\ SetTokens(t, S) = g[S]
<1> DEFINE F == [pair \in S \X Nat |-> pair[2] + 4 + t[pair[1]]]
           c == [s \in SUBSET S |-> CHOOSE i \in s : TRUE]
<1>1. \A i \in S, n \in Nat : F[<<i, n>>] = n + 4 + t[i] /\ n + 4 + t[i] \in Nat
  OBVIOUS
<1> HIDE DEF F
<1>2. Maps(F, S, Nat)
  BY <1>1 DEF Maps
<1>3. PICK g : IsFold(g, S, c, Nat, 0, F)
  BY <1>2, SetFoldExists
<1>4. Chooses(c, S)
  BY DEF Chooses
<1>5. ASSUME NEW s \in SUBSET S, s # {}
      PROVE  g[s] = g[s \ {CHOOSE i \in s : TRUE}] + 4 + t[CHOOSE i \in s : TRUE]
  <2>1. /\ g[s \ {CHOOSE i \in s : TRUE}] \in Nat
        /\ g[s] = F[<<CHOOSE i \in s : TRUE, g[s \ {CHOOSE i \in s : TRUE}]>>]
    BY <1>3, <1>5 DEF IsFold
  <2> QED
    BY <1>1, <1>5, <2>1
<1>6. g = [s \in SUBSET S |-> IF s = {} THEN 0
                              ELSE g[s \ {CHOOSE i \in s : TRUE}] + 4 + t[CHOOSE i \in s : TRUE]]
  BY <1>3, <1>5 DEF IsFold
<1>7. PICK h : /\ h = [s \in SUBSET S |->
                         IF s = {} THEN 0
                         ELSE h[s \ {CHOOSE i \in s : TRUE}] + 4 + t[CHOOSE i \in s : TRUE]]
               /\ SetTokens(t, S) = h[S]
  BY <1>6 DEF SetTokens, FoldFunctionOnSet, MapThenFoldSet
<1>8. h[{}] = 0
  BY <1>7
<1>9. ASSUME NEW s \in SUBSET S, s # {}
      PROVE  h[s] = h[s \ {c[s]}] + 4 + t[c[s]] /\ c[s] \in s
  BY <1>7, <1>9
<1> HIDE DEF c
<1> DEFINE T == {s \in SUBSET S : h[s] \in Nat}
<1>10. h \in [SUBSET S -> Nat]
  <2>1. {} \in T
    BY <1>8
  <2>2. ASSUME NEW s \in SUBSET S, s # {}, \A x \in s : s \ {x} \in T PROVE s \in T
    <3>1. h[s] = h[s \ {c[s]}] + 4 + t[c[s]] /\ c[s] \in s
      BY <1>9, <2>2
    <3>2. h[s \ {c[s]}] \in Nat /\ t[c[s]] \in Nat
      BY <2>2, <3>1
    <3> QED
      BY <3>1, <3>2
  <2>3. \A s \in SUBSET S : s \in T
    <3> HIDE DEF T
    <3> QED
      BY <2>1, <2>2, SubsetInduction
  <2> QED
    BY <1>7, <2>3
<1> DEFINE w == Weights(t, S)
<1>11. w \in [S -> Nat] /\ \A i \in S : w[i] = t[i] + 4
  BY DEF Weights
<1> HIDE DEF w
<1>12. ASSUME NEW s \in SUBSET S, s # {} PROVE h[s] = w[c[s]] + h[s \ {c[s]}]
  <2>1. t[c[s]] \in Nat /\ h[s \ {c[s]}] \in Nat /\ c[s] \in S
    BY <1>9, <1>10, <1>12
  <2> QED
    BY <1>9, <1>11, <1>12, <2>1
<1>13. IsSum(h, S, w)
  BY <1>4, <1>8, <1>10, <1>11, <1>12, SumInAnyOrder
<1> QED
  BY <1>7, <1>13 DEF w

(* How many of the numbers up to n are in a set, counted one at a time.    *)
LEMMA CountedUpTo ==
  ASSUME NEW n \in Nat, NEW S \in SUBSET (1..n)
  PROVE  \E c : /\ c \in [0..n -> Nat] /\ c[0] = 0 /\ c[n] = Cardinality(S)
                /\ \A k \in 0..(n - 1) :
                     c[k + 1] = c[k] + (IF k + 1 \in S THEN 1 ELSE 0)
<1> DEFINE Upto(k) == S \cap (1..k)
           c == [k \in 0..n |-> Cardinality(Upto(k))]
<1>1. \A k \in Nat : IsFiniteSet(Upto(k)) /\ Cardinality(Upto(k)) \in Nat
  <2> SUFFICES ASSUME NEW k \in Nat PROVE IsFiniteSet(Upto(k)) /\ Cardinality(Upto(k)) \in Nat
    OBVIOUS
  <2>1. IsFiniteSet(1..k) /\ Upto(k) \in SUBSET (1..k)
    BY FS_Interval
  <2> QED
    BY <2>1, FS_Subset, FS_CardinalityType
<1>2. Upto(0) = {} /\ Upto(n) = S
  <2>1. S \cap (1..n) = S
    OBVIOUS
  <2>2. 1..0 = {}
    OBVIOUS
  <2> QED
    BY <2>1, <2>2
<1>3. ASSUME NEW k \in 0..(n - 1)
      PROVE  Cardinality(Upto(k + 1)) = Cardinality(Upto(k)) + (IF k + 1 \in S THEN 1 ELSE 0)
  <2>1. /\ k \in Nat /\ k + 1 \notin 1..k
        /\ \A j : j \in 1..(k + 1) <=> j \in 1..k \/ j = k + 1
    OBVIOUS
  <2>2. Upto(k + 1) = (IF k + 1 \in S THEN Upto(k) \cup {k + 1} ELSE Upto(k))
        /\ k + 1 \notin Upto(k)
    BY <2>1
  <2>3. IsFiniteSet(Upto(k)) /\ Cardinality(Upto(k)) \in Nat
    BY <1>1, <2>1
  <2> HIDE DEF Upto
  <2>4. Cardinality(Upto(k) \cup {k + 1}) = Cardinality(Upto(k)) + 1
    BY <2>2, <2>3, FS_AddElement
  <2> QED
    BY <2>2, <2>3, <2>4
<1> HIDE DEF Upto
<1>4. c \in [0..n -> Nat] /\ c[0] = 0 /\ c[n] = Cardinality(S)
  BY <1>1, <1>2, FS_EmptySet
<1>5. ASSUME NEW k \in 0..(n - 1) PROVE c[k + 1] = c[k] + (IF k + 1 \in S THEN 1 ELSE 0)
  <2>1. k \in 0..n /\ k + 1 \in 0..n
    OBVIOUS
  <2> QED
    BY <1>3, <2>1
<1> HIDE DEF c
<1> QED
  BY <1>4, <1>5
=============================================================================
