---------------------------- MODULE BoundedProofs ----------------------------
(***************************************************************************)
(* Theorems about BoundedAgent, for any sizes, budgets and texts: the two  *)
(* policies only decide between the outcomes the loop leaves open, and     *)
(* each prepared context and each result of the trace has its payload.     *)
(***************************************************************************)
EXTENDS BoundedAgent, AgentLoopProofs, FoldTheorems

LEMMA BoundedStepIsLoopStep == BoundedNext => Next
<1> SUFFICES ASSUME BoundedNext PROVE Next
  OBVIOUS
<1>1. CASE Prepare
  <2>1. "none" \in Compactions
    BY DEF Compactions
  <2>2. ContextOverflow("none") \/ PrepareContext("none")
    BY <1>1 DEF Prepare
  <2> QED BY <2>1, <2>2 DEF Next, Loop
<1>2. CASE ExecuteWithResult
  BY <1>2 DEF ExecuteWithResult, Next, Loop
<1>3. CASE Unobserved
  BY <1>3 DEF Unobserved, Next, Loop
<1> QED BY <1>1, <1>2, <1>3 DEF BoundedNext

(* The loop under either policy is a CodingAgent like any other: each of   *)
(* its behaviours is one AgentLoop allows, whatever was cut.               *)
THEOREM BoundedImplementsLoop == BoundedSpec => Spec
<1>1. BoundedInit => Init
  BY DEF BoundedInit
<1>2. [BoundedNext]_allVars => [Next]_vars
  BY BoundedStepIsLoopStep DEF allVars, vars
<1> QED BY <1>1, <1>2, PTL DEF BoundedSpec, Spec

----------------------------------------------------------------------------
(* The larger and the smaller of two numbers.                              *)
LEMMA OfTwo ==
  ASSUME NEW a \in Int, NEW b \in Int
  PROVE  /\ Max({a, b}) = IF a >= b THEN a ELSE b
         /\ Min({a, b}) = IF a <= b THEN a ELSE b
<1>1. Max({a, b}) = IF a >= b THEN a ELSE b
  <2>1. \E x \in {a, b} : \A y \in {a, b} : x >= y
    OBVIOUS
  <2>2. Max({a, b}) \in {a, b} /\ \A y \in {a, b} : Max({a, b}) >= y
    BY <2>1 DEF Max
  <2> QED
    BY <2>2
<1>2. Min({a, b}) = IF a <= b THEN a ELSE b
  <2>1. \E x \in {a, b} : \A y \in {a, b} : x <= y
    OBVIOUS
  <2>2. Min({a, b}) \in {a, b} /\ \A y \in {a, b} : Min({a, b}) <= y
    BY <2>1 DEF Min
  <2> QED
    BY <2>2
<1> QED
  BY <1>1, <1>2

(* Whole lines are no more than what they are cut from.                    *)
LEMMA WholeLines ==
  ASSUME NEW n \in Nat, NEW grain \in Nat \ {0}
  PROVE  (n \div grain) * grain \in Nat /\ (n \div grain) * grain <= n
  OBVIOUS

LEMMA Estimates ==
  ASSUME NEW bytes \in Nat
  PROVE  /\ Estimated(bytes) \in Nat \ {0} /\ Estimated(bytes) >= bytes \div 4
         /\ \A n \in Nat \ {0} : bytes <= 4 * n + 3 => Estimated(bytes) <= n
<1>1. bytes \div 4 \in Nat
  OBVIOUS
<1>2. Estimated(bytes) = IF 1 >= bytes \div 4 THEN 1 ELSE bytes \div 4
  BY <1>1, OfTwo DEF Estimated
<1>3. \A n \in Nat \ {0} : bytes <= 4 * n + 3 => bytes \div 4 <= n
  OBVIOUS
<1> QED
  BY <1>1, <1>2, <1>3

(* A result the policy is given: a search's lines have a size.             *)
Outcomes == [tool : Tools, key : Queries \cup {NoQuery} \cup Paths \cup {NoPath},
             tokens : Nat, grain : Nat, width : 1..4]
Lined(result) == result.tool = "search" => result.grain > 0

Results == {result \in Outcomes : Lined(result)}

(* Head and tail together never outgrow the room they share.               *)
LEMMA HeadTailBounded ==
  ASSUME NEW bytes \in Nat, NEW width \in 1..4, NEW allowance \in Nat \ {0}
  PROVE  /\ HeadTail(bytes, width, allowance) \in Nat
         /\ HeadTail(bytes, width, allowance) <= 4 * (width * (allowance + 9)) + 3
<1> DEFINE characters == bytes \div width
           room == Max({40, 4 * allowance}) - 29
           head == room \div 2
           kept == Min({head, characters}) + Min({room - head, characters})
<1>1. characters \in Nat
  BY SMTT(30)
<1>2. room = (IF 40 >= 4 * allowance THEN 40 ELSE 4 * allowance) - 29
  <2>1. 4 * allowance \in Int
    OBVIOUS
  <2> QED
    BY <2>1, OfTwo
<1>3. room \in Nat /\ room <= 4 * allowance + 7
  BY <1>2
<1>4. head \in Nat /\ head <= room
  BY <1>3
<1> HIDE DEF characters, room, head
<1>5. kept \in Nat /\ kept <= room
  <2>1. Min({head, characters}) = IF head <= characters THEN head ELSE characters
    BY <1>1, <1>4, OfTwo
  <2>2. room - head \in Nat
    BY <1>3, <1>4
  <2>3. Min({room - head, characters})
          = IF room - head <= characters THEN room - head ELSE characters
    BY <1>1, <2>2, OfTwo
  <2> QED
    BY <1>1, <1>3, <1>4, <2>1, <2>2, <2>3
<1>6. HeadTail(bytes, width, allowance) = width * kept + 29
  BY DEF HeadTail, characters, room, head
<1> HIDE DEF kept
<1>7. kept <= 4 * allowance + 7
  BY <1>3, <1>5
<1>8. CASE width = 1
  BY <1>5, <1>6, <1>7, <1>8
<1>9. CASE width = 2
  BY <1>5, <1>6, <1>7, <1>9
<1>10. CASE width = 3
  BY <1>5, <1>6, <1>7, <1>10
<1>11. CASE width = 4
  BY <1>5, <1>6, <1>7, <1>11
<1> QED
  BY <1>8, <1>9, <1>10, <1>11

LEMMA JoinedBounded ==
  ASSUME NEW tokens \in Nat
  PROVE  Joined(tokens) \in Nat /\ Joined(tokens) <= 4 * tokens
BY DEF Joined

(* A character is at least a byte.                                         *)
LEMMA Widened ==
  ASSUME NEW width \in 1..4, NEW n \in Nat
  PROVE  width * n \in Nat /\ n <= width * n
<1>1. width = 1 \/ width = 2 \/ width = 3 \/ width = 4
  OBVIOUS
<1> QED
  BY <1>1

(* What a reduction keeps is bounded by what it was allowed.               *)
LEMMA ReducedBounded ==
  ASSUME NEW result \in Results, NEW allowance \in Nat \ {0}
  PROVE  /\ Reduce(result, allowance).bytes \in Nat
         /\ Reduce(result, allowance).bytes <= 4 * (result.width * (allowance + 9)) + 3
         /\ Reduce(result, allowance).method # "omitted-global-budget"
<1> DEFINE fit == Min({result.tokens, allowance + 1})
           lines == fit \div result.grain
<1>1. /\ result.tokens \in Nat /\ result.grain \in Nat /\ result.width \in 1..4
      /\ result.tool = "search" => result.grain > 0
  BY DEF Results, Outcomes, Lined
<1>2. /\ result.width * (allowance + 9) \in Nat
      /\ allowance + 9 <= result.width * (allowance + 9)
  BY <1>1, Widened
<1>3. CASE result.tool = "search"
  <2>1. fit = (IF result.tokens <= allowance + 1 THEN result.tokens ELSE allowance + 1)
    BY <1>1, OfTwo
  <2>2. fit \in Nat /\ fit <= allowance + 1
    BY <1>1, <2>1
  <2> HIDE DEF fit
  <2>3. result.grain \in Nat \ {0}
    BY <1>1, <1>3
  <2>4. lines * result.grain \in Nat /\ lines * result.grain <= fit
    BY <2>2, <2>3, WholeLines
  <2> HIDE DEF lines
  <2>5. Reduce(result, allowance)
          = [bytes |-> Joined(lines * result.grain) + 28, method |-> "bounded-search-results"]
    BY <1>3 DEF Reduce, lines, fit
  <2>6. Joined(lines * result.grain) \in Nat /\ Joined(lines * result.grain) <= 4 * (lines * result.grain)
    BY <2>4, JoinedBounded
  <2>7. /\ Joined(lines * result.grain) + 28 \in Nat
        /\ Joined(lines * result.grain) + 28 <= 4 * (allowance + 9) + 3
    BY <2>2, <2>4, <2>6
  <2> QED
    BY <1>2, <2>5, <2>7
<1>4. CASE /\ result.tool = "run_command" /\ result.grain > 0
           /\ Joined(result.grain) \div 4 <= allowance
  <2>1. Reduce(result, allowance)
          = [bytes |-> Joined(result.grain) + 35, method |-> "error-focused"]
    BY <1>4 DEF Reduce
  <2>2. Joined(result.grain) \in Nat
    BY <1>1, JoinedBounded
  <2>3. Joined(result.grain) <= 4 * allowance + 3
    BY <1>4, <2>2
  <2>4. Joined(result.grain) + 35 <= 4 * (allowance + 9) + 3
    BY <2>2, <2>3
  <2> QED
    BY <1>2, <2>1, <2>2, <2>4
<1>5. CASE /\ result.tool # "search"
           /\ ~(/\ result.tool = "run_command" /\ result.grain > 0
                /\ Joined(result.grain) \div 4 <= allowance)
  <2>1. Reduce(result, allowance)
          = [bytes |-> HeadTail(4 * result.tokens, result.width, allowance),
             method |-> "head-tail"]
    BY <1>5 DEF Reduce
  <2>2. 4 * result.tokens \in Nat
    BY <1>1
  <2> DEFINE shown == HeadTail(4 * result.tokens, result.width, allowance)
  <2>3. shown \in Nat /\ shown <= 4 * (result.width * (allowance + 9)) + 3
    BY <1>1, <2>2, HeadTailBounded
  <2> HIDE DEF shown
  <2>4. Reduce(result, allowance) = [bytes |-> shown, method |-> "head-tail"]
    BY <2>1 DEF shown
  <2> QED
    BY <2>3, <2>4
<1> QED
  BY <1>3, <1>4, <1>5

(* What a reduction says of itself: nothing of the original is lost, what  *)
(* is omitted is what was allowed nothing, and the rest is bounded.        *)
SoundReduction(reduction, width, allowance) ==
  /\ reduction.original_tokens \in Nat \ {0}
  /\ reduction.retained_tokens \in Nat \ {0}
  /\ reduction.discarded_tokens \in Nat
  /\ reduction.original_tokens <= reduction.retained_tokens + reduction.discarded_tokens
  /\ reduction.method = "omitted-global-budget" <=> allowance = 0
  /\ allowance > 0 => reduction.retained_tokens <= width * (allowance + 9)

LEMMA ReductionSound ==
  ASSUME NEW result \in Results, NEW allowance \in Nat
  PROVE  SoundReduction(Reduction(result, Present(result, allowance)), result.width, allowance)
<1> DEFINE shown == Present(result, allowance)
           bytes == 4 * result.tokens
           original == Estimated(bytes)
           retained == Estimated(shown.bytes)
           most == result.width * (allowance + 9)
<1>1. bytes \in Nat /\ result.width \in 1..4
  BY DEF Results, Outcomes
<1>2. original \in Nat \ {0}
  BY <1>1, Estimates
<1>3. most \in Nat /\ allowance + 9 <= most
  BY <1>1, Widened
<1>4. /\ shown.bytes \in Nat
      /\ shown.method = "omitted-global-budget" <=> allowance = 0
      /\ allowance > 0 => retained <= most
  <2>1. CASE original <= allowance
    <3>1. shown = [bytes |-> bytes, method |-> "none"]
      BY <1>2, <2>1 DEF Present
    <3> HIDE DEF shown, bytes, most
    <3> QED
      BY <1>1, <1>2, <1>3, <2>1, <3>1
  <2>2. CASE allowance > 0 /\ original > allowance
    <3>1. shown = Reduce(result, allowance)
      BY <1>2, <2>2 DEF Present
    <3>2. /\ shown.bytes \in Nat /\ shown.bytes <= 4 * most + 3
          /\ shown.method # "omitted-global-budget"
      BY <2>2, <3>1, ReducedBounded
    <3> HIDE DEF shown, most
    <3>a. most \in Nat \ {0}
      BY <1>3
    <3>3. retained <= most
      BY <3>a, <3>2, Estimates
    <3> QED
      BY <2>2, <3>2, <3>3
  <2>3. CASE allowance = 0
    <3>1. shown = [bytes |-> PlaceholderBytes, method |-> "omitted-global-budget"]
      BY <1>2, <2>3 DEF Present
    <3> HIDE DEF shown, most
    <3> QED
      BY <2>3, <3>1, BoundedAssumption
  <2> HIDE DEF shown, original
  <2> QED
    BY <1>2, <2>1, <2>2, <2>3
<1>5. retained \in Nat \ {0}
  <2> HIDE DEF shown
  <2> QED
    BY <1>4, Estimates
<1>6. Reduction(result, shown)
        = [original_tokens |-> original, retained_tokens |-> retained,
           discarded_tokens |-> Max({0, original - retained}),
           bytes |-> shown.bytes, method |-> shown.method]
  BY DEF Reduction
<1> HIDE DEF shown, original, retained, most
<1>7. Max({0, original - retained})
        = IF 0 >= original - retained THEN 0 ELSE original - retained
  <2>1. original - retained \in Int
    BY <1>2, <1>5
  <2> QED
    BY <2>1, OfTwo
<1>8. /\ Max({0, original - retained}) \in Nat
      /\ original <= retained + Max({0, original - retained})
  BY <1>2, <1>5, <1>7
<1>9. SoundReduction(Reduction(result, shown), result.width, allowance)
  BY <1>2, <1>4, <1>5, <1>6, <1>8 DEF SoundReduction, most
<1> QED
  BY <1>9 DEF shown

----------------------------------------------------------------------------
(* A result as the policy shows it when so much of the total is left.      *)
Shown(result, left) == Reduction(result, Present(result, Min({PerToolTokens, left})))

(* The reductions of the first of the results, and what each left of the   *)
(* total.                                                                  *)
IsCut(reductions, left, tools) ==
  /\ left \in [0..Len(reductions) -> Nat] /\ left[0] = TotalToolTokens
  /\ \A k \in 1..Len(reductions) :
       /\ reductions[k] = Shown(tools[k], left[k - 1])
       /\ left[k] = Remaining(left[k - 1], reductions[k])

LEMMA ShownSound ==
  ASSUME NEW result \in Results, NEW left \in Nat
  PROVE  /\ Min({PerToolTokens, left}) \in Nat
         /\ SoundReduction(Shown(result, left), result.width, Min({PerToolTokens, left}))
<1>1. PerToolTokens \in Nat
  BY BoundedAssumption
<1>2. Min({PerToolTokens, left}) = IF PerToolTokens <= left THEN PerToolTokens ELSE left
  BY <1>1, OfTwo
<1>3. Min({PerToolTokens, left}) \in Nat
  BY <1>1, <1>2
<1> QED
  BY <1>3, ReductionSound DEF Shown

LEMMA RemainingTyped ==
  ASSUME NEW left \in Nat, NEW reduction, reduction.retained_tokens \in Nat
  PROVE  /\ Remaining(left, reduction) \in Nat
         /\ Remaining(left, reduction) = IF left >= reduction.retained_tokens
                                         THEN left - reduction.retained_tokens ELSE 0
<1> DEFINE after == left - reduction.retained_tokens
<1>1. after \in Int
  OBVIOUS
<1>2. Max({0, after}) = IF 0 >= after THEN 0 ELSE after
  BY <1>1, OfTwo
<1> QED
  BY <1>2 DEF Remaining

(* Everything the policy could show of a result.                           *)
Cuts == {Shown(result, left) : result \in Results, left \in Nat}

(* What the policy computes is a cut of all the results.                   *)
LEMMA ReductionsCut ==
  ASSUME NEW tools \in Seq(Results)
  PROVE  /\ Reductions(tools) \in Seq(Cuts) /\ Len(Reductions(tools)) = Len(tools)
         /\ \E left : IsCut(Reductions(tools), left, tools)
<1> DEFINE n == Len(tools)
           B == [remaining : Nat, reductions : Seq(Cuts)]
           whole == [remaining |-> TotalToolTokens, reductions |-> <<>>]
           Cut(done, result) ==
             [remaining |-> Remaining(done.remaining, Shown(result, done.remaining)),
              reductions |-> Append(done.reductions, Shown(result, done.remaining))]
           F == [pair \in (1..n) \X B |-> Cut(pair[2], tools[pair[1]])]
<1>1. n \in Nat /\ DOMAIN tools = 1..n /\ \A i \in 1..n : tools[i] \in Results
  OBVIOUS
<1>2. whole \in B
  BY BoundedAssumption
<1>3. \A i \in 1..n, done \in B : F[<<i, done>>] = Cut(done, tools[i])
  OBVIOUS
<1>4. ASSUME NEW i \in 1..n, NEW done \in B PROVE Cut(done, tools[i]) \in B
  <2>1. done.remaining \in Nat /\ done.reductions \in Seq(Cuts) /\ tools[i] \in Results
    BY <1>1
  <2>2. Shown(tools[i], done.remaining) \in Cuts
    BY <2>1 DEF Cuts
  <2>3. Shown(tools[i], done.remaining).retained_tokens \in Nat
    BY <2>1, ShownSound DEF SoundReduction
  <2>4. Remaining(done.remaining, Shown(tools[i], done.remaining)) \in Nat
    BY <2>1, <2>3, RemainingTyped
  <2>5. Append(done.reductions, Shown(tools[i], done.remaining)) \in Seq(Cuts)
    BY <2>1, <2>2
  <2> QED
    BY <2>4, <2>5
<1> HIDE DEF F, n
<1>5. Maps(F, 1..n, B)
  BY <1>3, <1>4 DEF Maps
<1>6. PICK g : IsFold(g, 1..n, [s \in SUBSET (1..n) |-> Max(s)], B, whole, F)
  <2> HIDE DEF B, whole
  <2> QED
    BY <1>1, <1>2, <1>5, LeftFoldExists
<1>7. g = [s \in SUBSET (1..n) |-> IF s = {} THEN whole
                                   ELSE Cut(g[s \ {Max(s)}], tools[Max(s)])]
  <2> HIDE DEF B, whole, Cut
  <2>1. ASSUME NEW s \in SUBSET (1..n), s # {}
        PROVE  g[s] = Cut(g[s \ {Max(s)}], tools[Max(s)])
    <3>1. Max(s) \in 1..n
      BY <1>1, <2>1, MaxOfSome
    <3>2. g[s] = F[<<Max(s), g[s \ {Max(s)}]>>] /\ g[s \ {Max(s)}] \in B
      BY <1>6, <2>1 DEF IsFold
    <3> QED
      BY <1>3, <3>1, <3>2
  <2> QED
    BY <1>6, <2>1 DEF IsFold
<1>8. PICK h : /\ h = [s \in SUBSET (1..n) |-> IF s = {} THEN whole
                                               ELSE Cut(h[s \ {Max(s)}], tools[Max(s)])]
               /\ Reductions(tools) = h[1..n].reductions
  BY <1>1, <1>7, ZenonT(60) DEF Reductions, FoldLeft, MapThenFoldSet, Shown
<1>9. PICK p : StepsTo(p, n, B, whole, F, h[1..n])
  <2> HIDE DEF B, whole, Cut
  <2>1. h[{}] = whole
    BY <1>8
  <2>2. ASSUME NEW s \in SUBSET (1..n), s # {}, h[s \ {Max(s)}] \in B
        PROVE  h[s] = F[<<Max(s), h[s \ {Max(s)}]>>]
    <3>1. Max(s) \in 1..n
      BY <1>1, <2>2, MaxOfSome
    <3>2. h[s] = Cut(h[s \ {Max(s)}], tools[Max(s)])
      BY <1>8, <2>2
    <3> QED
      BY <1>3, <2>2, <3>1, <3>2
  <2>3. \E p : StepsTo(p, n, B, whole, F, h[1..n])
    BY <1>1, <1>2, <1>5, <2>1, <2>2, LeftFoldSteps
  <2> QED
    BY <2>3
<1> DEFINE left == [k \in 0..n |-> p[k].remaining]
           T == {k \in 0..n : /\ p[k] \in B /\ Len(p[k].reductions) = k
                              /\ \A j \in 1..k :
                                   /\ p[k].reductions[j] = Shown(tools[j], left[j - 1])
                                   /\ left[j] = Remaining(left[j - 1], Shown(tools[j], left[j - 1]))}
<1>10. \A k \in 0..n : k \in T
  <2>1. 0 \in T
    <3>1. p[0] = whole /\ 0 \in 0..n
      BY <1>1, <1>9 DEF StepsTo, Steps
    <3>2. Len(p[0].reductions) = 0 /\ p[0] \in B
      BY <1>2, <3>1
    <3> HIDE DEF B, whole, left
    <3> QED
      BY <3>1, <3>2
  <2>2. ASSUME NEW k \in 0..(n - 1), k \in T PROVE k + 1 \in T
    <3>1. k \in Nat /\ k + 1 \in 1..n /\ k + 1 \in 0..n /\ k \in 0..n
      BY <1>1
    <3>2. p[k + 1] = F[<<k + 1, p[k]>>] /\ p[k] \in B
      BY <1>9, <2>2, <3>1 DEF StepsTo, Steps
    <3>3. p[k + 1] = Cut(p[k], tools[k + 1]) /\ p[k + 1] \in B
      <4> HIDE DEF B, Cut, T
      <4> QED
        BY <1>3, <1>4, <3>1, <3>2
    <3>4. left[k] = p[k].remaining /\ left[k + 1] = p[k + 1].remaining
      BY <3>1
    <3> DEFINE last == Shown(tools[k + 1], left[k])
    <3>5. p[k + 1].reductions = Append(p[k].reductions, last)
      BY <3>3, <3>4
    <3>6. left[k + 1] = Remaining(left[k], last)
      BY <3>3, <3>4
    <3>7. p[k].reductions \in Seq(Cuts) /\ Len(p[k].reductions) = k
      BY <2>2, <3>2
    <3>8. \A j \in 1..k : /\ p[k].reductions[j] = Shown(tools[j], left[j - 1])
                          /\ left[j] = Remaining(left[j - 1], Shown(tools[j], left[j - 1]))
      BY <2>2
    <3> HIDE DEF left, B, Cut
    <3>9. Len(p[k + 1].reductions) = k + 1
      BY <3>5, <3>7
    <3>10. ASSUME NEW j \in 1..(k + 1)
           PROVE  /\ p[k + 1].reductions[j] = Shown(tools[j], left[j - 1])
                  /\ left[j] = Remaining(left[j - 1], Shown(tools[j], left[j - 1]))
      <4>1. CASE j = k + 1
        <5>1. j - 1 = k
          BY <3>1, <4>1
        <5>2. p[k + 1].reductions[j] = last
          BY <3>5, <3>7, <4>1
        <5> QED
          BY <3>6, <4>1, <5>1, <5>2
      <4>2. CASE j \in 1..k
        <5>1. p[k + 1].reductions[j] = p[k].reductions[j]
          BY <3>5, <3>7, <4>2
        <5> QED
          BY <3>8, <4>2, <5>1
      <4> QED
        BY <3>1, <4>1, <4>2
    <3> QED
      BY <3>1, <3>3, <3>9, <3>10
  <2> HIDE DEF T
  <2> QED
    BY <1>1, <2>1, <2>2, PrefixInduction
<1>11. n \in 0..n /\ 0 \in 0..n
  BY <1>1
<1>12. /\ p[n] \in B /\ Len(p[n].reductions) = n
       /\ \A j \in 1..n : /\ p[n].reductions[j] = Shown(tools[j], left[j - 1])
                          /\ left[j] = Remaining(left[j - 1], Shown(tools[j], left[j - 1]))
  BY <1>10, <1>11
<1>13. Reductions(tools) = p[n].reductions
  BY <1>8, <1>9 DEF StepsTo
<1>14. left \in [0..n -> Nat] /\ left[0] = TotalToolTokens
  <2>1. \A k \in 0..n : p[k].remaining \in Nat
    BY <1>10
  <2>2. p[0] = whole
    BY <1>9 DEF StepsTo, Steps
  <2> QED
    BY <1>11, <2>1, <2>2
<1>15. Reductions(tools) \in Seq(Cuts) /\ Len(Reductions(tools)) = n
  BY <1>12, <1>13
<1> HIDE DEF left
<1>16. IsCut(Reductions(tools), left, tools)
  BY <1>12, <1>13, <1>14, <1>15 DEF IsCut
<1> QED
  BY <1>15, <1>16 DEF n

----------------------------------------------------------------------------
(* q is the numbers of S up to k, each once and in order.                  *)
Enumerates(q, S, k) ==
  /\ q \in Seq(S \cap 1..k) /\ Len(q) = Cardinality(S \cap 1..k)
  /\ \A i, j \in 1..Len(q) : i < j => q[i] < q[j]
  /\ \A x \in S \cap 1..k : \E i \in 1..Len(q) : q[i] = x

LEMMA EnumeratesNext ==
  ASSUME NEW S, NEW k \in Nat, NEW q, Enumerates(q, S, k)
  PROVE  Enumerates(IF k + 1 \in S THEN Append(q, k + 1) ELSE q, S, k + 1)
<1> DEFINE now == S \cap 1..k
           next == S \cap 1..(k + 1)
<1>1. IsFiniteSet(now)
  <2>1. IsFiniteSet(1..k)
    BY FS_Interval
  <2> QED
    BY <2>1, FS_Subset
<1>2. /\ q \in Seq(now) /\ Len(q) = Cardinality(now) /\ Len(q) \in Nat
      /\ \A i \in 1..Len(q) : q[i] \in now
      /\ \A i, j \in 1..Len(q) : i < j => q[i] < q[j]
      /\ \A x \in now : \E i \in 1..Len(q) : q[i] = x
  <2>1. q \in Seq(now)
    BY DEF Enumerates
  <2>2. Len(q) \in Nat /\ \A i \in 1..Len(q) : q[i] \in now
    <3> HIDE DEF now
    <3> QED
      BY <2>1
  <2> QED
    BY <2>1, <2>2 DEF Enumerates
<1>3. CASE k + 1 \in S
  <2>1. next = now \cup {k + 1} /\ k + 1 \notin now /\ now \subseteq 1..k
    BY <1>3
  <2> HIDE DEF now, next
  <2>2. Cardinality(next) = Cardinality(now) + 1
    BY <1>1, <2>1, FS_AddElement
  <2> DEFINE r == Append(q, k + 1)
  <2>3. /\ Len(r) = Len(q) + 1 /\ r[Len(q) + 1] = k + 1
        /\ \A i \in 1..Len(q) : r[i] = q[i]
    BY <1>2
  <2>4. r \in Seq(next)
    <3>1. q \in Seq(next)
      BY <1>2, <2>1
    <3> QED
      BY <2>1, <3>1
  <2> HIDE DEF r
  <2>5. ASSUME NEW i \in 1..Len(r), NEW j \in 1..Len(r), i < j PROVE r[i] < r[j]
    <3>1. i \in 1..Len(q)
      BY <1>2, <2>3, <2>5
    <3>2. CASE j \in 1..Len(q)
      BY <1>2, <2>3, <2>5, <3>1, <3>2
    <3>3. CASE j = Len(q) + 1
      <4>1. q[i] \in 1..k
        BY <1>2, <2>1, <3>1
      <4> QED
        BY <2>3, <3>1, <3>3, <4>1
    <3> QED
      BY <1>2, <2>3, <3>2, <3>3
  <2>6. ASSUME NEW x \in next PROVE \E i \in 1..Len(r) : r[i] = x
    <3>1. CASE x \in now
      <4>1. PICK i \in 1..Len(q) : q[i] = x
        BY <1>2, <3>1
      <4> QED
        BY <1>2, <2>3, <4>1
    <3>2. CASE x = k + 1
      BY <1>2, <2>3, <3>2
    <3> QED
      BY <2>1, <3>1, <3>2
  <2>7. Len(r) = Cardinality(next)
    BY <1>2, <2>2, <2>3
  <2>8. Enumerates(r, S, k + 1)
    BY <2>4, <2>5, <2>6, <2>7 DEF Enumerates, next
  <2> QED
    BY <1>3, <2>8 DEF r
<1>4. CASE k + 1 \notin S
  <2>1. next = now
    BY <1>4
  <2>2. Enumerates(q, S, k + 1)
    BY <2>1 DEF Enumerates
  <2> QED
    BY <1>4, <2>2
<1> QED
  BY <1>3, <1>4

LEMMA AscendingEnumerates ==
  ASSUME NEW S, NEW n \in Nat
  PROVE  Enumerates(Ascending(S, n), S, n)
<1> DEFINE numbers == [i \in 1..n |-> i]
           Meet(met, i) == IF i \in S THEN Append(met, i) ELSE met
           F == [pair \in (1..n) \X Seq(Nat) |-> Meet(pair[2], pair[1])]
<1>1. numbers \in Seq(Nat) /\ Len(numbers) = n /\ \A i \in 1..n : numbers[i] = i
  OBVIOUS
<1>2. \A i \in 1..n, met \in Seq(Nat) :
        F[<<i, met>>] = Meet(met, i) /\ Meet(met, i) \in Seq(Nat)
  OBVIOUS
<1> HIDE DEF F, numbers
<1>3. Maps(F, 1..n, Seq(Nat))
  BY <1>2 DEF Maps
<1>4. <<>> \in Seq(Nat)
  OBVIOUS
<1>5. PICK g : IsFold(g, 1..n, [s \in SUBSET (1..n) |-> Max(s)], Seq(Nat), <<>>, F)
  BY <1>3, <1>4, LeftFoldExists
<1>6. g = [s \in SUBSET (1..n) |-> IF s = {} THEN <<>>
                                   ELSE Meet(g[s \ {Max(s)}], numbers[Max(s)])]
  <2> HIDE DEF Meet
  <2>1. ASSUME NEW s \in SUBSET (1..n), s # {}
        PROVE  g[s] = Meet(g[s \ {Max(s)}], numbers[Max(s)])
    <3>1. Max(s) \in 1..n
      BY <2>1, MaxOfSome
    <3>2. g[s] = F[<<Max(s), g[s \ {Max(s)}]>>] /\ g[s \ {Max(s)}] \in Seq(Nat)
      BY <1>5, <2>1 DEF IsFold
    <3> QED
      BY <1>1, <1>2, <3>1, <3>2
  <2> QED
    BY <1>5, <2>1 DEF IsFold
<1>7. PICK h : /\ h = [s \in SUBSET (1..n) |-> IF s = {} THEN <<>>
                                               ELSE Meet(h[s \ {Max(s)}], numbers[Max(s)])]
               /\ Ascending(S, n) = h[1..n]
  <2>1. DOMAIN numbers = 1..n
    BY DEF numbers
  <2>2. Ascending(S, n) = FoldLeft(LAMBDA met, i : IF i \in S THEN Append(met, i) ELSE met,
                                   <<>>, numbers)
    BY DEF Ascending, numbers
  <2> QED
    BY <1>6, <2>1, <2>2 DEF FoldLeft, MapThenFoldSet
<1> HIDE DEF Meet
<1>8. PICK p : StepsTo(p, n, Seq(Nat), <<>>, F, h[1..n])
  <2>1. h[{}] = <<>>
    BY <1>7
  <2>2. ASSUME NEW s \in SUBSET (1..n), s # {}, h[s \ {Max(s)}] \in Seq(Nat)
        PROVE  h[s] = F[<<Max(s), h[s \ {Max(s)}]>>]
    <3>1. Max(s) \in 1..n
      BY <2>2, MaxOfSome
    <3>2. h[s] = Meet(h[s \ {Max(s)}], numbers[Max(s)])
      BY <1>7, <2>2
    <3> QED
      BY <1>1, <1>2, <2>2, <3>1, <3>2
  <2>3. \E p : StepsTo(p, n, Seq(Nat), <<>>, F, h[1..n])
    BY <1>3, <1>4, <2>1, <2>2, LeftFoldSteps
  <2> QED
    BY <2>3
<1> DEFINE T == {k \in 0..n : Enumerates(p[k], S, k)}
<1>9. \A k \in 0..n : k \in T
  <2>1. 0 \in T
    <3>1. p[0] = <<>> /\ S \cap 1..0 = {}
      BY <1>8 DEF StepsTo, Steps
    <3>2. Enumerates(<<>>, S, 0)
      BY <3>1, FS_EmptySet DEF Enumerates
    <3> QED
      BY <3>1, <3>2
  <2>2. ASSUME NEW k \in 0..(n - 1), k \in T PROVE k + 1 \in T
    <3>1. k \in Nat /\ k + 1 \in 1..n /\ k + 1 \in 0..n /\ k \in 0..n
      OBVIOUS
    <3>2. p[k + 1] = F[<<k + 1, p[k]>>] /\ p[k] \in Seq(Nat)
      BY <1>8, <3>1 DEF StepsTo, Steps
    <3>3. p[k + 1] = IF k + 1 \in S THEN Append(p[k], k + 1) ELSE p[k]
      BY <1>2, <3>1, <3>2 DEF Meet
    <3>4. Enumerates(p[k + 1], S, k + 1)
      BY <2>2, <3>1, <3>3, EnumeratesNext
    <3> QED
      BY <3>1, <3>4
  <2> HIDE DEF T
  <2> QED
    BY <2>1, <2>2, PrefixInduction
<1>10. Enumerates(p[n], S, n)
  <2>1. n \in 0..n
    OBVIOUS
  <2> QED
    BY <1>9, <2>1
<1> QED
  BY <1>7, <1>8, <1>10 DEF StepsTo

(* The tool messages of a conversation by their places, counted from 0.    *)
LEMMA ToolIndicesSound ==
  ASSUME history \in Seq(Messages)
  PROVE  /\ DOMAIN ToolIndices = 1..RoleCount(history, "tool")
         /\ \A k \in DOMAIN ToolIndices : /\ ToolIndices[k] \in 0..(Len(history) - 1)
                                          /\ history[ToolIndices[k] + 1].role = "tool"
         /\ \A j, k \in DOMAIN ToolIndices : ToolIndices[j] = ToolIndices[k] => j = k
         /\ \A i \in 0..(Len(history) - 1) :
              history[i + 1].role = "tool" => \E k \in DOMAIN ToolIndices : ToolIndices[k] = i
<1> DEFINE n == Len(history)
           S == {i \in DOMAIN history : history[i].role = "tool"}
<1>1. n \in Nat /\ DOMAIN history = 1..n
  OBVIOUS
<1>2. S \cap 1..n = S /\ S \subseteq 1..n /\ Cardinality(S) = RoleCount(history, "tool")
  BY <1>1 DEF RoleCount
<1>3. Enumerates(ToolPlaces, S, n)
  <2>1. ToolPlaces = Ascending(S, n)
    BY DEF ToolPlaces
  <2> HIDE DEF S, n
  <2> QED
    BY <1>1, <2>1, AscendingEnumerates
<1>4. /\ ToolPlaces \in Seq(S) /\ Len(ToolPlaces) = RoleCount(history, "tool")
      /\ \A i, j \in 1..Len(ToolPlaces) : i < j => ToolPlaces[i] < ToolPlaces[j]
      /\ \A x \in S : \E i \in 1..Len(ToolPlaces) : ToolPlaces[i] = x
  <2> HIDE DEF S, n
  <2> QED
    BY <1>2, <1>3 DEF Enumerates
<1>5. /\ DOMAIN ToolPlaces = 1..Len(ToolPlaces) /\ Len(ToolPlaces) \in Nat
      /\ \A k \in 1..Len(ToolPlaces) : ToolPlaces[k] \in S
  <2> HIDE DEF S
  <2> QED
    BY <1>4
<1>6. /\ DOMAIN ToolIndices = 1..Len(ToolPlaces)
      /\ \A k \in 1..Len(ToolPlaces) : ToolIndices[k] = ToolPlaces[k] - 1
  BY <1>5 DEF ToolIndices
<1>7. ASSUME NEW k \in 1..Len(ToolPlaces)
      PROVE  /\ ToolPlaces[k] \in 1..n /\ history[ToolPlaces[k]].role = "tool"
             /\ ToolIndices[k] \in 0..(n - 1) /\ ToolIndices[k] + 1 = ToolPlaces[k]
  BY <1>1, <1>5, <1>6
<1>8. ASSUME NEW j \in 1..Len(ToolPlaces), NEW k \in 1..Len(ToolPlaces),
             ToolIndices[j] = ToolIndices[k]
      PROVE  j = k
  <2>1. ToolPlaces[j] = ToolPlaces[k] /\ ToolPlaces[j] \in Nat
    BY <1>7, <1>8
  <2>2. ~(j < k) /\ ~(k < j)
    BY <1>4, <2>1
  <2> QED
    BY <2>2
<1>9. ASSUME NEW i \in 0..(n - 1), history[i + 1].role = "tool"
      PROVE  \E k \in 1..Len(ToolPlaces) : ToolIndices[k] = i
  <2>1. i + 1 \in S
    BY <1>1, <1>9
  <2>2. PICK k \in 1..Len(ToolPlaces) : ToolPlaces[k] = i + 1
    BY <1>4, <2>1
  <2> QED
    BY <1>6, <2>2
<1> QED
  BY <1>4, <1>6, <1>7, <1>8, <1>9, ZenonT(60)

(* An audit names each message once, as presented unchanged or not.        *)
Divides(audit, n) ==
  /\ audit.retained \cup audit.removed = 0..(n - 1)
  /\ audit.retained \cap audit.removed = {}

Audits == [step : Nat, retained : SUBSET Nat, removed : SUBSET Nat, reductions : Seq(Cuts)]

(* An audit shows what was cut of the first of the results.                *)
Shows(audit) ==
  /\ Len(audit.reductions) <= Len(results)
  /\ \E left : IsCut(audit.reductions, left, results)
  /\ policy = "full-history" => audit.reductions = <<>> /\ audit.removed = {}

LEMMA NothingCut == \E left : IsCut(<<>>, left, results)
<1> DEFINE left == [k \in 0..0 |-> TotalToolTokens]
<1>1. IsCut(<<>>, left, results)
  BY BoundedAssumption DEF IsCut
<1> QED
  BY <1>1

LEMMA AuditSound ==
  ASSUME TypeOK, Exchanged, results \in Seq(Results), Len(results) = toolCalls
  PROVE  /\ Audit \in Audits /\ Audit.step = step /\ Shows(Audit)
         /\ Divides(Audit, Len(history))
         /\ policy # "full-history" => Len(Audit.reductions) = Len(results)
<1>1. history \in Seq(Messages) /\ Len(history) \in Nat /\ step \in Nat
  BY DEF TypeOK
<1>2. RoleCount(history, "tool") = Len(results) /\ Len(results) \in Nat
  BY DEF Exchanged, ConversationMatchesTrace
<1>3. CASE policy = "full-history"
  <2>1. Audit = [step |-> step, retained |-> 0..(Len(history) - 1), removed |-> {},
                 reductions |-> <<>>]
    BY <1>3 DEF Audit
  <2>2. 0..(Len(history) - 1) \in SUBSET Nat /\ <<>> \in Seq(Cuts) /\ Len(<<>>) = 0
    BY <1>1
  <2>3. Audit \in Audits
    BY <1>1, <2>1, <2>2 DEF Audits
  <2>4. Shows(Audit)
    BY <1>2, <2>1, <2>2, NothingCut DEF Shows
  <2>5. Divides(Audit, Len(history))
    BY <2>1 DEF Divides
  <2> QED
    BY <1>3, <2>1, <2>3, <2>4, <2>5
<1>4. CASE policy # "full-history"
  <2> DEFINE reductions == Reductions(results)
             kept == {ToolIndices[k] : k \in {j \in DOMAIN reductions :
                                                reductions[j].method = "none"}}
             cut == {ToolIndices[k] : k \in {j \in DOMAIN reductions :
                                               reductions[j].method # "none"}}
             retained == {i \in 0..(Len(history) - 1) :
                            history[i + 1].role # "tool" \/ i \in kept}
  <2>1. Audit = [step |-> step, retained |-> retained, removed |-> cut,
                 reductions |-> reductions]
    BY <1>4 DEF Audit, CutIndices
  <2>2. /\ reductions \in Seq(Cuts) /\ Len(reductions) = Len(results)
        /\ \E left : IsCut(reductions, left, results)
    BY ReductionsCut
  <2>3. DOMAIN reductions = DOMAIN ToolIndices
    <3>1. DOMAIN reductions = 1..Len(results)
      <4> HIDE DEF reductions
      <4> QED
        BY <1>2, <2>2
    <3> QED
      BY <1>1, <1>2, <3>1, ToolIndicesSound
  <2> HIDE DEF reductions
  <2>4. \A k \in DOMAIN reductions : ToolIndices[k] \in 0..(Len(history) - 1)
    BY <1>1, <2>3, ToolIndicesSound
  <2>5. cut \subseteq 0..(Len(history) - 1) /\ retained \subseteq 0..(Len(history) - 1)
    BY <2>4
  <2>6. ASSUME NEW i \in 0..(Len(history) - 1) PROVE i \in retained \/ i \in cut
    <3>1. CASE history[i + 1].role = "tool"
      <4>1. PICK k \in DOMAIN ToolIndices : ToolIndices[k] = i
        BY <1>1, <3>1, ToolIndicesSound
      <4> QED
        BY <2>3, <4>1
    <3> QED
      BY <3>1
  <2>7. ASSUME NEW i \in retained, i \in cut PROVE FALSE
    <3>1. PICK k \in DOMAIN reductions : reductions[k].method # "none" /\ i = ToolIndices[k]
      BY <2>7
    <3>2. i \in kept
      <4>1. history[i + 1].role = "tool"
        BY <1>1, <2>3, <3>1, ToolIndicesSound
      <4> QED
        BY <4>1
    <3>3. PICK j \in DOMAIN reductions : reductions[j].method = "none" /\ i = ToolIndices[j]
      BY <3>2
    <3>4. j = k
      BY <1>1, <2>3, <3>1, <3>3, ToolIndicesSound
    <3> QED
      BY <3>1, <3>3, <3>4
  <2> HIDE DEF cut, retained
  <2>8. 0..(Len(history) - 1) \subseteq Nat
    BY <1>1
  <2>9. Audit \in Audits
    BY <1>1, <2>1, <2>2, <2>5, <2>8 DEF Audits
  <2>10. Divides(Audit, Len(history))
    BY <2>1, <2>5, <2>6, <2>7 DEF Divides
  <2>11. Shows(Audit)
    BY <1>2, <1>4, <2>1, <2>2 DEF Shows
  <2> QED
    BY <2>1, <2>2, <2>9, <2>10, <2>11
<1> QED
  BY <1>3, <1>4

----------------------------------------------------------------------------
(* What a run under the policy keeps of its results and its audits: each   *)
(* preparation showed what is cut of the first of them, and never fewer    *)
(* than the preparation before.                                            *)
Presented ==
  /\ results \in Seq(Results) /\ Len(results) = toolCalls
  /\ audits \in Seq(Audits)
  /\ \A a \in DOMAIN audits : Shows(audits[a])
  /\ \A a \in 2..Len(audits) : Len(audits[a - 1].reductions) <= Len(audits[a].reductions)

LEMMA PolicyFixed == [Next]_vars => policy' = policy
  BY DEF Next, Loop, Terminated, Start, PrepareContext, ContextOverflow, BeforeModel,
         AfterModelRaises, MalformedDecision, Finish, ChooseTool, Record, BeforeTool,
         ExecuteTool, StepsExhausted, Raise, TimeExpires, vars

(* A result that is added changes nothing of what was cut before.          *)
LEMMA CutKept ==
  ASSUME NEW S, NEW tools \in Seq(S), NEW tool \in S, NEW reductions \in Seq(Cuts), NEW left,
         IsCut(reductions, left, tools), Len(reductions) <= Len(tools)
  PROVE  IsCut(reductions, left, Append(tools, tool))
<1>1. \A k \in 1..Len(reductions) : Append(tools, tool)[k] = tools[k]
  OBVIOUS
<1> QED
  BY <1>1 DEF IsCut

LEMMA ShowsKept ==
  ASSUME results \in Seq(Results), NEW result \in Results, results' = Append(results, result),
         policy' = policy, NEW audit \in Audits, Shows(audit)
  PROVE  Shows(audit)'
<1>1. audit.reductions \in Seq(Cuts) /\ Len(audit.reductions) \in Nat
  BY DEF Audits
<1>2. PICK left : IsCut(audit.reductions, left, results)
  BY DEF Shows
<1>3. Len(results') = Len(results) + 1 /\ Len(results) \in Nat
  OBVIOUS
<1>4. IsCut(audit.reductions, left, results')
  BY <1>1, <1>2, CutKept DEF Shows
<1> QED
  BY <1>1, <1>3, <1>4 DEF Shows

(* What a tool returned, with its payload, is a result the policy can cut. *)
LEMMA ResultTyped ==
  ASSUME NEW tool \in Tools, NEW tokens \in ContentTokens, NEW text \in Texts(tool, tokens),
         NEW path \in Paths \cup {NoPath},
         NEW key \in (IF tool = "search" THEN Queries \cup {NoQuery} ELSE {path})
  PROVE  [tool |-> tool, key |-> key, tokens |-> tokens,
          grain |-> text.grain, width |-> text.width] \in Results
<1>1. tokens \in Nat /\ Grains \subseteq Nat \ {0} /\ Widths \subseteq 1..4
  BY DataAssumption, BoundedAssumption
<1>2. text.grain \in Nat /\ text.width \in 1..4 /\ (tool = "search" => text.grain > 0)
  <2>1. CASE tool = "search"
    BY <1>1, <2>1 DEF Texts
  <2>2. CASE tool = "run_command"
    BY <1>1, <2>2 DEF Texts
  <2>3. CASE tool \notin {"search", "run_command"}
    BY <1>1, <2>3 DEF Texts
  <2> QED
    BY <2>1, <2>2, <2>3
<1>3. key \in Queries \cup {NoQuery} \cup Paths \cup {NoPath}
  OBVIOUS
<1> QED
  BY <1>1, <1>2, <1>3 DEF Results, Outcomes, Lined

LEMMA PresentedNext ==
  TypeOK /\ TypeOK' /\ Exchanged /\ Presented /\ [BoundedNext]_allVars => Presented'
<1> SUFFICES ASSUME TypeOK, TypeOK', Exchanged, Presented, [BoundedNext]_allVars
             PROVE  Presented'
  OBVIOUS
<1>a. policy' = policy
  <2>1. [Next]_vars
    BY BoundedStepIsLoopStep DEF allVars
  <2> QED
    BY <2>1, PolicyFixed
<1>b. /\ results \in Seq(Results) /\ Len(results) = toolCalls /\ audits \in Seq(Audits)
      /\ \A a \in DOMAIN audits : Shows(audits[a]) /\ audits[a] \in Audits
      /\ \A a \in 2..Len(audits) :
           Len(audits[a - 1].reductions) <= Len(audits[a].reductions)
  BY DEF Presented
<1>c. UNCHANGED <<results, audits, toolCalls>> => Presented'
  BY <1>a DEF Presented, Shows
<1>1. CASE Prepare
  <2>1. UNCHANGED <<results, toolCalls>>
    BY <1>1 DEF Prepare, ContextOverflow, PrepareContext
  <2>2. CASE UNCHANGED audits
    BY <1>c, <2>1, <2>2
  <2>3. CASE audits' = Append(audits, Audit)
    <3>1. /\ Audit \in Audits /\ Shows(Audit)
          /\ policy # "full-history" => Len(Audit.reductions) = Len(results)
      BY <1>b, AuditSound
    <3> DEFINE last == Audit
    <3> HIDE DEF last
    <3>2. /\ audits' = Append(audits, last) /\ last \in Audits /\ Shows(last)
          /\ policy # "full-history" => Len(last.reductions) = Len(results)
      BY <2>3, <3>1 DEF last
    <3>3. /\ audits' \in Seq(Audits) /\ Len(audits') = Len(audits) + 1 /\ Len(audits) \in Nat
          /\ DOMAIN audits' = 1..(Len(audits) + 1) /\ DOMAIN audits = 1..Len(audits)
          /\ \A a \in 1..Len(audits) : audits'[a] = audits[a]
          /\ audits'[Len(audits) + 1] = last
      BY <1>b, <3>2
    <3>4. ASSUME NEW a \in DOMAIN audits' PROVE Shows(audits'[a])
      BY <1>b, <3>2, <3>3
    <3>5. (\A a \in DOMAIN audits : Shows(audits[a]))'
      BY <1>a, <2>1, <3>4 DEF Shows
    <3>6. ASSUME NEW a \in 2..Len(audits')
          PROVE  Len(audits'[a - 1].reductions) <= Len(audits'[a].reductions)
      <4>1. CASE a \in 2..Len(audits)
        <5>1. audits'[a - 1] = audits[a - 1] /\ audits'[a] = audits[a]
          BY <3>3, <4>1
        <5> QED
          BY <1>b, <4>1, <5>1
      <4>2. CASE a = Len(audits) + 1
        <5>1. a - 1 \in DOMAIN audits /\ audits'[a - 1] = audits[a - 1] /\ audits'[a] = last
          BY <3>3, <4>2
        <5>2. Shows(audits[a - 1])
          BY <1>b, <5>1
        <5>3. CASE policy = "full-history"
          <6>1. audits[a - 1].reductions = <<>> /\ last.reductions = <<>>
            BY <3>2, <5>2, <5>3 DEF Shows
          <6> QED
            BY <5>1, <6>1
        <5>4. CASE policy # "full-history"
          BY <3>2, <5>1, <5>2, <5>4 DEF Shows
        <5> QED
          BY <5>3, <5>4
      <4> QED
        BY <3>3, <4>1, <4>2
    <3>7. results' \in Seq(Results) /\ Len(results') = toolCalls'
      BY <1>b, <2>1
    <3> QED
      BY <3>3, <3>5, <3>6, <3>7 DEF Presented
  <2> QED
    BY <1>1, <2>2, <2>3 DEF Prepare
<1>2. CASE ExecuteWithResult
  <2>1. PICK tool \in Tools : \E path \in PathsNamed(tool) :
          /\ ExecuteTool(tool, path)
          /\ LET tokens == history'[Len(history')].tokens
                 keys == IF tool = "search" THEN Queries \cup {NoQuery} ELSE {path}
             IN  \E text \in Texts(tool, tokens), key \in keys :
                   results' = Append(results,
                     [tool |-> tool, key |-> key, tokens |-> tokens,
                      grain |-> text.grain, width |-> text.width])
    BY <1>2 DEF ExecuteWithResult
  <2>2. PICK path \in PathsNamed(tool) :
          /\ ExecuteTool(tool, path)
          /\ LET tokens == history'[Len(history')].tokens
                 keys == IF tool = "search" THEN Queries \cup {NoQuery} ELSE {path}
             IN  \E text \in Texts(tool, tokens), key \in keys :
                   results' = Append(results,
                     [tool |-> tool, key |-> key, tokens |-> tokens,
                      grain |-> text.grain, width |-> text.width])
    BY <2>1
  <2> DEFINE tokens == history'[Len(history')].tokens
             keys == IF tool = "search" THEN Queries \cup {NoQuery} ELSE {path}
  <2>3. PICK text \in Texts(tool, tokens), key \in keys :
          results' = Append(results, [tool |-> tool, key |-> key, tokens |-> tokens,
                                      grain |-> text.grain, width |-> text.width])
    BY <2>2
  <2>4. tokens \in ContentTokens
    <3>1. PICK t \in ContentTokens : history' = Append(history, Say("tool", t))
      BY <2>2 DEF ExecuteTool
    <3>2. history \in Seq(Messages)
      BY DEF TypeOK
    <3>3. history'[Len(history')] = Say("tool", t)
      BY <3>1, <3>2
    <3> QED
      BY <3>3 DEF Say
  <2>5. path \in Paths \cup {NoPath}
    BY DEF PathsNamed
  <2> DEFINE result == [tool |-> tool, key |-> key, tokens |-> tokens,
                        grain |-> text.grain, width |-> text.width]
  <2> HIDE DEF tokens
  <2>6. result \in Results /\ results' = Append(results, result)
    BY <2>3, <2>4, <2>5, ResultTyped
  <2> HIDE DEF result
  <2>7. results' \in Seq(Results) /\ Len(results') = Len(results) + 1
    BY <1>b, <2>6
  <2>8. toolCalls' = toolCalls + 1 /\ UNCHANGED audits
    BY <1>2, <2>2 DEF ExecuteWithResult, ExecuteTool
  <2>9. ASSUME NEW a \in DOMAIN audits PROVE Shows(audits[a])'
    <3>1. PICK audit \in Audits : audit = audits[a]
      BY <1>b
    <3>2. Shows(audit) /\ audits'[a] = audit
      BY <1>b, <2>8, <3>1
    <3>3. Shows(audit)'
      BY <1>a, <1>b, <2>6, <3>2, ShowsKept
    <3> QED
      BY <3>2, <3>3 DEF Shows
  <2> QED
    BY <1>b, <2>7, <2>8, <2>9 DEF Presented
<1>3. CASE Unobserved \/ UNCHANGED allVars
  <2>1. UNCHANGED toolCalls
    BY <1>3 DEF Unobserved, Start, BeforeModel, AfterModelRaises, MalformedDecision, Finish,
           ChooseTool, Record, BeforeTool, StepsExhausted, Raise, TimeExpires, Terminated,
           work, vars, allVars
  <2> QED
    BY <1>3, <1>c, <2>1 DEF Unobserved, allVars
<1> QED
  BY <1>1, <1>2, <1>3 DEF BoundedNext

LEMMA PresentedInvariant == BoundedSpec => []Presented
<1>1. BoundedInit => Presented
  BY DEF BoundedInit, Init, Presented
<1>2. BoundedSpec => []TypeOK
  BY BoundedImplementsLoop, TypeCorrect, PTL
<1>3. BoundedSpec => []Exchanged
  BY BoundedImplementsLoop, ExchangedInvariant, PTL
<1> QED
  BY <1>1, <1>2, <1>3, PresentedNext, PTL DEF BoundedSpec

(* Two cuts of the same results agree where both have come.                *)
LEMMA CutsAgree ==
  ASSUME NEW q \in Seq(Cuts), NEW r \in Seq(Cuts), NEW first, NEW second, NEW tools,
         IsCut(q, first, tools), IsCut(r, second, tools), Len(q) <= Len(r)
  PROVE  IsPrefix(q, r)
<1> DEFINE n == Len(q)
           T == {k \in 0..n : first[k] = second[k] /\ (k > 0 => q[k] = r[k])}
<1>1. /\ n \in Nat /\ Len(r) \in Nat /\ n <= Len(r)
      /\ DOMAIN q = 1..n /\ DOMAIN r = 1..Len(r)
  OBVIOUS
<1>2. /\ first[0] = TotalToolTokens /\ second[0] = TotalToolTokens
      /\ \A k \in 1..n : /\ q[k] = Shown(tools[k], first[k - 1])
                         /\ first[k] = Remaining(first[k - 1], q[k])
      /\ \A k \in 1..Len(r) : /\ r[k] = Shown(tools[k], second[k - 1])
                              /\ second[k] = Remaining(second[k - 1], r[k])
  BY DEF IsCut
<1> HIDE DEF n
<1>3. \A k \in 0..n : k \in T
  <2>1. 0 \in T
    BY <1>1, <1>2
  <2>2. ASSUME NEW k \in 0..(n - 1), k \in T PROVE k + 1 \in T
    <3>1. k + 1 \in 1..n /\ k + 1 \in 1..Len(r) /\ k + 1 \in 0..n /\ (k + 1) - 1 = k
      BY <1>1
    <3>2. first[k] = second[k]
      BY <2>2
    <3>3. q[k + 1] = Shown(tools[k + 1], first[k]) /\ r[k + 1] = Shown(tools[k + 1], second[k])
          /\ first[k + 1] = Remaining(first[k], q[k + 1])
          /\ second[k + 1] = Remaining(second[k], r[k + 1])
      BY <1>2, <3>1
    <3> QED
      BY <3>1, <3>2, <3>3
  <2> HIDE DEF T
  <2> QED
    BY <1>1, <2>1, <2>2, PrefixInduction
<1>4. \A k \in 1..n : q[k] = r[k]
  BY <1>1, <1>3
<1>5. SubSeq(q, 1, n) = SubSeq(r, 1, n)
  <2>1. Len(SubSeq(q, 1, n)) = n /\ \A k \in 1..n : SubSeq(q, 1, n)[k] = q[k]
    BY <1>1
  <2>2. Len(SubSeq(r, 1, n)) = n /\ \A k \in 1..n : SubSeq(r, 1, n)[k] = r[k]
    BY <1>1
  <2>3. SubSeq(q, 1, n) \in Seq(Cuts) /\ SubSeq(r, 1, n) \in Seq(Cuts)
    BY <1>1
  <2> QED
    BY <1>4, <2>1, <2>2, <2>3
<1> QED
  BY <1>1, <1>5 DEF IsPrefix, n

(* Whatever sizes and budgets: what one request showed of a tool result    *)
(* every later request shows the same, so no presented text changes.       *)
THEOREM PresentationsAreStable == BoundedSpec => []PresentationStable
<1>1. Presented => PresentationStable
  <2> SUFFICES ASSUME Presented, NEW a \in 2..Len(audits)
               PROVE  IsPrefix(audits[a - 1].reductions, audits[a].reductions)
    BY DEF PresentationStable
  <2>1. a \in DOMAIN audits /\ a - 1 \in DOMAIN audits /\ audits \in Seq(Audits)
    BY DEF Presented
  <2>2. /\ audits[a].reductions \in Seq(Cuts) /\ audits[a - 1].reductions \in Seq(Cuts)
        /\ Len(audits[a - 1].reductions) <= Len(audits[a].reductions)
    <3>1. audits[a] \in Audits /\ audits[a - 1] \in Audits
      BY <2>1
    <3> QED
      BY <3>1 DEF Audits, Presented
  <2>3. PICK first : IsCut(audits[a - 1].reductions, first, results)
    BY <2>1 DEF Presented, Shows
  <2>4. PICK second : IsCut(audits[a].reductions, second, results)
    BY <2>1 DEF Presented, Shows
  <2> QED
    BY <2>2, <2>3, <2>4, CutsAgree
<1> QED
  BY <1>1, PresentedInvariant, PTL

----------------------------------------------------------------------------
(* Sums over the reductions of an audit, taken one at a time.              *)
Runs(p, w, n, end) ==
  /\ p \in [0..n -> Nat] /\ p[0] = 0
  /\ \A k \in 0..(n - 1) : p[k + 1] = p[k] + w[k + 1]
  /\ p[n] = end

Sums(h, w, n) ==
  h = [s \in SUBSET (1..n) |-> IF s = {} THEN 0 ELSE h[s \ {Max(s)}] + w[Max(s)]]

LEMMA SumExists ==
  ASSUME NEW n \in Nat, NEW w \in [1..n -> Nat]
  PROVE  \E h : Sums(h, w, n)
<1> DEFINE F == [pair \in (1..n) \X Nat |-> pair[2] + w[pair[1]]]
<1>1. \A i \in 1..n, total \in Nat : F[<<i, total>>] = total + w[i] /\ total + w[i] \in Nat
  OBVIOUS
<1> HIDE DEF F
<1>2. Maps(F, 1..n, Nat)
  BY <1>1 DEF Maps
<1>3. PICK g : IsFold(g, 1..n, [s \in SUBSET (1..n) |-> Max(s)], Nat, 0, F)
  BY <1>2, LeftFoldExists
<1>4. ASSUME NEW s \in SUBSET (1..n), s # {} PROVE g[s] = g[s \ {Max(s)}] + w[Max(s)]
  <2>1. Max(s) \in 1..n
    BY <1>4, MaxOfSome
  <2>2. g[s] = F[<<Max(s), g[s \ {Max(s)}]>>] /\ g[s \ {Max(s)}] \in Nat
    BY <1>3, <1>4 DEF IsFold
  <2> QED
    BY <1>1, <2>1, <2>2
<1>5. Sums(g, w, n)
  BY <1>3, <1>4 DEF IsFold, Sums
<1> QED
  BY <1>5

LEMMA SumRuns ==
  ASSUME NEW n \in Nat, NEW w \in [1..n -> Nat], NEW h, Sums(h, w, n)
  PROVE  \E p : Runs(p, w, n, h[1..n])
<1> DEFINE F == [pair \in (1..n) \X Nat |-> pair[2] + w[pair[1]]]
<1>1. \A i \in 1..n, total \in Nat : F[<<i, total>>] = total + w[i] /\ total + w[i] \in Nat
  OBVIOUS
<1> HIDE DEF F
<1>2. Maps(F, 1..n, Nat)
  BY <1>1 DEF Maps
<1>3. h[{}] = 0
  BY DEF Sums
<1>4. ASSUME NEW s \in SUBSET (1..n), s # {}, h[s \ {Max(s)}] \in Nat
      PROVE  h[s] = F[<<Max(s), h[s \ {Max(s)}]>>]
  <2>1. Max(s) \in 1..n
    BY <1>4, MaxOfSome
  <2>2. h[s] = h[s \ {Max(s)}] + w[Max(s)]
    BY <1>4 DEF Sums
  <2> QED
    BY <1>1, <1>4, <2>1, <2>2
<1> DEFINE base == 0
<1>a. base \in Nat /\ h[{}] = base
  BY <1>3
<1> HIDE DEF base
<1>5. PICK p : StepsTo(p, n, Nat, base, F, h[1..n])
  BY <1>2, <1>a, <1>4, LeftFoldSteps
<1>6. ASSUME NEW k \in 0..(n - 1) PROVE p[k + 1] = p[k] + w[k + 1]
  <2>1. k \in 0..n /\ k + 1 \in 1..n
    OBVIOUS
  <2>2. p[k + 1] = F[<<k + 1, p[k]>>] /\ p[k] \in Nat
    BY <1>5, <2>1 DEF Steps, StepsTo
  <2> QED
    BY <1>1, <2>1, <2>2
<1>7. Runs(p, w, n, h[1..n])
  BY <1>5, <1>6 DEF Steps, StepsTo, Runs, base
<1> QED
  BY <1>7

Retained(reductions) == [k \in DOMAIN reductions |-> reductions[k].retained_tokens]
SpentOn(reductions) == SumOver(reductions, LAMBDA r : r.retained_tokens)

LEMMA SpentRuns ==
  ASSUME NEW S, NEW reductions \in Seq(S), \A r \in S : r.retained_tokens \in Nat
  PROVE  \E p : Runs(p, Retained(reductions), Len(reductions), SpentOn(reductions))
<1> DEFINE n == Len(reductions)
           w == Retained(reductions)
<1>1. n \in Nat /\ DOMAIN reductions = 1..n /\ \A k \in 1..n : reductions[k] \in S
  OBVIOUS
<1>2. w \in [1..n -> Nat] /\ \A k \in 1..n : w[k] = reductions[k].retained_tokens
  BY <1>1 DEF Retained
<1> HIDE DEF n, w
<1>3. PICK g : Sums(g, w, n)
  BY <1>1, <1>2, SumExists
<1>4. \A s \in SUBSET (1..n) : s # {} => w[Max(s)] = reductions[Max(s)].retained_tokens
  BY <1>1, <1>2, MaxOfSome
<1>5. g = [s \in SUBSET (1..n) |-> IF s = {} THEN 0
             ELSE g[s \ {Max(s)}] + reductions[Max(s)].retained_tokens]
  BY <1>3, <1>4 DEF Sums
<1>6. PICK h : /\ h = [s \in SUBSET (1..n) |-> IF s = {} THEN 0
                        ELSE h[s \ {Max(s)}] + reductions[Max(s)].retained_tokens]
               /\ SpentOn(reductions) = h[1..n]
  BY <1>1, <1>5 DEF SpentOn, SumOver, FoldLeft, MapThenFoldSet
<1>7. Sums(h, w, n)
  BY <1>4, <1>6 DEF Sums
<1>8. \E p : Runs(p, w, n, h[1..n])
  BY <1>1, <1>2, <1>7, SumRuns
<1> QED
  BY <1>6, <1>8 DEF n, w

(* What is left of the total is what the results before did not spend.     *)
LEMMA LeftOver ==
  ASSUME NEW tools \in Seq(Results), NEW q \in Seq(Cuts), NEW left, IsCut(q, left, tools),
         NEW k \in 1..Len(q)
  PROVE  /\ SpentOn(SubSeq(q, 1, k - 1)) \in Nat
         /\ left[k - 1] = IF SpentOn(SubSeq(q, 1, k - 1)) <= TotalToolTokens
                          THEN TotalToolTokens - SpentOn(SubSeq(q, 1, k - 1)) ELSE 0
<1> DEFINE before == SubSeq(q, 1, k - 1)
           spent == SpentOn(before)
           m == k - 1
<1>1. /\ m \in Nat /\ before \in Seq(Cuts) /\ Len(before) = m
      /\ \A j \in 1..m : before[j] = q[j] /\ q[j] \in Cuts
  OBVIOUS
<1>2. /\ left \in [0..Len(q) -> Nat] /\ left[0] = TotalToolTokens
      /\ \A j \in 1..m : left[j] = Remaining(left[j - 1], q[j])
  BY DEF IsCut
<1>3. \A r \in Cuts : r.retained_tokens \in Nat
  <2> SUFFICES ASSUME NEW r \in Cuts PROVE r.retained_tokens \in Nat
    OBVIOUS
  <2>1. PICK result \in Results, l \in Nat : r = Shown(result, l)
    BY DEF Cuts
  <2> QED
    BY <2>1, ShownSound DEF SoundReduction
<1> DEFINE w == Retained(before)
<1> HIDE DEF before
<1>4. PICK p : Runs(p, w, m, spent)
  <2>1. \E p : Runs(p, Retained(before), Len(before), SpentOn(before))
    BY <1>1, <1>3, SpentRuns
  <2> QED
    BY <1>1, <2>1
<1>5. DOMAIN before = 1..m
  BY <1>1
<1>6. \A j \in 1..m : w[j] = q[j].retained_tokens /\ w[j] \in Nat
  BY <1>1, <1>3, <1>5 DEF Retained
<1> HIDE DEF w, spent, m
<1>7. /\ p \in [0..m -> Nat] /\ p[0] = 0 /\ p[m] = spent
      /\ \A j \in 0..(m - 1) : p[j + 1] = p[j] + w[j + 1]
  BY <1>4 DEF Runs
<1> DEFINE T == {j \in 0..m : left[j] = IF p[j] <= TotalToolTokens
                                        THEN TotalToolTokens - p[j] ELSE 0}
<1>8. TotalToolTokens \in Nat \ {0}
  BY BoundedAssumption
<1>9. \A j \in 0..m : j \in T
  <2>1. 0 \in T
    BY <1>1, <1>2, <1>7, <1>8
  <2>2. ASSUME NEW j \in 0..(m - 1), j \in T PROVE j + 1 \in T
    <3>1. j + 1 \in 1..m /\ j + 1 \in 0..m /\ j \in 0..m /\ (j + 1) - 1 = j /\ j \in 0..Len(q)
      BY <1>1 DEF m
    <3>2. left[j] \in Nat /\ p[j] \in Nat /\ w[j + 1] \in Nat
      BY <1>2, <1>6, <1>7, <3>1
    <3>3. left[j + 1] = Remaining(left[j], q[j + 1]) /\ q[j + 1].retained_tokens = w[j + 1]
      BY <1>2, <1>6, <3>1
    <3>4. left[j + 1] = IF left[j] >= w[j + 1] THEN left[j] - w[j + 1] ELSE 0
      BY <3>2, <3>3, RemainingTyped
    <3>5. p[j + 1] = p[j] + w[j + 1]
      BY <1>7
    <3>6. left[j] = IF p[j] <= TotalToolTokens THEN TotalToolTokens - p[j] ELSE 0
      BY <2>2
    <3>7. left[j + 1] = IF p[j + 1] <= TotalToolTokens THEN TotalToolTokens - p[j + 1] ELSE 0
      BY <1>8, <3>2, <3>4, <3>5, <3>6, SMTT(30)
    <3> QED
      BY <3>1, <3>7
  <2> HIDE DEF T
  <2> QED
    BY <1>1, <2>1, <2>2, PrefixInduction
<1>10. m \in 0..m
  BY <1>1
<1>11. spent \in Nat /\ left[m] = IF spent <= TotalToolTokens THEN TotalToolTokens - spent ELSE 0
  BY <1>7, <1>9, <1>10
<1> QED
  BY <1>11 DEF spent, before, m

(* Whatever sizes and budgets: the total is spent oldest first, a result   *)
(* is omitted exactly when those before used it up, and any other takes    *)
(* its allowance and a margin at most.                                     *)
THEOREM BudgetIsKept == BoundedSpec => []ToolBudgetKept
<1>1. Presented => ToolBudgetKept
  <2> SUFFICES ASSUME Presented, NEW a \in DOMAIN audits, NEW k \in DOMAIN audits[a].reductions
               PROVE  LET q == audits[a].reductions
                          spent == SpentOn(SubSeq(q, 1, k - 1))
                          allowance == Min({PerToolTokens, TotalToolTokens - spent})
                      IN  /\ q[k].method = "omitted-global-budget" <=> spent >= TotalToolTokens
                          /\ spent < TotalToolTokens =>
                               q[k].retained_tokens <= results[k].width * (allowance + 9)
    BY DEF ToolBudgetKept, SpentOn
  <2> DEFINE q == audits[a].reductions
             spent == SpentOn(SubSeq(q, 1, k - 1))
  <2>1. /\ results \in Seq(Results) /\ q \in Seq(Cuts) /\ Len(q) <= Len(results)
        /\ \E left : IsCut(q, left, results)
    <3>1. audits[a] \in Audits /\ Shows(audits[a]) /\ results \in Seq(Results)
      BY DEF Presented
    <3> QED
      BY <3>1 DEF Audits, Shows
  <2>2. PICK left : IsCut(q, left, results)
    BY <2>1
  <2>a. k \in DOMAIN q
    OBVIOUS
  <2> HIDE DEF q
  <2>3. k \in 1..Len(q) /\ k \in 1..Len(results) /\ k - 1 \in 0..Len(q)
    BY <2>1, <2>a
  <2>4. /\ spent \in Nat
        /\ left[k - 1] = IF spent <= TotalToolTokens THEN TotalToolTokens - spent ELSE 0
    BY <2>1, <2>2, <2>3, LeftOver
  <2> HIDE DEF spent
  <2>5. q[k] = Shown(results[k], left[k - 1]) /\ left[k - 1] \in Nat /\ results[k] \in Results
    BY <2>1, <2>2, <2>3 DEF IsCut
  <2> DEFINE allowance == Min({PerToolTokens, left[k - 1]})
             width == results[k].width
  <2>6. SoundReduction(q[k], width, allowance) /\ allowance \in Nat
    BY <2>5, ShownSound
  <2>7. PerToolTokens \in Nat \ {0} /\ TotalToolTokens \in Nat \ {0}
    BY BoundedAssumption
  <2>8. allowance = IF PerToolTokens <= left[k - 1] THEN PerToolTokens ELSE left[k - 1]
    <3> DEFINE over == left[k - 1]
    <3>1. over \in Int /\ PerToolTokens \in Int
      BY <2>5, <2>7
    <3> HIDE DEF over
    <3>2. Min({PerToolTokens, over}) = IF PerToolTokens <= over THEN PerToolTokens ELSE over
      BY <3>1, OfTwo
    <3> QED
      BY <3>2 DEF over
  <2>9. allowance = 0 <=> spent >= TotalToolTokens
    BY <2>4, <2>7, <2>8
  <2>10. spent < TotalToolTokens =>
           allowance > 0 /\ allowance = Min({PerToolTokens, TotalToolTokens - spent})
    BY <2>4, <2>7, <2>8
  <2> HIDE DEF allowance, width
  <2>11. /\ q[k].method = "omitted-global-budget" <=> spent >= TotalToolTokens
         /\ spent < TotalToolTokens =>
              q[k].retained_tokens <= width * (Min({PerToolTokens, TotalToolTokens - spent}) + 9)
    BY <2>6, <2>9, <2>10 DEF SoundReduction
  <2> QED
    BY <2>11 DEF q, spent, width
<1> QED
  BY <1>1, PresentedInvariant, PTL

----------------------------------------------------------------------------
(* What the reductions of an audit come to.                                *)
Originals(reductions) == [k \in DOMAIN reductions |-> reductions[k].original_tokens]
Discarded(reductions) == [k \in DOMAIN reductions |-> reductions[k].discarded_tokens]
OriginalOf(reductions) == SumOver(reductions, LAMBDA r : r.original_tokens)
DiscardedOf(reductions) == SumOver(reductions, LAMBDA r : r.discarded_tokens)

LEMMA OriginalRuns ==
  ASSUME NEW S, NEW reductions \in Seq(S), \A r \in S : r.original_tokens \in Nat
  PROVE  \E p : Runs(p, Originals(reductions), Len(reductions), OriginalOf(reductions))
<1> DEFINE n == Len(reductions)
           w == Originals(reductions)
<1>1. n \in Nat /\ DOMAIN reductions = 1..n /\ \A k \in 1..n : reductions[k] \in S
  OBVIOUS
<1>2. w \in [1..n -> Nat] /\ \A k \in 1..n : w[k] = reductions[k].original_tokens
  BY <1>1 DEF Originals
<1> HIDE DEF n, w
<1>3. PICK g : Sums(g, w, n)
  BY <1>1, <1>2, SumExists
<1>4. \A s \in SUBSET (1..n) : s # {} => w[Max(s)] = reductions[Max(s)].original_tokens
  BY <1>1, <1>2, MaxOfSome
<1>5. g = [s \in SUBSET (1..n) |-> IF s = {} THEN 0
             ELSE g[s \ {Max(s)}] + reductions[Max(s)].original_tokens]
  BY <1>3, <1>4 DEF Sums
<1>6. PICK h : /\ h = [s \in SUBSET (1..n) |-> IF s = {} THEN 0
                        ELSE h[s \ {Max(s)}] + reductions[Max(s)].original_tokens]
               /\ OriginalOf(reductions) = h[1..n]
  BY <1>1, <1>5 DEF OriginalOf, SumOver, FoldLeft, MapThenFoldSet
<1>7. Sums(h, w, n)
  BY <1>4, <1>6 DEF Sums
<1>8. \E p : Runs(p, w, n, h[1..n])
  BY <1>1, <1>2, <1>7, SumRuns
<1> QED
  BY <1>6, <1>8 DEF n, w

LEMMA DiscardedRuns ==
  ASSUME NEW S, NEW reductions \in Seq(S), \A r \in S : r.discarded_tokens \in Nat
  PROVE  \E p : Runs(p, Discarded(reductions), Len(reductions), DiscardedOf(reductions))
<1> DEFINE n == Len(reductions)
           w == Discarded(reductions)
<1>1. n \in Nat /\ DOMAIN reductions = 1..n /\ \A k \in 1..n : reductions[k] \in S
  OBVIOUS
<1>2. w \in [1..n -> Nat] /\ \A k \in 1..n : w[k] = reductions[k].discarded_tokens
  BY <1>1 DEF Discarded
<1> HIDE DEF n, w
<1>3. PICK g : Sums(g, w, n)
  BY <1>1, <1>2, SumExists
<1>4. \A s \in SUBSET (1..n) : s # {} => w[Max(s)] = reductions[Max(s)].discarded_tokens
  BY <1>1, <1>2, MaxOfSome
<1>5. g = [s \in SUBSET (1..n) |-> IF s = {} THEN 0
             ELSE g[s \ {Max(s)}] + reductions[Max(s)].discarded_tokens]
  BY <1>3, <1>4 DEF Sums
<1>6. PICK h : /\ h = [s \in SUBSET (1..n) |-> IF s = {} THEN 0
                        ELSE h[s \ {Max(s)}] + reductions[Max(s)].discarded_tokens]
               /\ DiscardedOf(reductions) = h[1..n]
  BY <1>1, <1>5 DEF DiscardedOf, SumOver, FoldLeft, MapThenFoldSet
<1>7. Sums(h, w, n)
  BY <1>4, <1>6 DEF Sums
<1>8. \E p : Runs(p, w, n, h[1..n])
  BY <1>1, <1>2, <1>7, SumRuns
<1> QED
  BY <1>6, <1>8 DEF n, w

(* No token of a result is lost between what was kept and what was not.    *)
LEMMA CutsSound ==
  \A r \in Cuts : /\ r.original_tokens \in Nat /\ r.retained_tokens \in Nat
                  /\ r.discarded_tokens \in Nat
                  /\ r.original_tokens <= r.retained_tokens + r.discarded_tokens
<1> SUFFICES ASSUME NEW r \in Cuts
             PROVE  /\ r.original_tokens \in Nat /\ r.retained_tokens \in Nat
                    /\ r.discarded_tokens \in Nat
                    /\ r.original_tokens <= r.retained_tokens + r.discarded_tokens
  OBVIOUS
<1>1. PICK result \in Results, left \in Nat : r = Shown(result, left)
  BY DEF Cuts
<1> QED
  BY <1>1, ShownSound DEF SoundReduction

LEMMA NothingLost ==
  ASSUME NEW reductions \in Seq(Cuts)
  PROVE  /\ OriginalOf(reductions) \in Nat /\ SpentOn(reductions) \in Nat
         /\ DiscardedOf(reductions) \in Nat
         /\ OriginalOf(reductions) <= SpentOn(reductions) + DiscardedOf(reductions)
         /\ reductions = <<>> => OriginalOf(reductions) = 0
<1> DEFINE n == Len(reductions)
           v == Originals(reductions)
           w == Retained(reductions)
           x == Discarded(reductions)
<1>1. n \in Nat /\ DOMAIN reductions = 1..n /\ \A k \in 1..n : reductions[k] \in Cuts
  OBVIOUS
<1>2. \A k \in 1..n : /\ v[k] \in Nat /\ w[k] \in Nat /\ x[k] \in Nat
                      /\ v[k] <= w[k] + x[k]
  BY <1>1, CutsSound DEF Originals, Retained, Discarded
<1>3. PICK o : Runs(o, v, n, OriginalOf(reductions))
  BY CutsSound, OriginalRuns
<1>4. PICK r : Runs(r, w, n, SpentOn(reductions))
  BY CutsSound, SpentRuns
<1>5. PICK d : Runs(d, x, n, DiscardedOf(reductions))
  BY CutsSound, DiscardedRuns
<1> HIDE DEF n, v, w, x
<1> DEFINE T == {k \in 0..n : o[k] <= r[k] + d[k]}
<1>6. \A k \in 0..n : k \in T
  <2>1. 0 \in T
    BY <1>1, <1>3, <1>4, <1>5 DEF Runs
  <2>2. ASSUME NEW k \in 0..(n - 1), k \in T PROVE k + 1 \in T
    <3>1. k \in 0..n /\ k + 1 \in 1..n /\ k + 1 \in 0..n
      BY <1>1
    <3>2. o[k] \in Nat /\ r[k] \in Nat /\ d[k] \in Nat
      BY <1>3, <1>4, <1>5, <3>1 DEF Runs
    <3>3. o[k + 1] = o[k] + v[k + 1] /\ r[k + 1] = r[k] + w[k + 1] /\ d[k + 1] = d[k] + x[k + 1]
      BY <1>3, <1>4, <1>5 DEF Runs
    <3>a. o[k] <= r[k] + d[k]
      BY <2>2
    <3>b. /\ v[k + 1] \in Nat /\ w[k + 1] \in Nat /\ x[k + 1] \in Nat
          /\ v[k + 1] <= w[k + 1] + x[k + 1]
      BY <1>2, <3>1
    <3>4. o[k] + v[k + 1] <= (r[k] + w[k + 1]) + (d[k] + x[k + 1])
      <4> HIDE DEF T
      <4> QED
        BY <3>a, <3>b, <3>2, SMTT(30)
    <3>5. o[k + 1] <= r[k + 1] + d[k + 1]
      <4> HIDE DEF T
      <4> QED
        BY <3>3, <3>4
    <3> QED
      BY <3>1, <3>5
  <2> HIDE DEF T
  <2> QED
    BY <1>1, <2>1, <2>2, PrefixInduction
<1>7. n \in 0..n /\ (reductions = <<>> => n = 0)
  BY <1>1 DEF n
<1> QED
  BY <1>3, <1>4, <1>5, <1>6, <1>7 DEF Runs

(* What the analysis of a trace adds up.                                   *)
Behaviors == [preparations : Nat, retained : Nat, removed : Nat, original_tokens : Nat,
              retained_tokens : Nat, discarded_tokens : Nat, retrieval_queries : Nat,
              repeated_retrievals : Nat, compactions : Nat, queries : SUBSET {NoQuery}]

LEMMA PreparationTallied ==
  ASSUME NEW b \in Behaviors, NEW audit \in Audits,
         IsFiniteSet(audit.retained), IsFiniteSet(audit.removed)
  PROVE  LET after == Preparation(b, audit)
         IN  /\ after \in Behaviors
             /\ after.preparations = b.preparations + 1
             /\ after.retained = b.retained + Cardinality(audit.retained)
             /\ after.removed = b.removed + Cardinality(audit.removed)
             /\ after.original_tokens = b.original_tokens + OriginalOf(audit.reductions)
             /\ after.retained_tokens = b.retained_tokens + SpentOn(audit.reductions)
             /\ after.discarded_tokens = b.discarded_tokens + DiscardedOf(audit.reductions)
<1> DEFINE kept == Cardinality(audit.retained)
           cut == Cardinality(audit.removed)
           original == OriginalOf(audit.reductions)
           spent == SpentOn(audit.reductions)
           discarded == DiscardedOf(audit.reductions)
           after == [b EXCEPT !.preparations = @ + 1, !.retained = @ + kept,
                              !.removed = @ + cut, !.original_tokens = @ + original,
                              !.retained_tokens = @ + spent,
                              !.discarded_tokens = @ + discarded]
<1>1. Preparation(b, audit) = after
  BY DEF Preparation, OriginalOf, SpentOn, DiscardedOf
<1>2. kept \in Nat /\ cut \in Nat
  BY FS_CardinalityType
<1>3. original \in Nat /\ spent \in Nat /\ discarded \in Nat
  BY NothingLost DEF Audits
<1> HIDE DEF kept, cut, original, spent, discarded
<1>4. /\ b.preparations + 1 \in Nat /\ b.retained + kept \in Nat /\ b.removed + cut \in Nat
      /\ b.original_tokens + original \in Nat /\ b.retained_tokens + spent \in Nat
      /\ b.discarded_tokens + discarded \in Nat
  BY <1>2, <1>3 DEF Behaviors
<1>5. after \in Behaviors
  BY <1>4 DEF Behaviors
<1>6. /\ after.preparations = b.preparations + 1
      /\ after.retained = b.retained + kept /\ after.removed = b.removed + cut
      /\ after.original_tokens = b.original_tokens + original
      /\ after.retained_tokens = b.retained_tokens + spent
      /\ after.discarded_tokens = b.discarded_tokens + discarded
  BY DEF Behaviors
<1> HIDE DEF after
<1> QED
  BY <1>1, <1>5, <1>6 DEF kept, cut, original, spent, discarded

(* A step of the analysis over an event that is no preparation.            *)
Elsewhere(b, entry) ==
  CASE entry.kind = "retrieval"  -> Retrieval(b, entry.query)
    [] entry.kind = "compaction" -> [b EXCEPT !.compactions = @ + 1]
    [] OTHER -> b

LEMMA ElsewhereTallied ==
  ASSUME NEW b \in Behaviors, NEW entry, entry.query = NoQuery
  PROVE  LET after == Elsewhere(b, entry)
         IN  /\ after \in Behaviors
             /\ after.preparations = b.preparations
             /\ after.retained = b.retained /\ after.removed = b.removed
             /\ after.original_tokens = b.original_tokens
             /\ after.retained_tokens = b.retained_tokens
             /\ after.discarded_tokens = b.discarded_tokens
<1>1. CASE entry.kind = "retrieval"
  <2> DEFINE after == [b EXCEPT !.retrieval_queries = @ + 1,
                                !.repeated_retrievals = IF NoQuery \in b.queries THEN @ + 1 ELSE @,
                                !.queries = @ \cup {NoQuery}]
  <2>1. Elsewhere(b, entry) = after
    BY <1>1 DEF Elsewhere, Retrieval
  <2>a. /\ b.retrieval_queries + 1 \in Nat /\ b.repeated_retrievals \in Nat
        /\ b.repeated_retrievals + 1 \in Nat
        /\ b.queries \cup {NoQuery} \in SUBSET {NoQuery}
    BY DEF Behaviors
  <2>b. after \in Behaviors
    BY <2>a DEF Behaviors
  <2>c. /\ after.preparations = b.preparations
        /\ after.retained = b.retained /\ after.removed = b.removed
        /\ after.original_tokens = b.original_tokens
        /\ after.retained_tokens = b.retained_tokens
        /\ after.discarded_tokens = b.discarded_tokens
    BY DEF Behaviors
  <2>2. /\ after \in Behaviors
        /\ after.preparations = b.preparations
        /\ after.retained = b.retained /\ after.removed = b.removed
        /\ after.original_tokens = b.original_tokens
        /\ after.retained_tokens = b.retained_tokens
        /\ after.discarded_tokens = b.discarded_tokens
    BY <2>b, <2>c
  <2> HIDE DEF after
  <2> QED
    BY <2>1, <2>2
<1>2. CASE entry.kind = "compaction"
  <2>1. Elsewhere(b, entry) = [b EXCEPT !.compactions = @ + 1]
    BY <1>2 DEF Elsewhere
  <2> QED
    BY <2>1 DEF Behaviors
<1>3. CASE entry.kind \notin {"retrieval", "compaction"}
  BY <1>3 DEF Elsewhere
<1> QED
  BY <1>1, <1>2, <1>3

(* The preparations among the first events of a trace.                     *)
Preparations(trace, k) == Cardinality({j \in 1..k : trace[j].kind = "context_prepared"})

LEMMA PreparationsCounted ==
  ASSUME NEW trace, NEW n \in Nat
  PROVE  /\ Preparations(trace, 0) = 0
         /\ \A k \in 0..n : Preparations(trace, k) \in Nat
         /\ \A k \in 0..(n - 1) :
              Preparations(trace, k + 1) = Preparations(trace, k)
                + (IF trace[k + 1].kind = "context_prepared" THEN 1 ELSE 0)
         /\ \A k \in 0..n : Preparations(trace, k) <= Preparations(trace, n)
<1> DEFINE P(k) == {j \in 1..k : trace[j].kind = "context_prepared"}
<1>1. \A k \in Nat : IsFiniteSet(P(k)) /\ Cardinality(P(k)) \in Nat
  <2> SUFFICES ASSUME NEW k \in Nat PROVE IsFiniteSet(P(k)) /\ Cardinality(P(k)) \in Nat
    OBVIOUS
  <2>1. IsFiniteSet(1..k) /\ P(k) \in SUBSET (1..k)
    BY FS_Interval
  <2> QED
    BY <2>1, FS_Subset, FS_CardinalityType
<1>2. Cardinality(P(0)) = 0
  <2>1. P(0) = {}
    OBVIOUS
  <2> QED
    BY <2>1, FS_EmptySet
<1>3. ASSUME NEW k \in 0..(n - 1)
      PROVE  Cardinality(P(k + 1)) = Cardinality(P(k))
               + (IF trace[k + 1].kind = "context_prepared" THEN 1 ELSE 0)
  <2>1. /\ k \in Nat /\ k + 1 \notin 1..k
        /\ \A j : j \in 1..(k + 1) <=> j \in 1..k \/ j = k + 1
    OBVIOUS
  <2>2. P(k + 1) = IF trace[k + 1].kind = "context_prepared" THEN P(k) \cup {k + 1} ELSE P(k)
    BY <2>1
  <2>3. k + 1 \notin P(k)
    BY <2>1
  <2>4. IsFiniteSet(P(k)) /\ Cardinality(P(k)) \in Nat
    BY <1>1, <2>1
  <2> HIDE DEF P
  <2>5. Cardinality(P(k) \cup {k + 1}) = Cardinality(P(k)) + 1
    BY <2>3, <2>4, FS_AddElement
  <2> QED
    BY <2>2, <2>4, <2>5
<1>4. ASSUME NEW k \in 0..n PROVE Cardinality(P(k)) <= Cardinality(P(n))
  <2>1. P(k) \in SUBSET P(n)
    OBVIOUS
  <2>2. IsFiniteSet(P(n))
    BY <1>1
  <2> HIDE DEF P
  <2> QED
    BY <2>1, <2>2, FS_Subset
<1>5. \A k : Preparations(trace, k) = Cardinality(P(k))
  BY DEF Preparations
<1> HIDE DEF P
<1> QED
  BY <1>1, <1>2, <1>3, <1>4, <1>5

LEMMA DividesWhole ==
  ASSUME NEW audit \in Audits, NEW n \in Nat, Divides(audit, n)
  PROVE  /\ IsFiniteSet(audit.retained) /\ IsFiniteSet(audit.removed)
         /\ Cardinality(audit.retained) \in Nat /\ Cardinality(audit.removed) \in Nat
         /\ Cardinality(audit.retained) + Cardinality(audit.removed) = n
<1> DEFINE kept == audit.retained
           cut == audit.removed
<1>1. kept \cup cut = 0..(n - 1) /\ kept \cap cut = {}
  BY DEF Divides
<1>2. IsFiniteSet(0..(n - 1)) /\ Cardinality(0..(n - 1)) = n
  BY FS_Interval
<1> HIDE DEF kept, cut
<1>3. kept \in SUBSET (0..(n - 1)) /\ cut \in SUBSET (0..(n - 1))
  BY <1>1
<1>4. IsFiniteSet(kept) /\ IsFiniteSet(cut)
  BY <1>2, <1>3, FS_Subset
<1>5. Cardinality(kept) \in Nat /\ Cardinality(cut) \in Nat
  BY <1>4, FS_CardinalityType
<1>6. Cardinality(kept \cap cut) = 0
  BY <1>1, FS_EmptySet
<1>7. Cardinality(kept \cup cut) = Cardinality(kept) + Cardinality(cut) - Cardinality(kept \cap cut)
  BY <1>4, FS_Union
<1>8. Cardinality(kept \cup cut) = n
  BY <1>1, <1>2
<1>9. Cardinality(kept) + Cardinality(cut) = n
  BY <1>5, <1>6, <1>7, <1>8
<1> QED
  BY <1>4, <1>5, <1>9 DEF kept, cut

LEMMA SumsRegrouped ==
  ASSUME NEW a \in Nat, NEW b \in Nat, NEW c \in Nat, NEW d \in Nat
  PROVE  (a + c) + (b + d) = (a + b) + (c + d)
OBVIOUS

LEMMA BoundsAdded ==
  ASSUME NEW x \in Nat, NEW y \in Nat, NEW v \in Nat, NEW w \in Nat, x <= y, v <= w
  PROVE  x + v <= y + w
  OBVIOUS

LEMMA BehaviorAnalysed ==
  ASSUME NEW n \in Nat, NEW trace, DOMAIN trace = 1..n,
         \A i \in 1..n : trace[i].query = NoQuery,
         NEW shown \in Seq(Audits), \A a \in 1..Len(shown) : Divides(shown[a], 2 * a),
         \A i \in 1..n : trace[i].kind = "context_prepared" =>
                           trace[i].audit = shown[Preparations(trace, i)],
         Preparations(trace, n) = Len(shown)
  PROVE  LET b == AnalyzeContextBehavior(trace)
             m == Len(shown)
         IN  /\ b.preparations = m
             /\ b.retained + b.removed = m * (m + 1)
             /\ b.original_tokens <= b.retained_tokens + b.discarded_tokens
             /\ (\A a \in 1..m : shown[a].removed = {} /\ shown[a].reductions = <<>>) =>
                  b.removed = 0 /\ b.original_tokens = 0
<1> DEFINE Op(b, entry) ==
             CASE entry.kind = "context_prepared" -> Preparation(b, entry.audit)
               [] entry.kind = "retrieval"        -> Retrieval(b, entry.query)
               [] entry.kind = "compaction"       -> [b EXCEPT !.compactions = @ + 1]
               [] OTHER -> b
           F == [pair \in (1..n) \X Behaviors |-> Op(pair[2], trace[pair[1]])]
           c == [k \in 0..n |-> Preparations(trace, k)]
<1>1. /\ \A k \in 0..n : c[k] = Preparations(trace, k) /\ c[k] \in Nat /\ c[k] <= Len(shown)
      /\ c[0] = 0 /\ c[n] = Len(shown)
      /\ \A k \in 0..(n - 1) :
           c[k + 1] = c[k] + (IF trace[k + 1].kind = "context_prepared" THEN 1 ELSE 0)
  <2>1. n \in 0..n /\ 0 \in 0..n /\ \A k \in 0..(n - 1) : k \in 0..n /\ k + 1 \in 0..n
    OBVIOUS
  <2> QED
    BY <2>1, PreparationsCounted
<1>2. \A i \in 1..n, b \in Behaviors : F[<<i, b>>] = Op(b, trace[i])
  OBVIOUS
<1>3. ASSUME NEW b, NEW i, trace[i].kind = "context_prepared"
      PROVE  Op(b, trace[i]) = Preparation(b, trace[i].audit)
  BY <1>3
<1>4. ASSUME NEW b, NEW i, trace[i].kind # "context_prepared"
      PROVE  Op(b, trace[i]) = Elsewhere(b, trace[i])
  BY <1>4 DEF Elsewhere
<1> HIDE DEF F, Op, c
<1>5. ASSUME NEW k \in 0..(n - 1), trace[k + 1].kind = "context_prepared"
      PROVE  /\ c[k + 1] = c[k] + 1 /\ c[k + 1] \in 1..Len(shown) /\ c[k] \in Nat
             /\ trace[k + 1].audit = shown[c[k + 1]] /\ shown[c[k + 1]] \in Audits
             /\ Divides(shown[c[k + 1]], 2 * c[k + 1]) /\ 2 * c[k + 1] \in Nat
  <2>1. k \in 0..n /\ k + 1 \in 0..n /\ k + 1 \in 1..n
    OBVIOUS
  <2>2. c[k + 1] = c[k] + 1 /\ c[k] \in Nat /\ c[k + 1] <= Len(shown)
        /\ c[k + 1] = Preparations(trace, k + 1)
    BY <1>1, <1>5, <2>1
  <2>3. c[k + 1] \in 1..Len(shown)
    BY <2>2
  <2> QED
    BY <1>5, <2>1, <2>2, <2>3
<1>6. ASSUME NEW i \in 1..n, NEW b \in Behaviors PROVE Op(b, trace[i]) \in Behaviors
  <2>1. CASE trace[i].kind = "context_prepared"
    <3>1. PICK k \in 0..(n - 1) : i = k + 1
      <4>1. i - 1 \in 0..(n - 1) /\ i = (i - 1) + 1
        OBVIOUS
      <4> QED
        BY <4>1
    <3> DEFINE audit == trace[i].audit
               m == 2 * c[k + 1]
    <3>2. audit \in Audits /\ Divides(audit, m) /\ m \in Nat
      BY <1>5, <2>1, <3>1
    <3>3. Op(b, trace[i]) = Preparation(b, audit)
      BY <1>3, <2>1
    <3> HIDE DEF audit, m
    <3>4. IsFiniteSet(audit.retained) /\ IsFiniteSet(audit.removed)
      BY <3>2, DividesWhole
    <3>5. Preparation(b, audit) \in Behaviors
      BY <3>2, <3>4, PreparationTallied
    <3> QED
      BY <3>3, <3>5
  <2>2. CASE trace[i].kind # "context_prepared"
    <3> DEFINE entry == trace[i]
    <3>1. Op(b, trace[i]) = Elsewhere(b, entry) /\ entry.query = NoQuery
      BY <1>4, <2>2
    <3> HIDE DEF entry
    <3>2. Elsewhere(b, entry) \in Behaviors
      BY <3>1, ElsewhereTallied
    <3> QED
      BY <3>1, <3>2
  <2> QED
    BY <2>1, <2>2
<1>7. Maps(F, 1..n, Behaviors)
  BY <1>2, <1>6 DEF Maps
<1>8. ContextBehavior \in Behaviors
  BY DEF ContextBehavior, Behaviors
<1>9. PICK g : IsFold(g, 1..n, [s \in SUBSET (1..n) |-> Max(s)], Behaviors, ContextBehavior, F)
  BY <1>7, <1>8, LeftFoldExists
<1>10. g = [s \in SUBSET (1..n) |-> IF s = {} THEN ContextBehavior
                                    ELSE Op(g[s \ {Max(s)}], trace[Max(s)])]
  <2>1. ASSUME NEW s \in SUBSET (1..n), s # {}
        PROVE  g[s] = Op(g[s \ {Max(s)}], trace[Max(s)])
    <3>1. Max(s) \in 1..n
      BY <2>1, MaxOfSome
    <3>2. g[s] = F[<<Max(s), g[s \ {Max(s)}]>>] /\ g[s \ {Max(s)}] \in Behaviors
      BY <1>9, <2>1 DEF IsFold
    <3> QED
      BY <1>2, <3>1, <3>2
  <2> QED
    BY <1>9, <2>1 DEF IsFold
<1>11. PICK h : /\ h = [s \in SUBSET (1..n) |-> IF s = {} THEN ContextBehavior
                                                ELSE Op(h[s \ {Max(s)}], trace[Max(s)])]
                /\ AnalyzeContextBehavior(trace) = h[1..n]
  BY <1>10, ZenonT(60) DEF AnalyzeContextBehavior, FoldLeft, MapThenFoldSet, Op
<1>12. PICK p : StepsTo(p, n, Behaviors, ContextBehavior, F, h[1..n])
  <2>1. h[{}] = ContextBehavior
    BY <1>11
  <2>2. ASSUME NEW s \in SUBSET (1..n), s # {}, h[s \ {Max(s)}] \in Behaviors
        PROVE  h[s] = F[<<Max(s), h[s \ {Max(s)}]>>]
    <3>1. Max(s) \in 1..n
      BY <2>2, MaxOfSome
    <3>2. h[s] = Op(h[s \ {Max(s)}], trace[Max(s)])
      BY <1>11, <2>2
    <3> QED
      BY <1>2, <2>2, <3>1, <3>2
  <2>3. \E p : StepsTo(p, n, Behaviors, ContextBehavior, F, h[1..n])
    BY <1>7, <1>8, <2>1, <2>2, LeftFoldSteps
  <2> QED
    BY <2>3
<1>13. /\ p \in [0..n -> Behaviors] /\ p[0] = ContextBehavior
       /\ p[n] = AnalyzeContextBehavior(trace)
       /\ \A k \in 0..(n - 1) : p[k + 1] = F[<<k + 1, p[k]>>]
  BY <1>11, <1>12 DEF Steps, StepsTo
<1> DEFINE Plain == \A a \in 1..Len(shown) : shown[a].removed = {} /\ shown[a].reductions = <<>>
           Good(b, m) == /\ b.preparations = m
                         /\ b.retained + b.removed = m * (m + 1)
                         /\ b.original_tokens <= b.retained_tokens + b.discarded_tokens
                         /\ Plain => b.removed = 0 /\ b.original_tokens = 0
           T == {k \in 0..n : Good(p[k], c[k])}
<1>14. 0 \in T
  <2>1. Good(ContextBehavior, 0)
    BY DEF ContextBehavior
  <2> HIDE DEF Good
  <2> QED
    BY <1>1, <1>13, <2>1
<1>15. ASSUME NEW k \in 0..(n - 1), k \in T PROVE k + 1 \in T
  <2>1. k \in 0..n /\ k + 1 \in 1..n /\ k + 1 \in 0..n
    OBVIOUS
  <2>2. p[k] \in Behaviors /\ p[k + 1] = Op(p[k], trace[k + 1])
    BY <1>2, <1>13, <2>1
  <2>3. Good(p[k], c[k]) /\ c[k] \in Nat
    BY <1>1, <1>15, <2>1
  <2> DEFINE b == p[k]
             m == c[k]
             after == p[k + 1]
  <2>4. /\ b.retained \in Nat /\ b.removed \in Nat /\ b.original_tokens \in Nat
        /\ b.retained_tokens \in Nat /\ b.discarded_tokens \in Nat
    BY <2>2 DEF Behaviors
  <2>5. CASE trace[k + 1].kind = "context_prepared"
    <3> DEFINE audit == shown[m + 1]
    <3>1. /\ c[k + 1] = m + 1 /\ m + 1 \in 1..Len(shown)
          /\ trace[k + 1].audit = audit /\ audit \in Audits
          /\ Divides(audit, 2 * (m + 1)) /\ 2 * (m + 1) \in Nat
      BY <1>5, <2>5
    <3>2. after = Preparation(b, audit)
      <4>1. Op(b, trace[k + 1]) = Preparation(b, trace[k + 1].audit)
        BY <1>3, <2>5
      <4> HIDE DEF audit
      <4> QED
        BY <2>2, <3>1, <4>1
    <3> DEFINE kept == Cardinality(audit.retained)
               cut == Cardinality(audit.removed)
    <3>3. /\ IsFiniteSet(audit.retained) /\ IsFiniteSet(audit.removed)
          /\ kept \in Nat /\ cut \in Nat /\ kept + cut = 2 * (m + 1)
      <4> HIDE DEF audit
      <4> QED
        BY <3>1, DividesWhole
    <3> DEFINE original == OriginalOf(audit.reductions)
               spent == SpentOn(audit.reductions)
               discarded == DiscardedOf(audit.reductions)
    <3>4. /\ original \in Nat /\ spent \in Nat /\ discarded \in Nat
          /\ original <= spent + discarded
          /\ audit.reductions = <<>> => original = 0
      <4>1. audit.reductions \in Seq(Cuts)
        BY <3>1 DEF Audits
      <4> QED
        BY <4>1, NothingLost
    <3>5. /\ after.preparations = b.preparations + 1
          /\ after.retained = b.retained + kept
          /\ after.removed = b.removed + cut
          /\ after.original_tokens = b.original_tokens + original
          /\ after.retained_tokens = b.retained_tokens + spent
          /\ after.discarded_tokens = b.discarded_tokens + discarded
      <4> HIDE DEF audit, after, b
      <4> QED
        BY <2>2, <3>1, <3>2, <3>3, PreparationTallied DEF b
    <3>6. Plain => cut = 0 /\ original = 0
      <4>1. Plain => audit.removed = {} /\ audit.reductions = <<>>
        BY <3>1
      <4> QED
        BY <3>4, <4>1, FS_EmptySet
    <3>7. (m + 1) * ((m + 1) + 1) = m * (m + 1) + 2 * (m + 1)
      BY <2>3
    <3>8. m * (m + 1) \in Nat
      BY <2>3
    <3> HIDE DEF audit, kept, cut, original, spent, discarded, Plain, after
    <3> HIDE DEF Op, F, c, T
    <3>9. /\ b.preparations = m /\ b.retained + b.removed = m * (m + 1)
          /\ b.original_tokens <= b.retained_tokens + b.discarded_tokens
          /\ Plain => b.removed = 0 /\ b.original_tokens = 0
      BY <2>3
    <3>a. after.preparations = m + 1
      BY <3>5, <3>9
    <3>b. after.retained + after.removed = (m + 1) * ((m + 1) + 1)
      <4> DEFINE product == m * (m + 1)
                 next == (m + 1) * ((m + 1) + 1)
                 twice == 2 * (m + 1)
      <4>1. product \in Nat /\ next = product + twice /\ kept + cut = twice
            /\ b.retained + b.removed = product
        BY <3>3, <3>7, <3>8, <3>9
      <4> HIDE DEF product, next, twice
      <4>2. after.retained + after.removed = (b.retained + b.removed) + (kept + cut)
        <5>1. (b.retained + kept) + (b.removed + cut) = (b.retained + b.removed) + (kept + cut)
          <6>1. PICK x \in Nat, y \in Nat : x = b.retained /\ y = b.removed
            BY <2>4
          <6>2. (x + kept) + (y + cut) = (x + y) + (kept + cut)
            BY <3>3
          <6> QED
            BY <6>1, <6>2
        <5> QED
          BY <3>5, <5>1
      <4>3. after.retained + after.removed = next
        BY <4>1, <4>2
      <4> QED
        BY <4>3 DEF next
    <3>c. after.original_tokens <= after.retained_tokens + after.discarded_tokens
      <4>1. (b.retained_tokens + spent) + (b.discarded_tokens + discarded) =
              (b.retained_tokens + b.discarded_tokens) + (spent + discarded)
        <5>1. PICK x \in Nat, y \in Nat : x = b.retained_tokens /\ y = b.discarded_tokens
          BY <2>4
        <5>2. (x + spent) + (y + discarded) = (x + y) + (spent + discarded)
          BY <3>4, SumsRegrouped
        <5> QED
          BY <5>1, <5>2
      <4>a. b.retained_tokens + b.discarded_tokens \in Nat /\ spent + discarded \in Nat
            /\ b.original_tokens <= b.retained_tokens + b.discarded_tokens
        BY <2>4, <3>4, <3>9, SMTT(30)
      <4>2. b.original_tokens + original <=
              (b.retained_tokens + b.discarded_tokens) + (spent + discarded)
        BY <2>4, <3>4, <4>a, BoundsAdded
      <4> QED
        BY <3>5, <4>1, <4>2
    <3>d. Plain => after.removed = 0 /\ after.original_tokens = 0
      BY <3>5, <3>6, <3>9
    <3>e. Good(p[k + 1], c[k + 1])
      BY <3>1, <3>a, <3>b, <3>c, <3>d DEF after
    <3> QED
      BY <2>1, <3>e DEF T
  <2>6. CASE trace[k + 1].kind # "context_prepared"
    <3>1. c[k + 1] = c[k]
      BY <1>1, <2>3, <2>6
    <3>2. after = Elsewhere(b, trace[k + 1]) /\ trace[k + 1].query = NoQuery
      BY <1>4, <2>1, <2>2, <2>6
    <3>3. /\ after.preparations = b.preparations
          /\ after.retained = b.retained /\ after.removed = b.removed
          /\ after.original_tokens = b.original_tokens
          /\ after.retained_tokens = b.retained_tokens
          /\ after.discarded_tokens = b.discarded_tokens
      <4> HIDE DEF after, b
      <4> QED
        BY <2>2, <3>2, ElsewhereTallied DEF b
    <3>4. Good(p[k + 1], c[k + 1])
      <4> HIDE DEF Plain
      <4> QED
        BY <2>3, <3>1, <3>3
    <3> QED
      BY <2>1, <3>4
  <2> QED
    BY <2>5, <2>6
<1>16. n \in T
  <2> HIDE DEF T
  <2>1. \A k \in 0..n : k \in T
    BY <1>14, <1>15, PrefixInduction
  <2> QED
    BY <2>1
<1>17. Good(AnalyzeContextBehavior(trace), Len(shown))
  BY <1>1, <1>13, <1>16
<1> QED
  BY <1>17

----------------------------------------------------------------------------
(* Where a run is, in messages said and preparations shown: an iteration   *)
(* adds one preparation, then a question's answer and the next question.   *)
InPace(place, at, said, shown) ==
  /\ place = "start" => at = 0 /\ said = 0 /\ shown = 0
  /\ place = "prepare" => said = 2 * at + 2 /\ shown = at
  /\ place \in {"request", "awaiting"} => said = 2 * at + 2 /\ shown = at + 1
  /\ place \in {"tool", "execute"} => said = 2 * at + 3 /\ shown = at + 1

(* So the preparation that comes a-th is the one of step a - 1, and names  *)
(* the 2 * a messages said by then.                                        *)
Paced ==
  /\ InPace(pc, step, Len(history), Len(audits))
  /\ Len(audits) = Count(events, "context_prepared")
  /\ \A a \in DOMAIN audits : audits[a].step = a - 1 /\ Divides(audits[a], 2 * a)

(* What a step adds to the preparations of the trace.                      *)
LEMMA UnobservedPrepares ==
  ASSUME TypeOK, Unobserved \/ UNCHANGED allVars
  PROVE  Count(events', "context_prepared") = Count(events, "context_prepared")
<1>a. events \in Seq(AgentEvents) /\ Count(events, "context_prepared") \in Nat
  BY CountNat DEF TypeOK
<1>b. /\ {"inference_response", "status"} \subseteq Kinds
      /\ {"none", "completed"} \subseteq Notes
  BY DEF Kinds, Notes
<1>c. {"wall_clock", "model_requests", "tool_calls", "generated_tokens", "steps"}
        \subseteq LimitReasons
  BY DEF LimitReasons
<1>1. CASE BeforeModel \/ AfterModelRaises \/ BeforeTool \/ StepsExhausted
  <2>1. (\E reason \in LimitReasons : FailLimit(reason)) \/ events' = events
    BY <1>1, <1>c DEF BeforeModel, AfterModelRaises, BeforeTool, StepsExhausted
  <2> QED
    BY <2>1, FailureCounted
<1>2. CASE MalformedDecision \/ ChooseTool
  <2>1. events' = Append(events, Event("inference_response", "none", NoPath))
    BY <1>2 DEF MalformedDecision, ChooseTool, Emit
  <2> QED
    BY <1>a, <1>b, <2>1, EventCounted
<1>3. CASE Finish
  <2> DEFINE answer == Append(events, Event("inference_response", "none", NoPath))
  <2>1. events' = Append(answer, Event("status", "completed", NoPath))
    BY <1>3 DEF Finish
  <2>2. /\ answer \in Seq(AgentEvents)
        /\ Count(answer, "context_prepared") = Count(events, "context_prepared")
    BY <1>a, <1>b, EventCounted
  <2> HIDE DEF answer
  <2> QED
    BY <1>a, <1>b, <2>1, <2>2, EventCounted
<1>4. CASE Start \/ Raise \/ TimeExpires \/ Terminated \/ UNCHANGED allVars
  BY <1>4 DEF Start, Raise, TimeExpires, Terminated, allVars, vars
<1> QED
  BY <1>1, <1>2, <1>3, <1>4 DEF Unobserved

LEMMA PreparationPrepares ==
  ASSUME TypeOK
  PROVE  /\ ContextOverflow("none") =>
              Count(events', "context_prepared") = Count(events, "context_prepared")
         /\ PrepareContext("none") =>
              Count(events', "context_prepared") = Count(events, "context_prepared") + 1
<1>1. /\ events \in Seq(AgentEvents) /\ Count(events, "context_prepared") \in Nat
      /\ {"context_failure", "context_prepared"} \subseteq Kinds /\ "none" \in Notes
  BY CountNat DEF TypeOK, Kinds, Notes
<1>2. ASSUME ContextOverflow("none")
      PROVE  Count(events', "context_prepared") = Count(events, "context_prepared")
  <2>1. events' = Append(events, Event("context_failure", "none", NoPath))
    BY <1>2 DEF ContextOverflow, Emit
  <2> QED
    BY <1>1, <2>1, EventCounted
<1>3. ASSUME PrepareContext("none")
      PROVE  Count(events', "context_prepared") = Count(events, "context_prepared") + 1
  <2>1. policy # "retrieval"
    BY BoundedAssumption DEF TypeOK
  <2>2. events' = Append(events, Event("context_prepared", "none", NoPath))
    BY <1>3, <2>1 DEF PrepareContext, PreparedTrace
  <2> QED
    BY <1>1, <2>2, EventCounted
<1> QED
  BY <1>2, <1>3

LEMMA UnobservedPaced ==
  ASSUME TypeOK, InPace(pc, step, Len(history), Len(audits)), history = <<>> \/ pc # "start",
         Unobserved \/ UNCHANGED allVars
  PROVE  InPace(pc, step, Len(history), Len(audits))'
<1>1. /\ step \in Nat /\ Len(history) \in Nat /\ history \in Seq(Messages) /\ audits' = audits
  BY DEF TypeOK, Unobserved, allVars
<1>2. CASE Start
  <2>1. PICK s, t \in ContentTokens : history' = <<Say("system", s), Say("user", t)>>
    BY <1>2 DEF Start
  <2>2. Len(history') = 2
    BY <2>1
  <2> QED
    BY <1>1, <1>2, <2>2 DEF Start, InPace
<1>3. CASE BeforeModel \/ BeforeTool \/ AfterModelRaises \/ StepsExhausted
  <2>1. /\ UNCHANGED <<step, history>>
        /\ \/ pc' = "done"
           \/ pc = "request" /\ pc' = "awaiting"
           \/ pc = "tool" /\ pc' = "execute"
    BY <1>3 DEF BeforeModel, BeforeTool, AfterModelRaises, StepsExhausted, FailLimit
  <2> QED
    BY <1>1, <2>1 DEF InPace
<1>4. CASE MalformedDecision
  <2>1. PICK a, u \in ContentTokens :
          history' = Append(Append(history, Say("assistant", a)), Say("user", u))
    BY <1>4 DEF MalformedDecision, Correction
  <2>2. Len(history') = Len(history) + 2
    <3>1. {"assistant", "user"} \subseteq Roles
      BY DEF Roles
    <3>2. /\ Append(history, Say("assistant", a)) \in Seq(Messages)
          /\ Len(Append(history, Say("assistant", a))) = Len(history) + 1
      BY <1>1, <3>1, Spoken
    <3>3. Len(history') = (Len(history) + 1) + 1
      BY <2>1, <3>1, <3>2, Spoken
    <3> QED
      BY <1>1, <3>3
  <2>3. pc = "awaiting" /\ (pc' = "exhausted" \/ (pc' = "prepare" /\ step' = step + 1))
    BY <1>4 DEF MalformedDecision, Record, Answer, Advance
  <2> QED
    BY <1>1, <2>2, <2>3 DEF InPace
<1>5. CASE ChooseTool
  <2>1. PICK a \in ContentTokens : history' = Append(history, Say("assistant", a))
    BY <1>5 DEF ChooseTool
  <2>2. Len(history') = Len(history) + 1
    BY <1>1, <2>1, Spoken DEF Roles
  <2>3. pc = "awaiting" /\ pc' = "tool" /\ UNCHANGED step
    BY <1>5 DEF ChooseTool, Record, Answer
  <2> QED
    BY <1>1, <2>2, <2>3 DEF InPace
<1>6. CASE Finish \/ Raise
  BY <1>6 DEF Finish, Raise, InPace
<1>7. CASE TimeExpires \/ Terminated \/ UNCHANGED allVars
  BY <1>1, <1>7 DEF TimeExpires, Terminated, allVars, vars, InPace
<1> QED
  BY <1>2, <1>3, <1>4, <1>5, <1>6, <1>7 DEF Unobserved

LEMMA PacedNext ==
  TypeOK /\ Exchanged /\ Presented /\ Paced /\ [BoundedNext]_allVars => Paced'
<1> SUFFICES ASSUME TypeOK, Exchanged, Presented, Paced, [BoundedNext]_allVars PROVE Paced'
  OBVIOUS
<1>1. /\ step \in Nat /\ history \in Seq(Messages) /\ Len(history) \in Nat
      /\ audits \in Seq(Audits) /\ Len(audits) \in Nat
      /\ InPace(pc, step, Len(history), Len(audits))
      /\ Len(audits) = Count(events, "context_prepared")
      /\ \A a \in DOMAIN audits : audits[a].step = a - 1 /\ Divides(audits[a], 2 * a)
  BY DEF TypeOK, Presented, Paced
<1>2. ASSUME audits' = audits, Count(events', "context_prepared") = Count(events, "context_prepared"),
             InPace(pc, step, Len(history), Len(audits))'
      PROVE  Paced'
  BY <1>1, <1>2 DEF Paced
<1>3. CASE Prepare
  <2>1. CASE ContextOverflow("none") /\ UNCHANGED audits
    <3>1. pc' = "done"
      BY <2>1 DEF ContextOverflow
    <3>2. InPace(pc, step, Len(history), Len(audits))'
      BY <3>1 DEF InPace
    <3> QED
      BY <1>2, <2>1, <3>2, PreparationPrepares
  <2>2. CASE PrepareContext("none") /\ audits' = Append(audits, Audit)
    <3>1. /\ Audit \in Audits /\ Audit.step = step /\ Divides(Audit, Len(history))
      BY AuditSound DEF Presented
    <3>2. PICK last \in Audits : last = Audit
      BY <3>1
    <3>3. pc = "prepare" /\ pc' = "request" /\ UNCHANGED <<step, history>>
      BY <2>2 DEF PrepareContext
    <3>4. Len(history) = 2 * step + 2 /\ Len(audits) = step
      BY <1>1, <3>3 DEF InPace
    <3>5. /\ Len(audits') = step + 1 /\ DOMAIN audits' = 1..(step + 1)
          /\ \A a \in 1..step : a \in DOMAIN audits /\ audits'[a] = audits[a]
          /\ audits'[step + 1] = last
      BY <1>1, <2>2, <3>2, <3>4
    <3>6. InPace(pc, step, Len(history), Len(audits))'
      BY <3>3, <3>4, <3>5 DEF InPace
    <3>7. Len(audits') = Count(events', "context_prepared")
      BY <1>1, <2>2, <3>4, <3>5, PreparationPrepares
    <3>8. last.step = (step + 1) - 1 /\ Divides(last, 2 * (step + 1))
      <4>1. 2 * (step + 1) = 2 * step + 2 /\ (step + 1) - 1 = step
        BY <1>1
      <4> QED
        BY <3>1, <3>2, <3>4, <4>1
    <3>9. ASSUME NEW a \in DOMAIN audits'
          PROVE  audits'[a].step = a - 1 /\ Divides(audits'[a], 2 * a)
      <4>1. CASE a = step + 1
        BY <3>5, <3>8, <4>1
      <4>2. CASE a \in 1..step
        BY <1>1, <3>5, <4>2
      <4> QED
        BY <1>1, <3>5, <4>1, <4>2
    <3>10. (\A a \in DOMAIN audits : audits[a].step = a - 1 /\ Divides(audits[a], 2 * a))'
      BY <3>9 DEF Divides
    <3> QED
      BY <3>6, <3>7, <3>10 DEF Paced
  <2> QED
    BY <1>3, <2>1, <2>2 DEF Prepare
<1>4. CASE ExecuteWithResult
  <2>0. PICK tool \in Tools : \E path \in PathsNamed(tool) : ExecuteTool(tool, path)
    BY <1>4 DEF ExecuteWithResult
  <2>1. PICK path \in PathsNamed(tool) : ExecuteTool(tool, path)
    BY <2>0
  <2>2. PICK t \in ContentTokens : history' = Append(history, Say("tool", t))
    BY <2>1 DEF ExecuteTool
  <2>3. Len(history') = Len(history) + 1
    BY <1>1, <2>2, Spoken DEF Roles
  <2>4. /\ pc = "execute" /\ (pc' = "exhausted" \/ (pc' = "prepare" /\ step' = step + 1))
        /\ audits' = audits
    BY <1>4, <2>1 DEF ExecuteWithResult, ExecuteTool, Advance
  <2>5. InPace(pc, step, Len(history), Len(audits))'
    <3>1. Len(history) = 2 * step + 3 /\ Len(audits) = step + 1
      BY <1>1, <2>4 DEF InPace
    <3>2. Len(history') = 2 * (step + 1) + 2 /\ Len(audits') = step + 1
      BY <1>1, <2>3, <2>4, <3>1
    <3> QED
      BY <2>4, <3>2 DEF InPace
  <2>6. Count(events', "context_prepared") = Count(events, "context_prepared")
    <3>1. Count(events, "context_prepared") \in Nat
      BY CountNat DEF TypeOK
    <3> QED
      BY <2>1, <3>1, ExecutedCounted
  <2> QED
    BY <1>2, <2>4, <2>5, <2>6
<1>5. CASE Unobserved \/ UNCHANGED allVars
  <2>1. history = <<>> \/ pc # "start"
    BY DEF Exchanged, Turns
  <2>2. InPace(pc, step, Len(history), Len(audits))'
    BY <1>1, <1>5, <2>1, UnobservedPaced
  <2>3. audits' = audits
    BY <1>5 DEF Unobserved, allVars
  <2> QED
    BY <1>2, <1>5, <2>2, <2>3, UnobservedPrepares
<1> QED
  BY <1>3, <1>4, <1>5 DEF BoundedNext

LEMMA PacedInvariant == BoundedSpec => []Paced
<1>1. BoundedInit => Paced
  <2> SUFFICES ASSUME BoundedInit PROVE Paced
    OBVIOUS
  <2>1. {i \in DOMAIN events : events[i].kind = "context_prepared"} = {}
    BY DEF BoundedInit, Init
  <2>2. Count(events, "context_prepared") = 0
    BY <2>1, FS_EmptySet DEF Count
  <2> QED
    BY <2>2 DEF BoundedInit, Init, Paced, InPace
<1>2. BoundedSpec => []TypeOK
  BY BoundedImplementsLoop, TypeCorrect, PTL
<1>3. BoundedSpec => []Exchanged
  BY BoundedImplementsLoop, ExchangedInvariant, PTL
<1> QED
  BY <1>1, <1>2, <1>3, PresentedInvariant, PacedNext, PTL DEF BoundedSpec

(* Whatever was cut, what the analysis rebuilds from the trace is what the *)
(* run did: each message of each preparation is counted once, and no token *)
(* of a tool result goes missing between what was kept and what was not.   *)
THEOREM BehaviorIsTheRuns == BoundedSpec => []BehaviorAgreesWithRun
<1>1. TypeOK /\ Presented /\ Paced => BehaviorAgreesWithRun
  <2> SUFFICES ASSUME TypeOK, Presented, Paced PROVE BehaviorAgreesWithRun
    OBVIOUS
  <2> DEFINE n == Len(events)
             trace == Trace
  <2>1. /\ n \in Nat /\ DOMAIN events = 1..n /\ audits \in Seq(Audits)
        /\ DOMAIN audits = 1..Len(audits)
        /\ Len(audits) = Count(events, "context_prepared")
        /\ \A a \in 1..Len(audits) : Divides(audits[a], 2 * a)
    <3>1. events \in Seq(AgentEvents) /\ audits \in Seq(Audits)
      BY DEF TypeOK, Presented
    <3> QED
      BY <3>1 DEF Paced
  <2>2. /\ DOMAIN trace = 1..n
        /\ \A i \in 1..n : /\ trace[i].query = NoQuery /\ trace[i].kind = events[i].kind
                           /\ trace[i].kind = "context_prepared" =>
                                trace[i].audit = audits[Nth("context_prepared", i)]
    BY <2>1 DEF Trace
  <2> HIDE DEF trace
  <2>3. \A i \in 0..n : Preparations(trace, i) = Nth("context_prepared", i)
    <3> SUFFICES ASSUME NEW i \in 0..n
                 PROVE  {j \in 1..i : trace[j].kind = "context_prepared"} =
                          {j \in 1..i : events[j].kind = "context_prepared"}
      BY DEF Preparations, Nth
    <3>1. 1..i \subseteq 1..n
      BY <2>1
    <3> QED
      BY <2>2, <3>1
  <2>4. Preparations(trace, n) = Len(audits)
    <3>1. Nth("context_prepared", n) = Count(events, "context_prepared")
      BY <2>1 DEF Nth, Count
    <3>2. n \in 0..n
      BY <2>1
    <3> QED
      BY <2>1, <2>3, <3>1, <3>2
  <2>5. \A i \in 1..n : trace[i].kind = "context_prepared" =>
                          trace[i].audit = audits[Preparations(trace, i)]
    <3>1. 1..n \subseteq 0..n
      BY <2>1
    <3> QED
      BY <2>2, <2>3, <3>1
  <2>6. policy = "full-history" =>
          \A a \in 1..Len(audits) : audits[a].removed = {} /\ audits[a].reductions = <<>>
    BY <2>1 DEF Presented, Shows
  <2> DEFINE b == AnalyzeContextBehavior(trace)
             m == Len(audits)
  <2>7. /\ b.preparations = m
        /\ b.retained + b.removed = m * (m + 1)
        /\ b.original_tokens <= b.retained_tokens + b.discarded_tokens
        /\ (\A a \in 1..m : audits[a].removed = {} /\ audits[a].reductions = <<>>) =>
             b.removed = 0 /\ b.original_tokens = 0
    <3>1. n \in Nat /\ DOMAIN trace = 1..n /\ \A i \in 1..n : trace[i].query = NoQuery
      BY <2>1, <2>2
    <3>2. PICK k \in Nat : k = n
      BY <3>1
    <3>3. PICK t : t = trace
      OBVIOUS
    <3>4. PICK shown \in Seq(Audits) : shown = audits
      BY <2>1
    <3> HIDE DEF n
    <3>5. /\ DOMAIN t = 1..k /\ \A i \in 1..k : t[i].query = NoQuery
          /\ \A a \in 1..Len(shown) : Divides(shown[a], 2 * a)
          /\ \A i \in 1..k : t[i].kind = "context_prepared" =>
                               t[i].audit = shown[Preparations(t, i)]
          /\ Preparations(t, k) = Len(shown)
      BY <2>1, <2>4, <2>5, <3>1, <3>2, <3>3, <3>4
    <3>6. LET c == AnalyzeContextBehavior(t)
              l == Len(shown)
          IN  /\ c.preparations = l
              /\ c.retained + c.removed = l * (l + 1)
              /\ c.original_tokens <= c.retained_tokens + c.discarded_tokens
              /\ (\A a \in 1..l : shown[a].removed = {} /\ shown[a].reductions = <<>>) =>
                   c.removed = 0 /\ c.original_tokens = 0
      BY <3>5, BehaviorAnalysed
    <3> QED
      BY <3>3, <3>4, <3>6
  <2> HIDE DEF b
  <2>8. b = AnalyzeContextBehavior(Trace) /\ m = Count(events, "context_prepared")
    BY <2>1 DEF b, trace
  <2> QED
    BY <2>6, <2>7, <2>8 DEF BehaviorAgreesWithRun
<1>2. BoundedSpec => []TypeOK
  BY BoundedImplementsLoop, TypeCorrect, PTL
<1> QED
  BY <1>1, <1>2, PresentedInvariant, PacedInvariant, PTL

----------------------------------------------------------------------------
(* What the analysis of repeated accesses keeps, of signatures sigs.       *)
Attributions(sigs) == [signature : sigs, first : Nat, repeated : Nat, supported : BOOLEAN]
Attributing(sigs) ==
  [seen : UNION {[known -> Nat] : known \in SUBSET sigs}, removedAt : SUBSET Nat,
   evidence : Seq(Attributions(sigs))]

Attributed(found, entry) ==
  CASE entry.kind = "context_prepared" -> Prepared(found, entry)
    [] entry.kind = "tool_result" /\ entry.signature # <<>> -> Accessed(found, entry)
    [] OTHER -> found

(* The accesses of a trace and the preparations that removed something, up *)
(* to its k-th entry.                                                      *)
Accesses(trace, k) ==
  {j \in 1..k : trace[j].kind = "tool_result" /\ trace[j].signature # <<>>}
Removals(trace, k) ==
  {j \in 1..k : trace[j].kind = "context_prepared" /\ trace[j].audit.removed # {}}
SignaturesIn(trace, k) == {trace[j].signature : j \in Accesses(trace, k)}

(* No entry before the i-th of the n accesses the same.                    *)
IsFirst(trace, n, i) ==
  \A j \in Accesses(trace, n) : trace[j].signature = trace[i].signature => i <= j

(* An attribution is of a repeat, names the first access of its kind, and  *)
(* is supported when a removal came between the two.                       *)
Evident(found, trace, n) ==
  \E j \in Accesses(trace, n) : \E i \in Accesses(trace, n) :
    /\ found.signature = trace[j].signature /\ found.signature = trace[i].signature
    /\ found.repeated = trace[j].step /\ found.first = trace[i].step
    /\ IsFirst(trace, n, i)
    /\ \A p \in Removals(trace, j) :
         trace[i].step < trace[p].step /\ trace[p].step <= trace[j].step => found.supported

(* What is known after the first k of the n entries.                       *)
Known(found, trace, n, k) ==
  /\ DOMAIN found.seen = SignaturesIn(trace, k)
  /\ \A s \in DOMAIN found.seen : \E i \in Accesses(trace, k) :
       trace[i].signature = s /\ found.seen[s] = trace[i].step /\ IsFirst(trace, n, i)
  /\ \A p \in Removals(trace, k) : trace[p].step \in found.removedAt
  /\ Len(found.evidence) + Cardinality(SignaturesIn(trace, k)) = Cardinality(Accesses(trace, k))
  /\ \A m \in 1..Len(found.evidence) : Evident(found.evidence[m], trace, n)

(* Entries the analysis can be followed on: signatures among sigs, and no  *)
(* two preparations of one step.                                           *)
Analysable(trace, n, sigs) ==
  /\ DOMAIN trace = 1..n
  /\ \A i \in 1..n : trace[i].step \in Nat
  /\ \A i \in Accesses(trace, n) : trace[i].signature \in sigs
  /\ \A p, r \in 1..n :
       ( /\ trace[p].kind = "context_prepared" /\ trace[r].kind = "context_prepared"
         /\ trace[p].step = trace[r].step ) => p = r

LEMMA AttributedTyped ==
  ASSUME NEW sigs, NEW n \in Nat, NEW trace, Analysable(trace, n, sigs),
         NEW found \in Attributing(sigs), NEW i \in 1..n
  PROVE  Attributed(found, trace[i]) \in Attributing(sigs)
<1>1. /\ trace[i].step \in Nat
      /\ i \in Accesses(trace, n) => trace[i].signature \in sigs
  BY DEF Analysable
<1>2. PICK known \in SUBSET sigs : found.seen \in [known -> Nat]
  BY DEF Attributing
<1>3. CASE trace[i].kind = "context_prepared"
  <2>1. Attributed(found, trace[i]) =
          [found EXCEPT !.removedAt = IF trace[i].audit.removed = {} THEN @ \ {trace[i].step}
                                      ELSE @ \cup {trace[i].step}]
    BY <1>3 DEF Attributed, Prepared
  <2> QED
    BY <1>1, <2>1 DEF Attributing
<1>4. CASE i \in Accesses(trace, n)
  <2> DEFINE s == trace[i].signature
             first == found.seen[s]
             item == [signature |-> s, first |-> first, repeated |-> trace[i].step,
                      supported |-> Supported(found, first, trace[i].step)]
  <2>1. Attributed(found, trace[i]) = Accessed(found, trace[i])
    BY <1>4 DEF Attributed, Accesses
  <2>2. CASE s \notin DOMAIN found.seen
    <3> DEFINE seen == [t \in DOMAIN found.seen \cup {s} |->
                          IF t = s THEN trace[i].step ELSE found.seen[t]]
    <3>1. Attributed(found, trace[i]) = [found EXCEPT !.seen = seen]
      BY <2>1, <2>2 DEF Accessed
    <3>2. seen \in [known \cup {s} -> Nat] /\ known \cup {s} \in SUBSET sigs
      BY <1>1, <1>2, <1>4
    <3>3. seen \in UNION {[d -> Nat] : d \in SUBSET sigs}
      BY <3>2
    <3> HIDE DEF seen
    <3> QED
      BY <3>1, <3>3 DEF Attributing
  <2>3. CASE s \in DOMAIN found.seen
    <3>1. Attributed(found, trace[i]) = [found EXCEPT !.evidence = Append(@, item)]
      BY <2>1, <2>3 DEF Accessed
    <3>2. item \in Attributions(sigs)
      BY <1>1, <1>2, <1>4, <2>3 DEF Attributions, Supported
    <3> HIDE DEF item
    <3>3. Append(found.evidence, item) \in Seq(Attributions(sigs))
      BY <3>2 DEF Attributing
    <3> QED
      BY <3>1, <3>3 DEF Attributing
  <2> QED
    BY <2>2, <2>3
<1>5. CASE trace[i].kind # "context_prepared" /\ i \notin Accesses(trace, n)
  BY <1>5 DEF Attributed, Accesses
<1> QED
  BY <1>3, <1>4, <1>5

LEMMA AccessesFinite ==
  ASSUME NEW trace, NEW k \in Nat
  PROVE  IsFiniteSet(Accesses(trace, k)) /\ IsFiniteSet(SignaturesIn(trace, k))
         /\ Cardinality(Accesses(trace, k)) \in Nat
         /\ Cardinality(SignaturesIn(trace, k)) \in Nat
<1>1. IsFiniteSet(1..k) /\ Accesses(trace, k) \in SUBSET (1..k)
  BY FS_Interval DEF Accesses
<1>2. IsFiniteSet(Accesses(trace, k))
  BY <1>1, FS_Subset
<1> DEFINE f == [j \in Accesses(trace, k) |-> trace[j].signature]
<1>3. f \in Surjection(Accesses(trace, k), SignaturesIn(trace, k))
  BY DEF Surjection, SignaturesIn
<1>4. IsFiniteSet(SignaturesIn(trace, k))
  <2> HIDE DEF f
  <2> QED
    BY <1>2, <1>3, FS_Surjection
<1> QED
  BY <1>2, <1>4, FS_CardinalityType

(* The next entry.                                                         *)
LEMMA KnownNext ==
  ASSUME NEW sigs, NEW n \in Nat, NEW trace, Analysable(trace, n, sigs),
         NEW k \in 0..(n - 1), NEW found \in Attributing(sigs), Known(found, trace, n, k)
  PROVE  Known(Attributed(found, trace[k + 1]), trace, n, k + 1)
<1> DEFINE i == k + 1
           after == Attributed(found, trace[i])
           A == Accesses(trace, k)
           s == trace[i].signature
<1>1. i \in 1..n /\ k \in Nat /\ i \notin 1..k /\ (\A j : j \in 1..i <=> j \in 1..k \/ j = i)
      /\ 1..k \subseteq 1..n
  OBVIOUS
<1>a. /\ DOMAIN found.seen = SignaturesIn(trace, k)
      /\ \A t \in DOMAIN found.seen : \E x \in A :
           trace[x].signature = t /\ found.seen[t] = trace[x].step /\ IsFirst(trace, n, x)
      /\ \A p \in Removals(trace, k) : trace[p].step \in found.removedAt
      /\ Len(found.evidence) + Cardinality(SignaturesIn(trace, k)) = Cardinality(A)
      /\ \A m \in 1..Len(found.evidence) : Evident(found.evidence[m], trace, n)
  BY DEF Known
<1>b. /\ IsFiniteSet(A) /\ IsFiniteSet(SignaturesIn(trace, k))
      /\ Cardinality(A) \in Nat /\ Cardinality(SignaturesIn(trace, k)) \in Nat
  BY <1>1, AccessesFinite
<1>c. found.evidence \in Seq(Attributions(sigs)) /\ Len(found.evidence) \in Nat
  BY DEF Attributing
<1>d. trace[i].step \in Nat /\ (\A j \in 1..n : trace[j].step \in Nat)
      /\ \A p, r \in 1..n :
           ( /\ trace[p].kind = "context_prepared" /\ trace[r].kind = "context_prepared"
             /\ trace[p].step = trace[r].step ) => p = r
  BY <1>1 DEF Analysable
<1>2. CASE i \notin Accesses(trace, n)
  <2>1. Accesses(trace, i) = A
    BY <1>1, <1>2 DEF Accesses
  <2>2. after.seen = found.seen /\ after.evidence = found.evidence
    BY <1>2, <1>1 DEF Attributed, Prepared, Accesses, Attributing
  <2>3. ASSUME NEW p \in Removals(trace, i) PROVE trace[p].step \in after.removedAt
    <3>1. CASE trace[i].kind = "context_prepared"
      <4>1. after.removedAt = IF trace[i].audit.removed = {}
                              THEN found.removedAt \ {trace[i].step}
                              ELSE found.removedAt \cup {trace[i].step}
        BY <3>1 DEF Attributed, Prepared, Attributing
      <4>2. CASE p = i
        BY <2>3, <4>1, <4>2 DEF Removals
      <4>3. CASE p \in 1..k
        <5>1. p \in Removals(trace, k) /\ trace[p].kind = "context_prepared"
          BY <2>3, <4>3 DEF Removals
        <5>2. trace[p].step # trace[i].step
          BY <1>1, <1>d, <3>1, <4>3, <5>1
        <5> QED
          BY <1>a, <4>1, <5>1, <5>2
      <4> QED
        BY <1>1, <2>3, <4>2, <4>3 DEF Removals
    <3>2. CASE trace[i].kind # "context_prepared"
      <4>1. after = found
        BY <1>1, <1>2, <3>2 DEF Attributed, Accesses
      <4>2. p \in Removals(trace, k)
        BY <1>1, <2>3, <3>2 DEF Removals
      <4> QED
        BY <1>a, <4>1, <4>2
    <3> QED
      BY <3>1, <3>2
  <2>4. SignaturesIn(trace, i) = SignaturesIn(trace, k)
    BY <2>1 DEF SignaturesIn
  <2> HIDE DEF after, i, A
  <2>5. Known(after, trace, n, i)
    BY <1>a, <2>1, <2>2, <2>3, <2>4 DEF Known
  <2> QED
    BY <2>5 DEF after, i
<1>3. CASE i \in Accesses(trace, n)
  <2>0. trace[i].kind = "tool_result" /\ s # <<>> /\ trace[i].kind # "context_prepared"
    BY <1>3 DEF Accesses
  <2>1. Accesses(trace, i) = A \cup {i} /\ i \notin A /\ i \in Accesses(trace, i)
    BY <1>1, <1>3 DEF Accesses
  <2>2. Cardinality(Accesses(trace, i)) = Cardinality(A) + 1
    <3> HIDE DEF A, i
    <3> QED
      BY <1>b, <2>1, FS_AddElement
  <2>3. SignaturesIn(trace, i) = SignaturesIn(trace, k) \cup {s}
    BY <2>1 DEF SignaturesIn
  <2>4. after = Accessed(found, trace[i])
    BY <2>0 DEF Attributed
  <2>5. Removals(trace, i) = Removals(trace, k)
    BY <1>1, <2>0 DEF Removals
  <2>6. CASE s \notin DOMAIN found.seen
    <3> DEFINE seen == [t \in DOMAIN found.seen \cup {s} |->
                          IF t = s THEN trace[i].step ELSE found.seen[t]]
    <3>1. after.seen = seen /\ after.evidence = found.evidence
          /\ after.removedAt = found.removedAt
      BY <2>4, <2>6 DEF Accessed, Attributing
    <3>2. DOMAIN seen = SignaturesIn(trace, i)
      BY <1>a, <2>3
    <3>3. Cardinality(SignaturesIn(trace, i)) = Cardinality(SignaturesIn(trace, k)) + 1
      <4>1. s \notin SignaturesIn(trace, k)
        BY <1>a, <2>6
      <4> HIDE DEF i, s, after, A
      <4> QED
        BY <1>b, <2>3, <4>1, FS_AddElement
    <3>4. IsFirst(trace, n, i)
      <4> SUFFICES ASSUME NEW j \in Accesses(trace, n), trace[j].signature = s PROVE i <= j
        BY DEF IsFirst
      <4>1. j \notin A
        BY <1>a, <2>6 DEF SignaturesIn
      <4>2. j \in 1..n /\ j \notin 1..k
        BY <4>1 DEF Accesses
      <4> QED
        BY <4>2
    <3>5. ASSUME NEW t \in DOMAIN seen
          PROVE  \E x \in Accesses(trace, i) :
                   trace[x].signature = t /\ seen[t] = trace[x].step /\ IsFirst(trace, n, x)
      <4>1. CASE t = s
        BY <2>1, <3>4, <4>1
      <4>2. CASE t # s
        <5>1. t \in DOMAIN found.seen /\ seen[t] = found.seen[t]
          BY <4>2
        <5> HIDE DEF seen
        <5> QED
          BY <1>a, <2>1, <5>1
      <4> QED
        BY <4>1, <4>2
    <3> HIDE DEF seen, after, A, i
    <3>6. Len(after.evidence) + Cardinality(SignaturesIn(trace, i)) =
            Cardinality(Accesses(trace, i))
      BY <1>a, <1>b, <1>c, <2>2, <3>1, <3>3
    <3>7. Known(after, trace, n, i)
      BY <1>a, <2>5, <3>1, <3>2, <3>5, <3>6 DEF Known
    <3> QED
      BY <3>7 DEF after, i
  <2>7. CASE s \in DOMAIN found.seen
    <3> DEFINE first == found.seen[s]
               item == [signature |-> s, first |-> first, repeated |-> trace[i].step,
                        supported |-> Supported(found, first, trace[i].step)]
    <3>1. after.seen = found.seen /\ after.evidence = Append(found.evidence, item)
          /\ after.removedAt = found.removedAt
      BY <2>4, <2>7 DEF Accessed, Attributing
    <3>2. SignaturesIn(trace, i) = SignaturesIn(trace, k)
      BY <1>a, <2>3, <2>7
    <3>3. Evident(item, trace, n)
      <4>1. PICK x \in A : trace[x].signature = s /\ first = trace[x].step /\ IsFirst(trace, n, x)
        BY <1>a, <2>7
      <4>2. x \in Accesses(trace, n)
        BY <1>1 DEF Accesses
      <4>3. ASSUME NEW p \in Removals(trace, i),
                   trace[x].step < trace[p].step, trace[p].step <= trace[i].step
            PROVE  item.supported
        <5>1. trace[p].step \in found.removedAt
          BY <1>a, <2>5
        <5> QED
          BY <4>1, <4>3, <5>1 DEF Supported
      <4> HIDE DEF i
      <4>4. /\ item.signature = s /\ item.repeated = trace[i].step /\ item.first = trace[x].step
        BY <4>1
      <4> HIDE DEF item
      <4> QED
        BY <1>3, <4>1, <4>2, <4>3, <4>4 DEF Evident
    <3>4. item \in Attributions(sigs)
      <4>1. s \in sigs
        BY <1>3 DEF Analysable
      <4>2. first \in Nat
        BY <2>7 DEF Attributing
      <4> QED
        BY <1>d, <4>1, <4>2 DEF Attributions, Supported
    <3> HIDE DEF item, after, A, i
    <3>5. /\ Len(after.evidence) = Len(found.evidence) + 1
          /\ \A m \in 1..Len(found.evidence) : after.evidence[m] = found.evidence[m]
          /\ after.evidence[Len(found.evidence) + 1] = item
      BY <1>c, <3>1, <3>4
    <3>6. \A m \in 1..Len(after.evidence) : Evident(after.evidence[m], trace, n)
      <4>1. \A m \in 1..Len(after.evidence) :
              m \in 1..Len(found.evidence) \/ m = Len(found.evidence) + 1
        BY <1>c, <3>5
      <4> SUFFICES ASSUME NEW m \in 1..Len(after.evidence)
                   PROVE  Evident(after.evidence[m], trace, n)
        OBVIOUS
      <4>2. CASE m \in 1..Len(found.evidence)
        BY <1>a, <3>5, <4>2
      <4>3. CASE m = Len(found.evidence) + 1
        <5>1. after.evidence[m] = item
          BY <3>5, <4>3
        <5> QED
          BY <3>3, <5>1, Zenon
      <4> QED
        BY <4>1, <4>2, <4>3
    <3>7. Len(after.evidence) + Cardinality(SignaturesIn(trace, i)) =
            Cardinality(Accesses(trace, i))
      BY <1>a, <1>b, <1>c, <2>2, <3>2, <3>5
    <3>8. \A t \in DOMAIN after.seen : \E x \in Accesses(trace, i) :
            trace[x].signature = t /\ after.seen[t] = trace[x].step /\ IsFirst(trace, n, x)
      BY <1>a, <2>1, <3>1
    <3>9. Known(after, trace, n, i)
      BY <1>a, <2>5, <3>1, <3>2, <3>6, <3>7, <3>8 DEF Known
    <3> QED
      BY <3>9 DEF after, i
  <2> QED
    BY <2>6, <2>7
<1> QED
  BY <1>2, <1>3

LEMMA AccessAnalysed ==
  ASSUME NEW sigs, NEW n \in Nat, NEW trace, Analysable(trace, n, sigs)
  PROVE  LET found == AnalyzeRepeatedAccess(trace)
         IN  /\ found \in Attributing(sigs)
             /\ Known(found, trace, n, n)
<1> DEFINE B == Attributing(sigs)
           F == [pair \in (1..n) \X B |-> Attributed(pair[2], trace[pair[1]])]
<1>1. DOMAIN trace = 1..n
  BY DEF Analysable
<1>2. \A i \in 1..n, found \in B : F[<<i, found>>] = Attributed(found, trace[i])
  OBVIOUS
<1>3. Maps(F, 1..n, B)
  <2> HIDE DEF F
  <2> SUFFICES ASSUME NEW i \in 1..n, NEW found \in B PROVE F[<<i, found>>] \in B
    BY DEF Maps
  <2>1. Attributed(found, trace[i]) \in B
    BY AttributedTyped
  <2> QED
    BY <1>2, <2>1
<1>4. RepeatedAccess \in B /\ DOMAIN RepeatedAccess.seen = {} /\ RepeatedAccess.evidence = <<>>
  <2>1. <<>> \in [{} -> Nat] /\ {} \in SUBSET sigs /\ DOMAIN <<>> = {}
    OBVIOUS
  <2>2. <<>> \in UNION {[known -> Nat] : known \in SUBSET sigs}
    BY <2>1
  <2> QED
    BY <2>1, <2>2 DEF RepeatedAccess, Attributing
<1> HIDE DEF F, B
<1>5. PICK g : IsFold(g, 1..n, [s \in SUBSET (1..n) |-> Max(s)], B, RepeatedAccess, F)
  BY <1>3, <1>4, LeftFoldExists
<1>6. g = [s \in SUBSET (1..n) |-> IF s = {} THEN RepeatedAccess
                                   ELSE Attributed(g[s \ {Max(s)}], trace[Max(s)])]
  <2>1. ASSUME NEW s \in SUBSET (1..n), s # {}
        PROVE  g[s] = Attributed(g[s \ {Max(s)}], trace[Max(s)])
    <3>1. Max(s) \in 1..n
      BY <2>1, MaxOfSome
    <3>2. g[s] = F[<<Max(s), g[s \ {Max(s)}]>>] /\ g[s \ {Max(s)}] \in B
      BY <1>5, <2>1 DEF IsFold
    <3> QED
      BY <1>2, <3>1, <3>2
  <2> QED
    BY <1>5, <2>1 DEF IsFold
<1>7. PICK h : /\ h = [s \in SUBSET (1..n) |-> IF s = {} THEN RepeatedAccess
                                               ELSE Attributed(h[s \ {Max(s)}], trace[Max(s)])]
               /\ AnalyzeRepeatedAccess(trace) = h[1..n]
  BY <1>1, <1>6, ZenonT(60) DEF AnalyzeRepeatedAccess, FoldLeft, MapThenFoldSet, Attributed
<1>8. PICK p : StepsTo(p, n, B, RepeatedAccess, F, h[1..n])
  <2>1. h[{}] = RepeatedAccess
    BY <1>7
  <2>2. ASSUME NEW s \in SUBSET (1..n), s # {}, h[s \ {Max(s)}] \in B
        PROVE  h[s] = F[<<Max(s), h[s \ {Max(s)}]>>]
    <3>1. Max(s) \in 1..n
      BY <2>2, MaxOfSome
    <3>2. h[s] = Attributed(h[s \ {Max(s)}], trace[Max(s)])
      BY <1>7, <2>2
    <3> QED
      BY <1>2, <2>2, <3>1, <3>2
  <2>3. \E p : StepsTo(p, n, B, RepeatedAccess, F, h[1..n])
    BY <1>3, <1>4, <2>1, <2>2, LeftFoldSteps
  <2> QED
    BY <2>3
<1> DEFINE T == {k \in 0..n : Known(p[k], trace, n, k)}
<1>9. \A k \in 0..n : k \in T
  <2>1. 0 \in T
    <3>1. p[0] = RepeatedAccess /\ 1..0 = {}
      BY <1>8 DEF StepsTo, Steps
    <3>2. Accesses(trace, 0) = {} /\ Removals(trace, 0) = {} /\ SignaturesIn(trace, 0) = {}
      BY <3>1 DEF Accesses, Removals, SignaturesIn
    <3>3. Cardinality({}) = 0
      BY FS_EmptySet
    <3>4. Known(RepeatedAccess, trace, n, 0)
      <4>1. Len(RepeatedAccess.evidence) = 0 /\ 1..0 = {}
        BY <1>4
      <4>2. Len(RepeatedAccess.evidence) + Cardinality(SignaturesIn(trace, 0)) =
              Cardinality(Accesses(trace, 0))
        <5>1. Cardinality(SignaturesIn(trace, 0)) = 0 /\ Cardinality(Accesses(trace, 0)) = 0
          BY <3>2, <3>3, Zenon
        <5> QED
          BY <4>1, <5>1
      <4>3. 1..Len(RepeatedAccess.evidence) = {}
        BY <4>1
      <4> QED
        BY <1>4, <3>2, <4>2, <4>3, Zenon DEF Known
    <3> QED
      BY <3>1, <3>4
  <2>2. ASSUME NEW k \in 0..(n - 1), k \in T PROVE k + 1 \in T
    <3>1. k + 1 \in 1..n /\ k + 1 \in 0..n /\ k \in 0..n
      OBVIOUS
    <3>2. p[k + 1] = F[<<k + 1, p[k]>>] /\ p[k] \in B
      BY <1>8, <3>1 DEF StepsTo, Steps
    <3>3. p[k + 1] = Attributed(p[k], trace[k + 1])
      BY <1>2, <3>1, <3>2
    <3>4. Known(p[k + 1], trace, n, k + 1)
      BY <2>2, <3>2, <3>3, KnownNext DEF B
    <3> QED
      BY <3>1, <3>4
  <2> HIDE DEF T
  <2> QED
    BY <2>1, <2>2, PrefixInduction
<1>10. p[n] \in B /\ Known(p[n], trace, n, n)
  <2>1. n \in 0..n
    OBVIOUS
  <2> QED
    BY <1>8, <1>9, <2>1 DEF StepsTo, Steps
<1> QED
  BY <1>7, <1>8, <1>10 DEF StepsTo, B

----------------------------------------------------------------------------
(* How many events of a kind a trace has up to its i-th.                   *)
Rank(trace, kind, i) == Cardinality({j \in 1..i : trace[j].kind = kind})

LEMMA RankGrows ==
  ASSUME NEW trace, NEW kind, NEW i \in Nat, NEW j \in Nat, i <= j
  PROVE  /\ Rank(trace, kind, i) \in Nat /\ Rank(trace, kind, j) \in Nat
         /\ Rank(trace, kind, i) <= Rank(trace, kind, j)
         /\ i < j /\ trace[j].kind = kind => Rank(trace, kind, i) < Rank(trace, kind, j)
<1> DEFINE S == {l \in 1..i : trace[l].kind = kind}
           T == {l \in 1..j : trace[l].kind = kind}
<1>1. IsFiniteSet(T) /\ S \in SUBSET T /\ IsFiniteSet(S)
  <2>1. IsFiniteSet(1..j) /\ T \in SUBSET (1..j) /\ S \in SUBSET T
    BY FS_Interval
  <2> QED
    BY <2>1, FS_Subset
<1>2. Cardinality(S) \in Nat /\ Cardinality(T) \in Nat /\ Cardinality(S) <= Cardinality(T)
  <2> HIDE DEF S, T
  <2> QED
    BY <1>1, FS_Subset, FS_CardinalityType
<1>3. ASSUME i < j, trace[j].kind = kind PROVE Cardinality(S) < Cardinality(T)
  <2>1. j \in T \ S
    BY <1>3
  <2> HIDE DEF S, T
  <2>2. S # T
    BY <2>1
  <2>3. Cardinality(S) # Cardinality(T)
    BY <1>1, <2>2, FS_Subset
  <2> QED
    BY <1>2, <2>3
<1> QED
  BY <1>2, <1>3 DEF Rank

LEMMA RankOfAll ==
  ASSUME NEW S, NEW trace \in Seq(S), NEW kind
  PROVE  Rank(trace, kind, Len(trace)) = Count(trace, kind)
  BY DEF Rank, Count

(* What a trace is extended by changes nothing of it.                      *)
LEMMA RankKept ==
  ASSUME NEW S, NEW s \in Seq(S), NEW t \in Seq(S), Extends(t, s), NEW kind,
         NEW i \in 0..Len(s)
  PROVE  /\ Rank(t, kind, i) = Rank(s, kind, i)
         /\ i > 0 => t[i] = s[i]
<1>1. ASSUME NEW j \in 1..Len(s) PROVE t[j] = s[j]
  <2>1. SubSeq(t, 1, Len(s))[j] = t[j]
    BY <1>1 DEF Extends
  <2> QED
    BY <1>1, <2>1 DEF Extends
<1>2. {j \in 1..i : t[j].kind = kind} = {j \in 1..i : s[j].kind = kind}
  BY <1>1
<1>3. i > 0 => i \in 1..Len(s)
  OBVIOUS
<1> QED
  BY <1>1, <1>2, <1>3 DEF Rank

LEMMA NoneAdded ==
  ASSUME NEW S, NEW s \in Seq(S), NEW t \in Seq(S), Extends(t, s), NEW kind,
         Count(t, kind) = Count(s, kind), NEW i \in 1..Len(t), i > Len(s)
  PROVE  t[i].kind # kind /\ Rank(t, kind, i) = Count(s, kind)
<1>1. /\ Len(s) \in Nat /\ Len(t) \in Nat /\ i \in Nat /\ Len(s) < i /\ i <= Len(t)
      /\ Len(s) \in 0..Len(s)
  OBVIOUS
<1>2. Rank(t, kind, Len(s)) = Count(s, kind)
  BY <1>1, RankKept, RankOfAll
<1>3. Rank(t, kind, Len(t)) = Count(s, kind)
  BY RankOfAll
<1>4. /\ Rank(t, kind, Len(s)) \in Nat /\ Rank(t, kind, i) \in Nat
      /\ Rank(t, kind, Len(s)) <= Rank(t, kind, i)
      /\ t[i].kind = kind => Rank(t, kind, Len(s)) < Rank(t, kind, i)
  BY <1>1, RankGrows
<1>5. Rank(t, kind, i) <= Rank(t, kind, Len(t)) /\ Rank(t, kind, Len(t)) \in Nat
  BY <1>1, RankGrows
<1> QED
  BY <1>2, <1>3, <1>4, <1>5

(* Whatever an audit reports as reduced, it reports as removed.            *)
Marked(audit) ==
  (\E k \in DOMAIN audit.reductions : audit.reductions[k].method # "none")
    => audit.removed # {}

(* When things happened: a preparation and a result are of the step that   *)
(* counts the preparations before, and a preparation shows no more results *)
(* than the trace held before it.                                          *)
Timed ==
  /\ \A i \in DOMAIN events : events[i].kind \in {"context_prepared", "tool_result"} =>
       events[i].step = Rank(events, "context_prepared", i) - 1
  /\ \A i \in DOMAIN events : events[i].kind = "context_prepared" =>
       Len(audits[Rank(events, "context_prepared", i)].reductions)
         <= Rank(events, "tool_result", i)
  /\ \A a \in DOMAIN audits : Marked(audits[a])

LEMMA AuditMarked == Marked(Audit)
<1>1. CASE policy = "full-history"
  <2>1. Audit.reductions = <<>>
    BY <1>1 DEF Audit
  <2>2. DOMAIN <<>> = {}
    OBVIOUS
  <2> QED
    BY <2>1, <2>2, Zenon DEF Marked
<1>2. CASE policy # "full-history"
  <2> DEFINE reductions == Reductions(results)
  <2>1. Audit.reductions = reductions
        /\ Audit.removed = {ToolIndices[k] : k \in {j \in DOMAIN reductions :
                                                      reductions[j].method # "none"}}
    BY <1>2 DEF Audit, CutIndices
  <2> HIDE DEF reductions
  <2> QED
    BY <2>1 DEF Marked
<1> QED
  BY <1>1, <1>2

(* A step that adds audits and events keeps what is timed, when what it    *)
(* adds is.                                                                *)
LEMMA TimedKept ==
  ASSUME TypeOK, Presented, Paced, Timed, events' \in Seq(AgentEvents),
         Extends(events', events), \A a \in DOMAIN audits : audits'[a] = audits[a],
         \A a \in DOMAIN audits' : a \notin DOMAIN audits => Marked(audits'[a]),
         \A i \in 1..Len(events') : i > Len(events) =>
           /\ events'[i].kind \in {"context_prepared", "tool_result"} =>
                events'[i].step = Rank(events', "context_prepared", i) - 1
           /\ events'[i].kind = "context_prepared" =>
                Len(audits'[Rank(events', "context_prepared", i)].reductions)
                  <= Rank(events', "tool_result", i)
  PROVE  Timed'
<1>1. /\ events \in Seq(AgentEvents) /\ DOMAIN events = 1..Len(events) /\ Len(events) \in Nat
      /\ DOMAIN events' = 1..Len(events') /\ Len(events') \in Nat
      /\ audits \in Seq(Audits) /\ DOMAIN audits = 1..Len(audits) /\ Len(audits) \in Nat
      /\ Len(audits) = Count(events, "context_prepared")
  <2>1. events \in Seq(AgentEvents) /\ audits \in Seq(Audits)
    BY DEF TypeOK, Presented
  <2> QED
    BY <2>1 DEF Paced
<1>2. ASSUME NEW i \in 1..Len(events)
      PROVE  /\ events'[i] = events[i]
             /\ Rank(events', "context_prepared", i) = Rank(events, "context_prepared", i)
             /\ Rank(events', "tool_result", i) = Rank(events, "tool_result", i)
             /\ events[i].kind = "context_prepared" =>
                  Rank(events, "context_prepared", i) \in DOMAIN audits
  <2>1. i \in 0..Len(events) /\ i > 0 /\ i \in Nat /\ 0 <= i /\ 0 < i /\ i <= Len(events)
    BY <1>1
  <2>2. /\ events'[i] = events[i]
        /\ Rank(events', "context_prepared", i) = Rank(events, "context_prepared", i)
        /\ Rank(events', "tool_result", i) = Rank(events, "tool_result", i)
    <3>1. PICK s, t \in Seq(AgentEvents) : s = events /\ t = events'
      BY <1>1
    <3>2. \A kind : Rank(t, kind, i) = Rank(s, kind, i) /\ (i > 0 => t[i] = s[i])
      <4>1. Extends(t, s) /\ i \in 0..Len(s)
        BY <2>1, <3>1
      <4> QED
        BY <4>1, RankKept
    <3> QED
      BY <2>1, <3>1, <3>2
  <2>3. /\ Rank(events, "context_prepared", 0) \in Nat
        /\ Rank(events, "context_prepared", i) \in Nat
        /\ events[i].kind = "context_prepared" =>
             Rank(events, "context_prepared", 0) < Rank(events, "context_prepared", i)
    BY <2>1, RankGrows
  <2>4. Rank(events, "context_prepared", i) <= Rank(events, "context_prepared", Len(events))
    BY <1>1, <2>1, RankGrows
  <2>5. Rank(events, "context_prepared", Len(events)) = Len(audits)
    BY <1>1, RankOfAll
  <2> QED
    BY <1>1, <2>2, <2>3, <2>4, <2>5
<1>3. ASSUME NEW i \in 1..Len(events'),
             events'[i].kind \in {"context_prepared", "tool_result"}
      PROVE  events'[i].step = Rank(events', "context_prepared", i) - 1
  <2>1. CASE i \in 1..Len(events)
    BY <1>1, <1>2, <1>3, <2>1 DEF Timed
  <2>2. CASE i > Len(events)
    BY <1>3, <2>2
  <2> QED
    BY <1>1, <2>1, <2>2
<1>4. ASSUME NEW i \in 1..Len(events'), events'[i].kind = "context_prepared"
      PROVE  Len(audits'[Rank(events', "context_prepared", i)].reductions)
               <= Rank(events', "tool_result", i)
  <2>1. CASE i \in 1..Len(events)
    <3>1. /\ events[i].kind = "context_prepared"
          /\ Rank(events, "context_prepared", i) \in DOMAIN audits
      BY <1>2, <1>4, <2>1
    <3>2. Len(audits[Rank(events, "context_prepared", i)].reductions)
            <= Rank(events, "tool_result", i)
      BY <1>1, <2>1, <3>1 DEF Timed
    <3>3. audits'[Rank(events', "context_prepared", i)] =
            audits[Rank(events, "context_prepared", i)]
      BY <1>2, <2>1, <3>1
    <3> QED
      BY <1>2, <2>1, <3>2, <3>3
  <2>2. CASE i > Len(events)
    BY <1>4, <2>2
  <2> QED
    BY <1>1, <2>1, <2>2
<1>5. ASSUME NEW a \in DOMAIN audits' PROVE Marked(audits'[a])
  BY <1>5 DEF Timed
<1>6. (\A a \in DOMAIN audits : Marked(audits[a]))'
  BY <1>5 DEF Marked
<1> QED
  BY <1>1, <1>3, <1>4, <1>6 DEF Timed

LEMMA TwoAdded ==
  ASSUME NEW S, NEW s \in Seq(S), NEW a, NEW b, NEW t, t = Append(Append(s, a), b),
         NEW i \in 1..Len(t), i > Len(s)
  PROVE  t[i] \in {a, b}
<1> DEFINE U == S \cup {a, b}
           one == Append(s, a)
<1>1. s \in Seq(U) /\ a \in U /\ b \in U /\ Len(s) \in Nat
  OBVIOUS
<1> HIDE DEF U
<1>2. one \in Seq(U) /\ Len(one) = Len(s) + 1 /\ one[Len(s) + 1] = a
  BY <1>1
<1> HIDE DEF one
<1>3. t = Append(one, b)
  BY DEF one
<1>4. /\ Len(t) = Len(s) + 2 /\ t[Len(s) + 2] = b
      /\ t[Len(s) + 1] = a
  BY <1>1, <1>2, <1>3
<1>5. i = Len(s) + 1 \/ i = Len(s) + 2
  BY <1>1, <1>4
<1> QED
  BY <1>4, <1>5

LEMMA TimedNext ==
  TypeOK /\ TypeOK' /\ Fresh /\ Exchanged /\ Exchanged' /\ Presented /\ Presented'
    /\ Paced /\ Paced' /\ Timed /\ [BoundedNext]_allVars => Timed'
<1> SUFFICES ASSUME TypeOK, TypeOK', Fresh, Exchanged, Exchanged', Presented, Presented',
                    Paced, Paced', Timed, [BoundedNext]_allVars
             PROVE  Timed'
  OBVIOUS
<1>1. /\ events \in Seq(AgentEvents) /\ events' \in Seq(AgentEvents)
      /\ Len(events) \in Nat /\ Len(events') \in Nat /\ step \in Nat
      /\ audits \in Seq(Audits) /\ Len(audits) \in Nat
  <2>1. events \in Seq(AgentEvents) /\ events' \in Seq(AgentEvents)
    BY DEF TypeOK
  <2>2. audits \in Seq(Audits) /\ step \in Nat
    BY DEF TypeOK, Presented
  <2> QED
    BY <2>1, <2>2
<1>2. Extends(events', events)
  <2>1. [Next]_vars
    BY BoundedStepIsLoopStep DEF allVars
  <2> QED
    BY <2>1, AppendNext
<1>3. /\ Count(events, "tool_result") = Len(results)
      /\ Count(events', "tool_result") = Len(results')
      /\ Count(events, "context_prepared") = Len(audits)
      /\ Count(events', "context_prepared") = Len(audits')
  BY DEF Exchanged, ConversationMatchesTrace, Presented, Paced
<1>4. ASSUME audits' = audits, results' = results PROVE Timed'
  <2>1. ASSUME NEW i \in 1..Len(events'), i > Len(events)
        PROVE  events'[i].kind \notin {"context_prepared", "tool_result"}
    <3>1. Count(events', "tool_result") = Count(events, "tool_result")
          /\ Count(events', "context_prepared") = Count(events, "context_prepared")
      BY <1>3, <1>4
    <3>2. PICK s, t \in Seq(AgentEvents) : s = events /\ t = events'
      BY <1>1
    <3>3. Extends(t, s) /\ i \in 1..Len(t) /\ i > Len(s)
      BY <1>2, <2>1, <3>2
    <3>4. t[i].kind # "tool_result" /\ t[i].kind # "context_prepared"
      BY <3>1, <3>2, <3>3, NoneAdded
    <3> QED
      BY <3>2, <3>4
  <2> QED
    BY <1>1, <1>2, <1>4, <2>1, TimedKept
<1>5. CASE Prepare
  <2>1. CASE ContextOverflow("none") /\ UNCHANGED audits
    BY <1>4, <1>5, <2>1 DEF Prepare
  <2>2. CASE PrepareContext("none") /\ audits' = Append(audits, Audit)
    <3>1. /\ Audit \in Audits /\ Shows(Audit)
      BY AuditSound DEF Presented
    <3>2. PICK last \in Audits : last = Audit
      BY <3>1
    <3>3. pc = "prepare" /\ results' = results
          /\ events' = Append(events, Event("context_prepared", "none", NoPath))
      <4>1. policy # "retrieval"
        BY BoundedAssumption DEF TypeOK
      <4> QED
        BY <1>5, <2>2, <4>1 DEF Prepare, PrepareContext, PreparedTrace
    <3>4. Len(audits) = step
      BY <3>3 DEF Paced, InPace
    <3>5. /\ \A a \in DOMAIN audits : audits'[a] = audits[a]
          /\ DOMAIN audits = 1..step /\ DOMAIN audits' = 1..(step + 1)
          /\ Len(audits') = step + 1 /\ audits'[step + 1] = last
      BY <1>1, <2>2, <3>2, <3>4
    <3>6. \A a \in DOMAIN audits' : a \notin DOMAIN audits => Marked(audits'[a])
      <4>1. Marked(last)
        BY <3>2, AuditMarked
      <4>2. \A a \in 1..(step + 1) : a \in 1..step \/ a = step + 1
        BY <1>1
      <4> QED
        BY <3>5, <4>1, <4>2
    <3>7. /\ Len(events') = Len(events) + 1
          /\ events'[Len(events) + 1].kind = "context_prepared"
          /\ events'[Len(events) + 1].step = step
      <4>1. PICK e : e = Event("context_prepared", "none", NoPath)
        OBVIOUS
      <4>2. e.kind = "context_prepared" /\ e.step = step
        BY <4>1 DEF Event
      <4> QED
        BY <1>1, <3>3, <4>1, <4>2
    <3>8. /\ Rank(events', "context_prepared", Len(events) + 1) = step + 1
          /\ Rank(events', "tool_result", Len(events) + 1) = Len(results)
      BY <1>1, <1>3, <3>3, <3>5, <3>7, RankOfAll
    <3>9. Len(last.reductions) <= Len(results)
      BY <3>1, <3>2 DEF Shows
    <3>10. ASSUME NEW i \in 1..Len(events'), i > Len(events)
           PROVE  /\ events'[i].step = Rank(events', "context_prepared", i) - 1
                  /\ Len(audits'[Rank(events', "context_prepared", i)].reductions)
                       <= Rank(events', "tool_result", i)
      <4>1. i = Len(events) + 1
        BY <1>1, <3>7, <3>10
      <4> QED
        BY <1>1, <3>5, <3>7, <3>8, <3>9, <4>1
    <3> QED
      BY <1>1, <1>2, <3>5, <3>6, <3>10, TimedKept
  <2> QED
    BY <1>5, <2>1, <2>2 DEF Prepare
<1>6. CASE ExecuteWithResult
  <2>0. PICK tool \in Tools : \E path \in PathsNamed(tool) : ExecuteTool(tool, path)
    BY <1>6 DEF ExecuteWithResult
  <2>1. PICK path \in PathsNamed(tool) : ExecuteTool(tool, path)
    BY <2>0
  <2>2. audits' = audits /\ pc = "execute"
    BY <1>6, <2>1 DEF ExecuteWithResult, ExecuteTool
  <2>3. Len(audits) = step + 1
    BY <2>2 DEF Paced, InPace
  <2>4. ASSUME NEW i \in 1..Len(events'), i > Len(events)
        PROVE  events'[i].step = step
    <3>1. PICK e, r : e = Event("tool_result", tool, path)
                      /\ r = Event("retrieval", "explicit", NoPath)
      OBVIOUS
    <3>2. e.step = step /\ r.step = step
      BY <3>1 DEF Event
    <3>3. events' = Append(events, e) \/ events' = Append(Append(events, r), e)
      BY <2>1, <3>1 DEF ExecuteTool
    <3>4. CASE events' = Append(events, e)
      <4>1. i = Len(events) + 1 /\ events'[i] = e
        BY <1>1, <2>4, <3>4
      <4> QED
        BY <3>2, <4>1
    <3>5. CASE events' = Append(Append(events, r), e)
      <4>1. PICK t : t = events'
        OBVIOUS
      <4>2. t[i] \in {r, e}
        BY <1>1, <2>4, <3>5, <4>1, TwoAdded
      <4> QED
        BY <3>2, <4>1, <4>2
    <3> QED
      BY <3>3, <3>4, <3>5
  <2>5. ASSUME NEW i \in 1..Len(events'), i > Len(events)
        PROVE  /\ events'[i].kind # "context_prepared"
               /\ Rank(events', "context_prepared", i) = step + 1
    <3>1. Count(events', "context_prepared") = Count(events, "context_prepared")
      BY <1>3, <2>2
    <3>2. PICK s, t \in Seq(AgentEvents) : s = events /\ t = events'
      BY <1>1
    <3>3. Extends(t, s) /\ i \in 1..Len(t) /\ i > Len(s)
      BY <1>2, <2>5, <3>2
    <3>4. t[i].kind # "context_prepared"
          /\ Rank(t, "context_prepared", i) = Count(s, "context_prepared")
      BY <3>1, <3>2, <3>3, NoneAdded
    <3> QED
      BY <1>3, <2>3, <3>2, <3>4
  <2>6. \A i \in 1..Len(events') : i > Len(events) =>
          events'[i].step = Rank(events', "context_prepared", i) - 1
    BY <1>1, <2>4, <2>5
  <2> QED
    BY <1>1, <1>2, <2>2, <2>5, <2>6, TimedKept
<1>7. CASE Unobserved \/ UNCHANGED allVars
  BY <1>4, <1>7 DEF Unobserved, allVars
<1> QED
  BY <1>5, <1>6, <1>7 DEF BoundedNext

LEMMA TimedInvariant == BoundedSpec => []Timed
<1>1. BoundedInit => Timed
  <2> SUFFICES ASSUME BoundedInit PROVE Timed
    OBVIOUS
  <2>1. events = <<>> /\ audits = <<>>
    BY DEF BoundedInit, Init
  <2>2. DOMAIN <<>> = {}
    OBVIOUS
  <2> QED
    BY <2>1, <2>2, Zenon DEF Timed
<1>2. BoundedSpec => []TypeOK
  BY BoundedImplementsLoop, TypeCorrect, PTL
<1>3. BoundedSpec => []Exchanged
  BY BoundedImplementsLoop, ExchangedInvariant, PTL
<1>4. BoundedSpec => []Fresh
  BY BoundedImplementsLoop, FreshInvariant, PTL
<1> QED
  BY <1>1, <1>2, <1>3, <1>4, PresentedInvariant, PacedInvariant, TimedNext, PTL DEF BoundedSpec

----------------------------------------------------------------------------
(* The k-th number of an enumeration has k - 1 before it.                  *)
Ranked(q, S) ==
  \A k \in 1..Len(q) : q[k] \in S /\ Cardinality(S \cap 1..q[k]) = k

LEMMA EnumeratedRank ==
  ASSUME NEW S, NEW n \in Nat, NEW q, Enumerates(q, S, n)
  PROVE  Ranked(q, S)
<1> SUFFICES ASSUME NEW k \in 1..Len(q)
             PROVE  q[k] \in S /\ Cardinality(S \cap 1..q[k]) = k
  BY DEF Ranked
<1> DEFINE now == S \cap 1..n
           T == S \cap 1..q[k]
           f == [i \in 1..k |-> q[i]]
<1>1. /\ Len(q) \in Nat
      /\ \A i \in 1..Len(q) : q[i] \in now
      /\ \A i, j \in 1..Len(q) : i < j => q[i] < q[j]
      /\ \A x \in now : \E i \in 1..Len(q) : q[i] = x
  <2>1. q \in Seq(now)
    BY DEF Enumerates
  <2>2. Len(q) \in Nat /\ \A i \in 1..Len(q) : q[i] \in now
    <3> HIDE DEF now
    <3> QED
      BY <2>1
  <2> QED
    BY <2>1, <2>2 DEF Enumerates
<1>2. /\ 1..k \subseteq 1..Len(q) /\ k \in Nat
      /\ \A i \in 1..Len(q) : q[i] \in 1..n /\ q[i] \in S /\ q[i] \in Nat
  BY <1>1
<1>3. \A i, j \in 1..Len(q) : q[i] = q[j] => i = j
  <2> SUFFICES ASSUME NEW i \in 1..Len(q), NEW j \in 1..Len(q), q[i] = q[j] PROVE i = j
    OBVIOUS
  <2>1. ~(i < j) /\ ~(j < i)
    BY <1>1, <1>2
  <2> QED
    BY <2>1
<1>4. ASSUME NEW i \in 1..k PROVE q[i] \in T
  <2>1. i < k \/ i = k
    OBVIOUS
  <2>2. q[i] <= q[k]
    BY <1>1, <1>2, <2>1
  <2> QED
    BY <1>2, <2>2
<1>5. ASSUME NEW x \in T PROVE \E i \in 1..k : q[i] = x
  <2>1. x \in now /\ x <= q[k]
    BY <1>2
  <2>2. PICK i \in 1..Len(q) : q[i] = x
    BY <1>1, <2>1
  <2>3. ~(k < i)
    BY <1>1, <1>2, <2>1, <2>2
  <2> QED
    BY <2>2, <2>3
<1>6. f \in Bijection(1..k, T)
  <2>1. f \in [1..k -> T]
    BY <1>4
  <2>2. \A i, j \in 1..k : f[i] = f[j] => i = j
    BY <1>2, <1>3
  <2>3. \A x \in T : \E i \in 1..k : f[i] = x
    BY <1>5
  <2> HIDE DEF f, T
  <2> QED
    BY <2>1, <2>2, <2>3 DEF Bijection, Injection, Surjection, IsInjective
<1>7. IsFiniteSet(1..k) /\ Cardinality(1..k) = k
  BY FS_Interval
<1> HIDE DEF f, T
<1>8. Cardinality(T) = k
  BY <1>6, <1>7, FS_Bijection DEF ExistsBijection
<1> QED
  BY <1>1, <1>2, <1>8 DEF T

(* Where the events of a kind are in a trace.                              *)
PlacesOf(trace, kind) ==
  Ascending({i \in DOMAIN trace : trace[i].kind = kind}, Len(trace))

LEMMA PlacesRanked ==
  ASSUME NEW S, NEW trace \in Seq(S), NEW kind
  PROVE  /\ Count(trace, kind) \in Nat
         /\ \A k \in 1..Count(trace, kind) :
              /\ PlacesOf(trace, kind)[k] \in 1..Len(trace)
              /\ trace[PlacesOf(trace, kind)[k]].kind = kind
              /\ Rank(trace, kind, PlacesOf(trace, kind)[k]) = k
         /\ \A i \in 1..Len(trace) : trace[i].kind = kind =>
              /\ Rank(trace, kind, i) \in 1..Count(trace, kind)
              /\ PlacesOf(trace, kind)[Rank(trace, kind, i)] = i
<1> DEFINE n == Len(trace)
           E == {i \in DOMAIN trace : trace[i].kind = kind}
           q == PlacesOf(trace, kind)
<1>1. n \in Nat /\ DOMAIN trace = 1..n /\ E \cap 1..n = E /\ E \subseteq 1..n
      /\ Cardinality(E) = Count(trace, kind)
  BY DEF Count
<1>2. Enumerates(q, E, n)
  <2> HIDE DEF E, n
  <2>1. q = Ascending(E, n)
    BY DEF PlacesOf, E, n
  <2> QED
    BY <1>1, <2>1, AscendingEnumerates
<1>3. Len(q) = Count(trace, kind) /\ Len(q) \in Nat
  <2> HIDE DEF E, n
  <2>1. q \in Seq(E) /\ Len(q) = Cardinality(E)
    BY <1>1, <1>2 DEF Enumerates
  <2> QED
    BY <1>1, <2>1
<1>4. ASSUME NEW k \in 1..Len(q)
      PROVE  /\ q[k] \in 1..n /\ trace[q[k]].kind = kind
             /\ Rank(trace, kind, q[k]) = k
  <2>1. q[k] \in E /\ Cardinality(E \cap 1..q[k]) = k
    <3> HIDE DEF E, n, q
    <3>1. Ranked(q, E)
      BY <1>1, <1>2, EnumeratedRank
    <3> QED
      BY <3>1 DEF Ranked
  <2>2. E \cap 1..q[k] = {j \in 1..q[k] : trace[j].kind = kind}
    BY <1>1, <2>1
  <2> HIDE DEF q
  <2> QED
    BY <1>1, <2>1, <2>2 DEF Rank
<1>5. ASSUME NEW i \in 1..n, trace[i].kind = kind
      PROVE  Rank(trace, kind, i) \in 1..Len(q) /\ q[Rank(trace, kind, i)] = i
  <2>1. i \in E
    BY <1>1, <1>5
  <2> HIDE DEF E, n, q
  <2>2. PICK k \in 1..Len(q) : q[k] = i
    BY <1>1, <1>2, <2>1 DEF Enumerates
  <2> QED
    BY <1>4, <2>2
<1> HIDE DEF q
<1> QED
  BY <1>3, <1>4, <1>5 DEF q

(* The trace as the analysis reads it: every preparation with its audit,   *)
(* every result with its signature.                                        *)
LEMMA TraceRead ==
  ASSUME TypeOK, Exchanged, Presented, Paced
  PROVE  /\ Len(events) \in Nat /\ DOMAIN Trace = 1..Len(events)
         /\ Len(results) = Count(events, "tool_result")
         /\ DOMAIN results = 1..Count(events, "tool_result")
         /\ DOMAIN audits = 1..Count(events, "context_prepared")
         /\ \A i \in 1..Len(events) :
              /\ events[i].step \in Nat
              /\ Trace[i].kind = events[i].kind /\ Trace[i].step = events[i].step
              /\ events[i].kind = "context_prepared" =>
                   Trace[i].audit = audits[Rank(events, "context_prepared", i)]
              /\ events[i].kind = "tool_result" =>
                   Trace[i].signature = SignatureOf(results[Rank(events, "tool_result", i)])
<1>1. events \in Seq(AgentEvents) /\ results \in Seq(Results) /\ audits \in Seq(Audits)
  BY DEF TypeOK, Presented
<1>2. /\ Len(events) \in Nat /\ DOMAIN events = 1..Len(events)
      /\ DOMAIN results = 1..Len(results) /\ DOMAIN audits = 1..Len(audits)
      /\ \A i \in 1..Len(events) : events[i] \in AgentEvents
  BY <1>1
<1>3. Len(results) = Count(events, "tool_result")
  BY DEF Exchanged, ConversationMatchesTrace, Presented
<1>4. Len(audits) = Count(events, "context_prepared")
  BY DEF Paced
<1>5. \A kind, i : Nth(kind, i) = Rank(events, kind, i)
  BY DEF Nth, Rank
<1>6. ASSUME NEW i \in 1..Len(events)
      PROVE  /\ events[i].step \in Nat
             /\ Trace[i].kind = events[i].kind /\ Trace[i].step = events[i].step
             /\ events[i].kind = "context_prepared" =>
                  Trace[i].audit = audits[Rank(events, "context_prepared", i)]
             /\ events[i].kind = "tool_result" =>
                  Trace[i].signature = SignatureOf(results[Rank(events, "tool_result", i)])
  <2>1. events[i].step \in Nat
    BY <1>2, LimitsAssumption DEF AgentEvents
  <2>2. /\ Trace[i].kind = events[i].kind /\ Trace[i].step = events[i].step
        /\ events[i].kind = "context_prepared" =>
             Trace[i].audit = audits[Nth("context_prepared", i)]
        /\ events[i].kind = "tool_result" =>
             Trace[i].signature = SignatureOf(results[Nth("tool_result", i)])
    BY <1>2 DEF Trace
  <2> QED
    BY <1>5, <2>1, <2>2
<1>7. DOMAIN Trace = 1..Len(events)
  BY <1>2 DEF Trace
<1> QED
  BY <1>2, <1>3, <1>4, <1>6, <1>7

(* What the results of the run accessed.                                   *)
Signatures == {SignatureOf(results[k]) : k \in DOMAIN results}

LEMMA TraceAnalysable ==
  ASSUME TypeOK, Exchanged, Presented, Paced, Timed
  PROVE  Analysable(Trace, Len(events), Signatures)
<1>0. events \in Seq(AgentEvents) /\ DOMAIN events = 1..Len(events) /\ Len(events) \in Nat
  <2>1. events \in Seq(AgentEvents)
    BY DEF TypeOK
  <2> QED
    BY <2>1
<1>1. ASSUME NEW i \in Accesses(Trace, Len(events)) PROVE Trace[i].signature \in Signatures
  <2>1. i \in 1..Len(events) /\ events[i].kind = "tool_result"
    BY TraceRead DEF Accesses
  <2>2. Rank(events, "tool_result", i) \in 1..Count(events, "tool_result")
    BY <1>0, <2>1, PlacesRanked
  <2>3. Rank(events, "tool_result", i) \in DOMAIN results
        /\ Trace[i].signature = SignatureOf(results[Rank(events, "tool_result", i)])
    BY <2>1, <2>2, TraceRead
  <2> QED
    BY <2>3 DEF Signatures
<1>2. ASSUME NEW p \in 1..Len(events), NEW r \in 1..Len(events),
             Trace[p].kind = "context_prepared", Trace[r].kind = "context_prepared",
             Trace[p].step = Trace[r].step
      PROVE  p = r
  <2>1. /\ events[p].kind = "context_prepared" /\ events[r].kind = "context_prepared"
        /\ events[p].step = events[r].step
    BY <1>2, TraceRead
  <2>2. /\ events[p].step = Rank(events, "context_prepared", p) - 1
        /\ events[r].step = Rank(events, "context_prepared", r) - 1
    BY <1>0, <2>1 DEF Timed
  <2>3. /\ Rank(events, "context_prepared", p) \in 1..Count(events, "context_prepared")
        /\ Rank(events, "context_prepared", r) \in 1..Count(events, "context_prepared")
        /\ Count(events, "context_prepared") \in Nat
    BY <1>0, <2>1, PlacesRanked
  <2>4. Rank(events, "context_prepared", p) = Rank(events, "context_prepared", r)
    <3>1. Rank(events, "context_prepared", p) \in Nat
          /\ Rank(events, "context_prepared", r) \in Nat
      BY <2>3
    <3>2. PICK x, y \in Nat : x = Rank(events, "context_prepared", p)
                             /\ y = Rank(events, "context_prepared", r)
      BY <3>1
    <3>3. x - 1 = y - 1
      BY <2>1, <2>2, <3>2
    <3> QED
      BY <3>2, <3>3
  <2>5. PlacesOf(events, "context_prepared")[Rank(events, "context_prepared", p)] = p
    BY <1>0, <2>1, PlacesRanked
  <2>6. PlacesOf(events, "context_prepared")[Rank(events, "context_prepared", r)] = r
    BY <1>0, <2>1, PlacesRanked
  <2> QED
    BY <2>4, <2>5, <2>6
<1> QED
  BY <1>1, <1>2, TraceRead DEF Analysable

(* The accesses of the trace are those of the results, each once.          *)
Accessing == {k \in DOMAIN results : SignatureOf(results[k]) # <<>>}

LEMMA AccessesPaired ==
  ASSUME TypeOK, Exchanged, Presented, Paced
  PROVE  /\ \A k \in Accessing :
              /\ PlacesOf(events, "tool_result")[k] \in Accesses(Trace, Len(events))
              /\ Trace[PlacesOf(events, "tool_result")[k]].signature = SignatureOf(results[k])
              /\ Rank(events, "tool_result", PlacesOf(events, "tool_result")[k]) = k
         /\ Cardinality(Accessing) = Cardinality(Accesses(Trace, Len(events)))
         /\ {SignatureOf(results[k]) : k \in Accessing} = SignaturesIn(Trace, Len(events))
<1> DEFINE n == Len(events)
           at == PlacesOf(events, "tool_result")
           A == Accesses(Trace, n)
           f == [k \in Accessing |-> at[k]]
<1>0. events \in Seq(AgentEvents)
  BY DEF TypeOK
<1>1. ASSUME NEW k \in Accessing
      PROVE  at[k] \in A /\ Trace[at[k]].signature = SignatureOf(results[k])
             /\ Rank(events, "tool_result", at[k]) = k
  <2>1. k \in 1..Count(events, "tool_result") /\ SignatureOf(results[k]) # <<>>
    BY TraceRead DEF Accessing
  <2>2. at[k] \in 1..n /\ events[at[k]].kind = "tool_result"
        /\ Rank(events, "tool_result", at[k]) = k
    BY <1>0, <2>1, PlacesRanked
  <2> HIDE DEF at
  <2>3. Trace[at[k]].kind = "tool_result" /\ Trace[at[k]].signature = SignatureOf(results[k])
    BY <2>2, TraceRead
  <2> QED
    BY <2>1, <2>2, <2>3 DEF Accesses
<1>2. ASSUME NEW i \in A
      PROVE  \E k \in Accessing : at[k] = i
  <2>1. i \in 1..n /\ events[i].kind = "tool_result" /\ Trace[i].signature # <<>>
    BY TraceRead DEF Accesses
  <2>2. /\ Rank(events, "tool_result", i) \in 1..Count(events, "tool_result")
        /\ at[Rank(events, "tool_result", i)] = i
    BY <1>0, <2>1, PlacesRanked
  <2> HIDE DEF at
  <2>3. Rank(events, "tool_result", i) \in Accessing
    BY <2>1, <2>2, TraceRead DEF Accessing
  <2> QED
    BY <2>2, <2>3
<1> HIDE DEF A, at
<1>3. f \in Bijection(Accessing, A)
  <2>1. f \in [Accessing -> A]
    BY <1>1
  <2>2. \A k, l \in Accessing : f[k] = f[l] => k = l
    BY <1>1
  <2>3. \A i \in A : \E k \in Accessing : f[k] = i
    BY <1>2
  <2> HIDE DEF f
  <2> QED
    BY <2>1, <2>2, <2>3 DEF Bijection, Injection, Surjection, IsInjective
<1>4. IsFiniteSet(Accessing)
  <2>1. Count(events, "tool_result") \in Nat
    BY <1>0, PlacesRanked
  <2>2. IsFiniteSet(1..Count(events, "tool_result"))
    BY <2>1, FS_Interval
  <2>3. Accessing \in SUBSET (1..Count(events, "tool_result"))
    BY TraceRead DEF Accessing
  <2> QED
    BY <2>2, <2>3, FS_Subset
<1> HIDE DEF f
<1>5. Cardinality(Accessing) = Cardinality(A)
  BY <1>3, <1>4, FS_Bijection DEF ExistsBijection
<1>6. {SignatureOf(results[k]) : k \in Accessing} = {Trace[i].signature : i \in A}
  BY <1>1, <1>2
<1> QED
  BY <1>1, <1>5, <1>6 DEF A, at, SignaturesIn

(* A result shown reduced after it came and up to a repeat of its access   *)
(* was reduced by a preparation between the two.                           *)
LEMMA LossFound ==
  ASSUME TypeOK, Exchanged, Presented, Paced, Timed,
         NEW e, Evident(e, Trace, Len(events)),
         NEW k \in Accessing, SignatureOf(results[k]) = e.signature,
         NEW a \in DOMAIN audits, audits[a].step <= e.repeated,
         k \in DOMAIN audits[a].reductions, audits[a].reductions[k].method # "none"
  PROVE  e.supported
<1> DEFINE n == Len(events)
           at == PlacesOf(events, "tool_result")[k]
           r == PlacesOf(events, "context_prepared")[a]
           T(i) == Rank(events, "tool_result", i)
           P(i) == Rank(events, "context_prepared", i)
<1>0. events \in Seq(AgentEvents) /\ DOMAIN events = 1..n /\ n \in Nat
      /\ audits \in Seq(Audits)
  <2>1. events \in Seq(AgentEvents) /\ audits \in Seq(Audits)
    BY DEF TypeOK, Presented
  <2> QED
    BY <2>1
<1>1. PICK j \in Accesses(Trace, n) : \E i \in Accesses(Trace, n) :
        /\ e.signature = Trace[j].signature /\ e.signature = Trace[i].signature
        /\ e.repeated = Trace[j].step /\ e.first = Trace[i].step
        /\ IsFirst(Trace, n, i)
        /\ \A p \in Removals(Trace, j) :
             Trace[i].step < Trace[p].step /\ Trace[p].step <= Trace[j].step => e.supported
  BY DEF Evident
<1>2. PICK i \in Accesses(Trace, n) :
        /\ e.signature = Trace[i].signature /\ e.repeated = Trace[j].step
        /\ IsFirst(Trace, n, i)
        /\ \A p \in Removals(Trace, j) :
             Trace[i].step < Trace[p].step /\ Trace[p].step <= Trace[j].step => e.supported
  BY <1>1
<1>3. /\ i \in 1..n /\ events[i].kind = "tool_result" /\ Trace[i].step = events[i].step
      /\ j \in 1..n /\ events[j].kind = "tool_result" /\ Trace[j].step = events[j].step
  BY TraceRead DEF Accesses
<1>4. at \in Accesses(Trace, n) /\ Trace[at].signature = e.signature /\ T(at) = k
  BY AccessesPaired
<1>5. at \in 1..n /\ events[at].kind = "tool_result" /\ i <= at
  <2> HIDE DEF at
  <2> QED
    BY <1>2, <1>4, TraceRead DEF Accesses, IsFirst
<1>6. r \in 1..n /\ events[r].kind = "context_prepared" /\ P(r) = a
      /\ a \in 1..Count(events, "context_prepared")
  <2>1. a \in 1..Count(events, "context_prepared")
    BY TraceRead
  <2> QED
    BY <1>0, <2>1, PlacesRanked
<1> HIDE DEF at, r
<1>7. /\ Trace[r].kind = "context_prepared" /\ Trace[r].step = events[r].step
      /\ Trace[r].audit = audits[a]
  BY <1>6, TraceRead
<1>8. /\ events[i].step = P(i) - 1 /\ events[j].step = P(j) - 1 /\ events[r].step = P(r) - 1
      /\ audits[a].step = a - 1
      /\ Len(audits[a].reductions) <= T(r)
      /\ audits[a].removed # {}
  <2>1. events[i].step = P(i) - 1 /\ events[j].step = P(j) - 1 /\ events[r].step = P(r) - 1
    BY <1>0, <1>3, <1>6 DEF Timed
  <2>2. audits[a].step = a - 1
    BY DEF Paced
  <2>3. Len(audits[P(r)].reductions) <= T(r)
    BY <1>0, <1>6 DEF Timed
  <2>4. Marked(audits[a])
    BY DEF Timed
  <2> QED
    BY <1>6, <2>1, <2>2, <2>3, <2>4 DEF Marked
<1>9. k \in Nat /\ k <= Len(audits[a].reductions) /\ Len(audits[a].reductions) \in Nat
  <2>1. audits[a] \in Audits
    BY <1>0
  <2>2. audits[a].reductions \in Seq(Cuts)
    BY <2>1 DEF Audits
  <2> QED
    BY <2>2
<1>10. \A x, y \in 1..n :
         /\ T(x) \in Nat /\ P(x) \in Nat /\ x \in Nat /\ y \in Nat
         /\ x <= y => T(x) <= T(y) /\ P(x) <= P(y)
         /\ x < y /\ events[y].kind = "context_prepared" => P(x) < P(y)
  <2> SUFFICES ASSUME NEW x \in 1..n, NEW y \in 1..n
               PROVE  /\ T(x) \in Nat /\ P(x) \in Nat /\ x \in Nat /\ y \in Nat
                      /\ x <= y => T(x) <= T(y) /\ P(x) <= P(y)
                      /\ x < y /\ events[y].kind = "context_prepared" => P(x) < P(y)
    OBVIOUS
  <2>1. x \in Nat /\ y \in Nat /\ x <= x
    BY <1>0
  <2>2. T(x) \in Nat /\ P(x) \in Nat
    BY <2>1, RankGrows
  <2>3. ASSUME x <= y PROVE T(x) <= T(y) /\ P(x) <= P(y)
    BY <2>1, <2>3, RankGrows
  <2>4. ASSUME x < y, events[y].kind = "context_prepared" PROVE P(x) < P(y)
    <3>1. x <= y
      BY <2>1, <2>4
    <3> QED
      BY <2>1, <2>4, <3>1, RankGrows
  <2> QED
    BY <2>1, <2>2, <2>3, <2>4
<1> HIDE DEF T, P, n
<1>11. at < r
  <2>1. k <= T(r) /\ T(r) \in Nat
    BY <1>6, <1>8, <1>9, <1>10
  <2>2. at # r
    BY <1>5, <1>6
  <2>3. r < at => T(r) < T(at)
    <3> SUFFICES ASSUME r < at PROVE T(r) < T(at)
      OBVIOUS
    <3>1. r \in Nat /\ at \in Nat /\ r <= at
      BY <1>5, <1>6, <1>10
    <3> QED
      BY <1>5, <3>1, RankGrows DEF T
  <2> QED
    BY <1>4, <1>5, <1>6, <1>10, <2>1, <2>2, <2>3
<1>12. events[i].step < events[r].step
  <2>1. i < r
    BY <1>3, <1>5, <1>6, <1>10, <1>11
  <2>2. P(i) < P(r)
    BY <1>3, <1>6, <1>10, <2>1
  <2> QED
    BY <1>3, <1>6, <1>8, <1>10, <2>2
<1>13. r < j
  <2>1. P(r) <= P(j)
    BY <1>2, <1>3, <1>6, <1>8, <1>10
  <2>2. j # r
    BY <1>3, <1>6
  <2>3. ~(j < r)
    BY <1>3, <1>6, <1>10, <2>1
  <2> QED
    BY <1>3, <1>6, <1>10, <2>2, <2>3
<1>14. r \in Removals(Trace, j)
  <2>1. r \in 1..j
    BY <1>3, <1>6, <1>13 DEF n
  <2> QED
    BY <1>7, <1>8, <2>1 DEF Removals
<1>15. Trace[i].step < Trace[r].step /\ Trace[r].step <= Trace[j].step
  BY <1>2, <1>3, <1>6, <1>7, <1>8, <1>12
<1> QED
  BY <1>2, <1>14, <1>15

(* Whatever was cut and whenever, the analysis of repeated accesses counts *)
(* each repeat once and finds each loss a repeat may be due to.            *)
THEOREM LossesAreFound == BoundedSpec => []LossNeverMissed
<1>1. TypeOK /\ Exchanged /\ Presented /\ Paced /\ Timed => LossNeverMissed
  <2> SUFFICES ASSUME TypeOK, Exchanged, Presented, Paced, Timed PROVE LossNeverMissed
    OBVIOUS
  <2> DEFINE n == Len(events)
             found == AnalyzeRepeatedAccess(Trace)
             evidence == found.evidence
             sigs == {SignatureOf(results[k]) : k \in Accessing}
  <2>1. found \in Attributing(Signatures) /\ Known(found, Trace, n, n)
    <3>1. PICK t, signatures : t = Trace /\ signatures = Signatures
      OBVIOUS
    <3>2. PICK m \in Nat : m = n
      BY TraceRead
    <3>3. Analysable(t, m, signatures)
      BY <3>1, <3>2, TraceAnalysable
    <3>4. AnalyzeRepeatedAccess(t) \in Attributing(signatures)
          /\ Known(AnalyzeRepeatedAccess(t), t, m, m)
      BY <3>3, AccessAnalysed
    <3> QED
      BY <3>1, <3>2, <3>4
  <2> HIDE DEF found, n
  <2>2. evidence \in Seq(Attributions(Signatures))
    BY <2>1 DEF Attributing
  <2>3. Len(evidence) = Cardinality(Accessing) - Cardinality(sigs)
    <3>1. Len(evidence) + Cardinality(SignaturesIn(Trace, n)) = Cardinality(Accesses(Trace, n))
      BY <2>1 DEF Known
    <3>2. Cardinality(SignaturesIn(Trace, n)) \in Nat /\ Cardinality(Accesses(Trace, n)) \in Nat
          /\ Len(evidence) \in Nat
      <4>1. n \in Nat
        BY TraceRead DEF n
      <4> QED
        BY <2>2, <4>1, AccessesFinite
    <3>3. Cardinality(Accessing) = Cardinality(Accesses(Trace, n))
          /\ sigs = SignaturesIn(Trace, n)
      BY AccessesPaired DEF n
    <3> HIDE DEF sigs, evidence
    <3> QED
      BY <3>1, <3>2, <3>3
  <2>4. ASSUME NEW e \in ToSet(evidence), NEW k \in Accessing,
               SignatureOf(results[k]) = e.signature,
               \E a \in DOMAIN audits :
                 /\ audits[a].step <= e.repeated /\ k \in DOMAIN audits[a].reductions
                 /\ audits[a].reductions[k].method # "none"
        PROVE  e.supported
    <3>1. PICK m \in 1..Len(evidence) : e = evidence[m]
      BY <2>2 DEF ToSet
    <3>2. Evident(e, Trace, n)
      BY <2>1, <3>1 DEF Known
    <3>3. PICK a \in DOMAIN audits :
            /\ audits[a].step <= e.repeated /\ k \in DOMAIN audits[a].reductions
            /\ audits[a].reductions[k].method # "none"
      BY <2>4
    <3> QED
      BY <2>4, <3>2, <3>3, LossFound DEF n
  <2> HIDE DEF sigs, evidence
  <2> QED
    BY <2>3, <2>4 DEF LossNeverMissed, evidence, found, sigs, Accessing
<1>2. BoundedSpec => []TypeOK
  BY BoundedImplementsLoop, TypeCorrect, PTL
<1>3. BoundedSpec => []Exchanged
  BY BoundedImplementsLoop, ExchangedInvariant, PTL
<1> QED
  BY <1>1, <1>2, <1>3, PresentedInvariant, PacedInvariant, TimedInvariant, PTL
=============================================================================
