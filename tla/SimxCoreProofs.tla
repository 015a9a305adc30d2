--------------------------- MODULE SimxCoreProofs ---------------------------
(***************************************************************************)
(* Proofs about SimxCore, for every core, every launch and every           *)
(* structured program.                                                     *)
(***************************************************************************)
EXTENDS SimxCore, FiniteSetTheorems, WellFoundedInduction, TLAPS

(***************************************************************************)
(* The program: which splits enclose an instruction.                       *)
(***************************************************************************)
Encl(p) == {s \in At("split") : s < p /\ \A q \in (s + 1)..p : Depth[q] > Depth[s]}

(* The constants have their types.                                         *)
LEMMA ProgramFacts ==
  /\ Len(Program) \in Pcs /\ Len(Program) \in Nat /\ Pcs \subseteq Nat
  /\ \A i \in Pcs : Program[i].op \in Ops /\ Program[i].bar \in Bars
  /\ \A op : At(op) \subseteq Pcs
  /\ \A i \in Pcs : Program[i].op = "exit" <=> i = Len(Program)
<1>1. Len(Program) \in Nat /\ \A i \in 1..Len(Program) : Program[i] \in [op : Ops, bar : Bars]
  <2>1. Program \in Seq([op : Ops, bar : Bars])
    BY ProgramAssumption
  <2>2. \A T : Program \in Seq(T) => Len(Program) \in Nat /\ \A i \in 1..Len(Program) : Program[i] \in T
    OBVIOUS
  <2> QED BY <2>1, <2>2, Zenon
<1>2. \A i \in Pcs : Program[i].op \in Ops /\ Program[i].bar \in Bars
  BY <1>1 DEF Pcs
<1>3. \A op : At(op) \subseteq Pcs
  BY DEF At
<1>4. \A i \in Pcs : Program[i].op = "exit" <=> i = Len(Program)
  BY ProgramAssumption DEF At
<1>5. Len(Program) \in Pcs
  BY <1>3, ProgramAssumption
<1> QED BY <1>1, <1>2, <1>3, <1>4, <1>5 DEF Pcs

(* Going past an instruction counts it if it belongs to the set.           *)
LEMMA CountStep ==
  ASSUME NEW S \in SUBSET Pcs, NEW i \in Pcs
  PROVE  /\ Cardinality({s \in S : s < i}) \in Nat
         /\ Cardinality({s \in S : s < i + 1})
            = Cardinality({s \in S : s < i}) + (IF i \in S THEN 1 ELSE 0)
<1> DEFINE B == {s \in S : s < i}
           A == {s \in S : s < i + 1}
<1>0. S \subseteq Nat /\ i \in Nat
  BY ProgramFacts
<1>4. ~(i < i) /\ \A s \in S : s < i + 1 <=> s < i \/ s = i
  BY <1>0
<1>1. IsFiniteSet(B)
  <2>1. IsFiniteSet(1..Len(Program))
    BY ProgramFacts, FS_Interval
  <2> QED BY <2>1, FS_Subset DEF Pcs
<1>2. CASE i \in S
  <2>1. A = B \cup {i} /\ i \notin B
    BY <1>0, <1>2, <1>4, Zenon
  <2> QED BY <1>1, <1>2, <2>1, FS_AddElement, FS_CardinalityType
<1>3. CASE i \notin S
  <2>1. A = B
    BY <1>0, <1>3, <1>4, Zenon
  <2> QED BY <1>1, <1>3, <2>1, FS_CardinalityType
<1> QED BY <1>2, <1>3

(* The depth of the next instruction.                                      *)
LEMMA DepthStep ==
  /\ \A i \in Pcs : Depth[i] \in Nat
  /\ Depth[1] = 0
  /\ \A i \in Pcs : i + 1 \in Pcs =>
       Depth[i + 1] = IF Program[i].op = "split" THEN Depth[i] + 1
                      ELSE IF Program[i].op = "join" THEN Depth[i] - 1 ELSE Depth[i]
<1> DEFINE C(op, i) == Cardinality({s \in At(op) : s < i})
<1>1. \A i \in Pcs : Depth[i] = C("split", i) - C("join", i)
  BY DEF Depth
<1>2. \A i \in Pcs, op \in {"split", "join"} :
        C(op, i) \in Nat /\ C(op, i + 1) = C(op, i) + (IF Program[i].op = op THEN 1 ELSE 0)
  <2> SUFFICES ASSUME NEW i \in Pcs, NEW op \in {"split", "join"}
      PROVE C(op, i) \in Nat /\ C(op, i + 1) = C(op, i) + (IF Program[i].op = op THEN 1 ELSE 0)
    OBVIOUS
  <2>1. i \in At(op) <=> Program[i].op = op
    BY DEF At
  <2>2. At(op) \in SUBSET Pcs
    BY ProgramFacts
  <2> HIDE DEF C
  <2>3. /\ C(op, i) \in Nat
        /\ C(op, i + 1) = C(op, i) + (IF i \in At(op) THEN 1 ELSE 0)
    BY <2>2, CountStep DEF C
  <2> QED BY <2>1, <2>3
<1>3. Depth[1] = 0
  <2>1. \A op : {s \in At(op) : s < 1} = {}
    BY ProgramFacts DEF Pcs
  <2>2. C("split", 1) = 0 /\ C("join", 1) = 0
    BY <2>1, FS_EmptySet
  <2>3. 1 \in Pcs
    BY ProgramFacts DEF Pcs
  <2> QED BY <1>1, <2>2, <2>3
<1> HIDE DEF C
<1>4. \A i \in Pcs : Depth[i] \in Nat
  BY <1>1, <1>2, ProgramAssumption
<1>5. ASSUME NEW i \in Pcs, i + 1 \in Pcs
      PROVE  Depth[i + 1] = IF Program[i].op = "split" THEN Depth[i] + 1
                            ELSE IF Program[i].op = "join" THEN Depth[i] - 1 ELSE Depth[i]
  <2>1. /\ Depth[i] = C("split", i) - C("join", i)
        /\ Depth[i + 1] = C("split", i + 1) - C("join", i + 1)
    BY <1>1, <1>5
  <2>2. /\ C("split", i) \in Nat /\ C("join", i) \in Nat
        /\ C("split", i + 1) = C("split", i) + (IF Program[i].op = "split" THEN 1 ELSE 0)
        /\ C("join", i + 1) = C("join", i) + (IF Program[i].op = "join" THEN 1 ELSE 0)
    BY <1>2
  <2> QED BY <2>1, <2>2
<1> QED BY <1>3, <1>4, <1>5

(* A nonempty set of program positions has a greatest element.             *)
LEMMA Greatest ==
  ASSUME NEW S \in SUBSET Pcs, S # {}
  PROVE  \E x \in S : \A y \in S : y <= x
<1> DEFINE T == {Len(Program) - y : y \in S}
           R == {ss \in Nat \X Nat : ss[1] < ss[2]}
<1>1. T \subseteq Nat /\ T # {}
  <2>1. Len(Program) \in Nat /\ S \subseteq 1..Len(Program)
    BY ProgramFacts DEF Pcs
  <2>2. \A y \in S : Len(Program) - y \in Nat
    BY <2>1
  <2> QED BY <2>2, Zenon
<1>2. IsWellFoundedOn(R, Nat)
  BY NatLessThanWellFounded, Zenon DEF OpToRel
<1>3. \E x \in T : \A y \in T : ~(<<y, x>> \in R)
  <2> HIDE DEF R, T
  <2> QED BY <1>1, <1>2, WFMin
<1>4. PICK x \in S : \A y \in S : ~(<<Len(Program) - y, Len(Program) - x>> \in R)
  BY <1>3
<1>5. ASSUME NEW y \in S PROVE y <= x
  <2>1. x \in Nat /\ y \in Nat /\ Len(Program) \in Nat /\ y <= Len(Program) /\ x <= Len(Program)
    BY ProgramFacts DEF Pcs
  <2>2. ~(Len(Program) - y < Len(Program) - x)
    <3>1. Len(Program) - y \in Nat /\ Len(Program) - x \in Nat
      BY <2>1
    <3>2. \A u, v \in Nat : u < v => <<u, v>> \in R
      OBVIOUS
    <3> HIDE DEF R
    <3> QED BY <1>4, <3>1, <3>2
  <2> QED BY <2>1, <2>2
<1> QED BY <1>5

(* The greatest and the least element of a set of naturals, where known.   *)
LEMMA MaxIs ==
  ASSUME NEW S \in SUBSET Nat, NEW x \in S, \A y \in S : y <= x
  PROVE  Max(S) = x
<1>1. \E m \in S : \A y \in S : m >= y
  BY \A y \in S : x >= y
<1>2. Max(S) \in S /\ \A y \in S : Max(S) >= y
  BY <1>1, Zenon DEF Max
<1>3. Max(S) \in Nat /\ x \in Nat /\ Max(S) >= x /\ Max(S) <= x
  BY <1>2
<1> QED BY <1>3

(* The least element of a set of naturals.                                 *)
LEMMA MinIs ==
  ASSUME NEW S \in SUBSET Nat, NEW x \in S, \A y \in S : x <= y
  PROVE  Min(S) = x
<1>1. Min(S) \in S /\ \A y \in S : Min(S) <= y
  BY Zenon DEF Min
<1>2. Min(S) \in Nat /\ x \in Nat /\ Min(S) >= x /\ Min(S) <= x
  BY <1>1
<1> QED BY <1>2

(* The innermost split around a join is the one it belongs to.             *)
LEMMA SplitOfJoin ==
  ASSUME NEW j \in At("join")
  PROVE  /\ SplitOf[j] \in At("split") /\ SplitOf[j] < j
         /\ Depth[SplitOf[j]] = Depth[j] - 1
         /\ \A q \in Pcs : SplitOf[j] < q /\ q <= j => Depth[q] >= Depth[j]
<1>1. j \in Pcs /\ j + 1 \in Pcs /\ Program[j].op = "join" /\ j \in Nat
  BY ProgramFacts DEF At, Pcs
<1>2. Depth[j] >= 1 /\ Depth[j] \in Nat /\ 1 \in Pcs /\ Depth[1] = 0
  <2>1. Depth[j + 1] = Depth[j] - 1 /\ Depth[j + 1] \in Nat /\ Depth[j] \in Nat
    BY <1>1, DepthStep
  <2> QED BY <1>1, <2>1, DepthStep DEF Pcs
<1> DEFINE L == {q \in Pcs : q < j /\ Depth[q] < Depth[j]}
           S == {s \in At("split") : s < j /\ Depth[s] = Depth[j] - 1}
<1>3. L \in SUBSET Pcs /\ L # {}
  <2>1. 1 # j
    BY <1>2
  <2> QED BY <1>1, <1>2, <2>1 DEF Pcs
<1>4. PICK m \in L : \A y \in L : y <= m
  <2> HIDE DEF L
  <2> QED BY <1>3, Greatest
<1>5. m \in Pcs /\ m \in Nat /\ m < j /\ Depth[m] < Depth[j] /\ Depth[m] \in Nat /\ m + 1 \in Pcs
  BY <1>1, <1>4, DepthStep, ProgramFacts DEF Pcs
<1>6. \A q \in Pcs : m < q /\ q <= j => Depth[q] >= Depth[j]
  <2> SUFFICES ASSUME NEW q \in Pcs, m < q, q <= j, ~(Depth[q] >= Depth[j]) PROVE FALSE
    OBVIOUS
  <2>1. q \in Nat /\ Depth[q] \in Nat
    BY DepthStep, ProgramFacts
  <2>2. q # j /\ q < j /\ Depth[q] < Depth[j]
    BY <1>1, <1>2, <2>1
  <2>3. q \in L
    BY <2>2
  <2> QED BY <1>4, <1>5, <2>1, <2>3
<1>7. Depth[m + 1] >= Depth[j]
  BY <1>1, <1>5, <1>6
<1>8. Program[m].op = "split" /\ Depth[m] = Depth[j] - 1
  BY <1>2, <1>5, <1>7, DepthStep
<1>9. m \in S
  BY <1>5, <1>8 DEF At
<1>10. \A y \in S : y <= m
  <2> SUFFICES ASSUME NEW y \in S PROVE y <= m
    OBVIOUS
  <2>1. y \in Pcs /\ y < j /\ Depth[y] = Depth[j] - 1
    BY DEF At
  <2>2. y \in L
    BY <1>2, <2>1
  <2> QED BY <1>4, <2>2
<1>11. SplitOf[j] = Max(S)
  BY DEF SplitOf
<1>12. S \in SUBSET Nat
  BY ProgramFacts DEF At
<1>13. Max(S) = m
  <2> HIDE DEF S
  <2> QED BY <1>9, <1>10, <1>12, MaxIs
<1> QED BY <1>5, <1>6, <1>8, <1>9, <1>11, <1>13

(* What encloses the first instruction: nothing; nor does anything at      *)
(* depth 0.                                                                *)
LEMMA EnclOutside == \A p \in Pcs : Depth[p] = 0 => Encl(p) = {}
<1> SUFFICES ASSUME NEW p \in Pcs, Depth[p] = 0, NEW s \in Encl(p) PROVE FALSE
  OBVIOUS
<1>1. s \in Pcs /\ s \in Nat /\ p \in Nat /\ s < p /\ \A q \in (s + 1)..p : Depth[q] > Depth[s]
  BY ProgramFacts DEF Encl, At
<1>2. p \in (s + 1)..p /\ Depth[s] \in Nat
  BY <1>1, DepthStep
<1> QED BY <1>1, <1>2

(* Past an instruction that neither splits nor joins nothing changes.      *)
LEMMA EnclStep ==
  ASSUME NEW i \in Pcs, i + 1 \in Pcs, Program[i].op \notin {"split", "join"}
  PROVE  Encl(i + 1) = Encl(i)
<1>1. Depth[i + 1] = Depth[i] /\ i \in Nat
  BY DepthStep, ProgramFacts
<1>2. \A s \in At("split") : s \in Nat /\ s # i
  BY ProgramFacts DEF At
<1>3. ASSUME NEW s \in At("split")
      PROVE  s \in Encl(i + 1) <=> s \in Encl(i)
  <2>1. s \in Nat /\ s # i
    BY <1>2
  <2>2. s < i + 1 <=> s < i
    BY <1>1, <2>1
  <2>3. ASSUME s < i
        PROVE  (\A q \in (s + 1)..(i + 1) : Depth[q] > Depth[s])
               <=> \A q \in (s + 1)..i : Depth[q] > Depth[s]
    <3>1. (s + 1)..(i + 1) = ((s + 1)..i) \cup {i + 1} /\ i \in (s + 1)..i
      BY <1>1, <2>1, <2>3
    <3> QED BY <1>1, <3>1
  <2> QED BY <2>2, <2>3 DEF Encl
<1> QED BY <1>3 DEF Encl

(* Past a split, it encloses too.                                          *)
LEMMA EnclSplit ==
  ASSUME NEW i \in At("split")
  PROVE  /\ Encl(i + 1) = Encl(i) \cup {i}
         /\ i \notin Encl(i) /\ \A s \in Encl(i) : s < i
<1>1. i \in Pcs /\ i \in Nat /\ i + 1 \in Pcs /\ Program[i].op = "split"
  BY ProgramFacts DEF At, Pcs
<1>2. Depth[i + 1] = Depth[i] + 1 /\ Depth[i] \in Nat
  BY <1>1, DepthStep
<1>3. ASSUME NEW s \in At("split")
      PROVE  s \in Encl(i + 1) <=> s \in Encl(i) \/ s = i
  <2>1. s \in Nat /\ Depth[s] \in Nat
    BY ProgramFacts, DepthStep DEF At
  <2>2. CASE s = i
    <3>1. (s + 1)..(i + 1) = {i + 1}
      BY <1>1, <2>2
    <3> QED BY <1>1, <1>2, <2>2, <3>1 DEF Encl
  <2>3. CASE s < i
    <3>1. (s + 1)..(i + 1) = ((s + 1)..i) \cup {i + 1} /\ i \in (s + 1)..i
      BY <1>1, <2>1, <2>3
    <3>2. s < i + 1
      BY <1>1, <2>1, <2>3
    <3>3. (\A q \in (s + 1)..(i + 1) : Depth[q] > Depth[s])
          <=> \A q \in (s + 1)..i : Depth[q] > Depth[s]
      <4>1. Depth[i] > Depth[s] => Depth[i + 1] > Depth[s]
        BY <1>2, <2>1
      <4> QED BY <3>1, <4>1
    <3>4. s # i
      BY <1>1, <2>1, <2>3
    <3> QED BY <2>3, <3>2, <3>3, <3>4 DEF Encl
  <2>4. CASE s > i
    <3>1. ~(s < i) /\ ~(s < i + 1) /\ s # i
      BY <1>1, <2>1, <2>4
    <3> QED BY <3>1 DEF Encl
  <2> QED BY <1>1, <2>1, <2>2, <2>3, <2>4
<1>4. i \notin Encl(i) /\ \A s \in Encl(i) : s < i
  BY <1>1 DEF Encl
<1> QED BY <1>3, <1>4 DEF Encl

(* Around a join: the split it belongs to is the innermost one, and what   *)
(* encloses its two sides is the same.                                     *)
LEMMA EnclJoin ==
  ASSUME NEW j \in At("join")
  PROVE  /\ SplitOf[j] \in Encl(j)
         /\ \A s \in Encl(j) : s <= SplitOf[j]
         /\ Encl(j + 1) = Encl(j) \ {SplitOf[j]}
         /\ Encl(SplitOf[j] + 1) = Encl(j)
<1> DEFINE m == SplitOf[j]
<1>1. j \in Pcs /\ j \in Nat /\ j + 1 \in Pcs /\ Program[j].op = "join"
  BY ProgramFacts DEF At, Pcs
<1>2. /\ m \in At("split") /\ m < j /\ Depth[m] = Depth[j] - 1
      /\ \A q \in Pcs : m < q /\ q <= j => Depth[q] >= Depth[j]
  BY SplitOfJoin
<1> HIDE DEF m
<1>3. m \in Pcs /\ m \in Nat /\ m + 1 \in Pcs /\ Depth[m] \in Nat /\ Depth[j] \in Nat
      /\ Depth[j + 1] = Depth[j] - 1
  <2>1. m \in Pcs
    BY <1>2, ProgramFacts
  <2>2. m \in Nat /\ m + 1 \in Pcs
    BY <1>1, <1>2, <2>1, ProgramFacts DEF Pcs
  <2> QED BY <1>1, <2>1, <2>2, DepthStep
<1>4. \A s \in At("split") : s \in Pcs /\ s \in Nat /\ Depth[s] \in Nat /\ Program[s].op = "split"
  BY ProgramFacts, DepthStep DEF At
<1>5. \A q \in Pcs : Depth[q] \in Nat /\ q \in Nat
  BY DepthStep, ProgramFacts
<1>6. \A s \in Nat, p \in Pcs : \A q \in (s + 1)..p : q \in Pcs /\ s < q /\ q <= p
  BY ProgramFacts DEF Pcs
<1>7. m \in Encl(j)
  <2>1. \A q \in (m + 1)..j : Depth[q] > Depth[m]
    <3> SUFFICES ASSUME NEW q \in (m + 1)..j PROVE Depth[q] > Depth[m]
      OBVIOUS
    <3>1. q \in Pcs /\ m < q /\ q <= j
      BY <1>1, <1>3, <1>6
    <3> QED BY <1>2, <1>3, <1>5, <3>1
  <2> QED BY <1>2, <2>1 DEF Encl
<1>8. ASSUME NEW s \in Encl(j) PROVE s <= m
  <2>1. s \in At("split") /\ s < j /\ \A q \in (s + 1)..j : Depth[q] > Depth[s]
    BY DEF Encl
  <2>2. Depth[s] < Depth[j]
    <3>1. j \in (s + 1)..j
      BY <1>1, <1>4, <2>1
    <3> QED BY <1>3, <1>4, <2>1, <3>1
  <2>3. s \in Pcs /\ s \in Nat /\ Depth[s] \in Nat /\ s <= j
    BY <1>1, <1>4, <2>1
  <2>4. ~(m < s)
    BY <1>2, <1>3, <2>2, <2>3
  <2> QED BY <1>3, <2>3, <2>4
<1>9. ASSUME NEW s \in At("split")
      PROVE  s \in Encl(j + 1) <=> s \in Encl(j) /\ s # m
  <2>1. s \in Nat /\ Depth[s] \in Nat /\ s # j
    BY <1>1, <1>4
  <2>2. s < j + 1 <=> s < j
    BY <1>1, <2>1
  <2>3. ASSUME s \in Encl(j + 1) PROVE s \in Encl(j) /\ s # m
    <3>1. s < j /\ \A q \in (s + 1)..(j + 1) : Depth[q] > Depth[s]
      BY <2>2, <2>3 DEF Encl
    <3>2. j + 1 \in (s + 1)..(j + 1) /\ (s + 1)..j \subseteq (s + 1)..(j + 1)
      BY <1>1, <2>1, <3>1
    <3>3. Depth[j + 1] > Depth[s]
      BY <3>1, <3>2
    <3> QED BY <1>2, <1>3, <2>1, <3>1, <3>2, <3>3 DEF Encl
  <2>4. ASSUME s \in Encl(j), s # m PROVE s \in Encl(j + 1)
    <3>1. s < m /\ s < j /\ s < j + 1
      BY <1>1, <1>2, <1>3, <1>8, <2>1, <2>4
    <3>2. \A q \in (s + 1)..j : Depth[q] > Depth[s]
      BY <2>4 DEF Encl
    <3>3. m \in (s + 1)..j /\ (s + 1)..(j + 1) = ((s + 1)..j) \cup {j + 1}
      BY <1>1, <1>2, <1>3, <2>1, <3>1
    <3>4. Depth[m] > Depth[s]
      BY <3>2, <3>3
    <3>5. Depth[j + 1] > Depth[s]
      BY <1>2, <1>3, <3>4
    <3> QED BY <3>1, <3>2, <3>3, <3>5 DEF Encl
  <2> QED BY <2>3, <2>4
<1>10. ASSUME NEW s \in At("split")
       PROVE  s \in Encl(m + 1) <=> s \in Encl(j)
  <2>1. s \in Nat /\ Depth[s] \in Nat
    BY <1>4
  <2>2. CASE s = m
    <3>1. m \in Encl(m + 1)
      BY <1>2, EnclSplit
    <3> QED BY <1>7, <2>2, <3>1
  <2>3. CASE s > m
    <3>1. ~(s < m + 1) /\ ~(s <= m)
      BY <1>3, <2>1, <2>3
    <3> QED BY <1>8, <3>1 DEF Encl
  <2>4. CASE s < m
    <3>1. s < m + 1 /\ s < j /\ m \in (s + 1)..(m + 1) /\ (s + 1)..(m + 1) \subseteq (s + 1)..j
      BY <1>1, <1>2, <1>3, <2>1, <2>4
    <3>2. ASSUME s \in Encl(j) PROVE s \in Encl(m + 1)
      BY <3>1, <3>2 DEF Encl
    <3>3. ASSUME s \in Encl(m + 1) PROVE s \in Encl(j)
      <4>1. \A q \in (s + 1)..(m + 1) : Depth[q] > Depth[s]
        BY <3>3 DEF Encl
      <4>2. Depth[m] > Depth[s]
        BY <3>1, <4>1
      <4>3. ASSUME NEW q \in (s + 1)..j PROVE Depth[q] > Depth[s]
        <5>1. q \in Pcs /\ q \in Nat /\ s < q /\ q <= j /\ Depth[q] \in Nat
          BY <1>1, <1>5, <1>6, <2>1
        <5>2. CASE q <= m
          <6>1. q \in (s + 1)..(m + 1)
            BY <1>3, <2>1, <5>1, <5>2
          <6> QED BY <4>1, <6>1
        <5>3. CASE q > m
          <6>1. Depth[q] >= Depth[j]
            BY <1>2, <5>1, <5>3
          <6> QED BY <1>2, <1>3, <2>1, <4>2, <5>1, <6>1
        <5> QED BY <1>3, <5>1, <5>2, <5>3
      <4> QED BY <3>1, <4>3 DEF Encl
    <3> QED BY <3>2, <3>3
  <2> QED BY <1>3, <2>1, <2>2, <2>3, <2>4
<1>11. Encl(j + 1) = Encl(j) \ {m} /\ Encl(m + 1) = Encl(j)
  BY <1>9, <1>10 DEF Encl
<1> QED BY <1>7, <1>8, <1>11 DEF m

(* A split has one join.                                                   *)
LEMMA OneJoin ==
  ASSUME NEW i \in At("join"), NEW j \in At("join"), SplitOf[i] = SplitOf[j]
  PROVE  i = j
<1>1. ASSUME NEW u \in At("join"), NEW v \in At("join"), SplitOf[u] = SplitOf[v], u < v
      PROVE  FALSE
  <2>1. /\ u \in Pcs /\ u + 1 \in Pcs /\ u \in Nat /\ v \in Pcs /\ v \in Nat
        /\ Program[u].op = "join"
    BY ProgramFacts DEF At, Pcs
  <2>2. /\ SplitOf[u] < u /\ SplitOf[u] \in Nat
        /\ Depth[SplitOf[u]] = Depth[u] - 1 /\ Depth[SplitOf[v]] = Depth[v] - 1
        /\ \A q \in Pcs : SplitOf[v] < q /\ q <= v => Depth[q] >= Depth[v]
    BY SplitOfJoin, ProgramFacts DEF At
  <2>3. Depth[u + 1] = Depth[u] - 1 /\ Depth[u] \in Nat /\ Depth[v] \in Nat
    BY <2>1, DepthStep
  <2>4. SplitOf[v] < u + 1 /\ u + 1 <= v
    BY <1>1, <2>1, <2>2
  <2>5. Depth[u + 1] >= Depth[v]
    BY <2>1, <2>2, <2>4
  <2> QED BY <1>1, <2>2, <2>3, <2>5
<1>2. i \in Nat /\ j \in Nat
  BY ProgramFacts DEF At
<1> QED BY <1>1, <1>2
-----------------------------------------------------------------------------
(***************************************************************************)
(* Divergence: one warp r, with its lanes l, at instruction p.             *)
(***************************************************************************)
Entries == [orig_tmask : SUBSET Threads, else_PC : Nat, fallthrough : BOOLEAN]
Warps == [pc : Nat, tmask : SUBSET Threads, stack : Seq(Entries),
          sp : [At("split") -> Nat], block : Blocks, rank : Ranks, slot : Wids,
          tid : [Axes -> Nat], token : [Bars -> Nat]]

(* The lanes a warp of this rank starts with.                              *)
Whole(rank) == {t \in Threads : rank * NumThreads + t < BlockSize}

(* The lanes that entered the k-th split on the stack, after the last the  *)
(* ones that run.  They are fewer with every split.                        *)
Mask(r, k) == IF k > Len(r.stack) THEN r.tmask ELSE r.stack[k].orig_tmask
Nested(r) ==
  /\ Mask(r, 1) = Whole(r.rank) /\ r.tmask # {}
  /\ \A j, k \in 1..(Len(r.stack) + 1) : j < k =>
       Mask(r, k) \subseteq Mask(r, j) /\ Mask(r, k) # Mask(r, j)
  /\ \A k \in 1..Len(r.stack) : Cardinality(Mask(r, k)) <= NumThreads - k + 1

(* The splits on the stack enclose p, and the depth each enclosing split   *)
(* noted is the number of those on the stack that enclose it.              *)
SplitAt(r, k) == r.stack[k].else_PC - 1
Scoped(r, p) ==
  /\ \A k \in 1..Len(r.stack) : SplitAt(r, k) \in Encl(p) /\ r.sp[SplitAt(r, k)] = k - 1
  /\ \A s \in Encl(p) : /\ r.sp[s] <= Len(r.stack)
                        /\ \A k \in 1..Len(r.stack) : k <= r.sp[s] <=> SplitAt(r, k) < s

(* The lanes that run are at p; those that wait for the other side of a    *)
(* split are at its start if they have it before them, else past its join. *)
LanesAt(r, p, l) ==
  /\ \A t \in r.tmask : l[t] = p
  /\ \A k \in 1..Len(r.stack) : \A t \in Mask(r, k) \ Mask(r, k + 1) :
       IF r.stack[k].fallthrough
       THEN \E j \in At("join") : SplitOf[j] = SplitAt(r, k) /\ l[t] = j + 1
       ELSE l[t] = r.stack[k].else_PC

WarpOK(r, p, l) == Nested(r) /\ Scoped(r, p) /\ LanesAt(r, p, l)

(* The lanes of r have run the instruction before q.                       *)
RanTo(r, q, l) == [t \in Threads |-> IF t \in r.tmask THEN q ELSE l[t]]

(* The sizes are naturals.                                                 *)
LEMMA SizeFacts ==
  /\ NumWarps \in Nat /\ NumWarps >= 1 /\ NumThreads \in Nat /\ NumThreads >= 1
  /\ Wids \subseteq Nat /\ Threads \subseteq Nat
  /\ IsFiniteSet(Wids) /\ IsFiniteSet(Threads) /\ Cardinality(Threads) = NumThreads
<1>1. NumWarps \in Nat /\ NumWarps >= 1 /\ NumThreads \in Nat /\ NumThreads >= 1
  BY SizesAssumption
<1>2. IsFiniteSet(0..NumWarps - 1) /\ IsFiniteSet(0..NumThreads - 1)
      /\ Cardinality(0..NumThreads - 1) = NumThreads
  BY <1>1, FS_Interval
<1> QED BY <1>1, <1>2 DEF Wids, Threads

(* The running lanes are within every mask of the stack.                   *)
LEMMA Inner ==
  ASSUME NEW r \in Warps, Nested(r), NEW k \in 1..Len(r.stack)
  PROVE  /\ r.tmask \subseteq Mask(r, k + 1)
         /\ Mask(r, k + 1) \subseteq Mask(r, k) /\ Mask(r, k + 1) # Mask(r, k)
         /\ r.tmask \subseteq Mask(r, k) /\ Mask(r, k) \in SUBSET Threads
<1>1. Len(r.stack) \in Nat /\ r.stack \in Seq(Entries) /\ r.tmask \in SUBSET Threads
  BY DEF Warps
<1>2. Mask(r, Len(r.stack) + 1) = r.tmask
  BY <1>1 DEF Mask
<1>3. k \in 1..(Len(r.stack) + 1) /\ k + 1 \in 1..(Len(r.stack) + 1) /\ k < k + 1
      /\ Len(r.stack) + 1 \in 1..(Len(r.stack) + 1)
  BY <1>1
<1>4. Mask(r, k + 1) \subseteq Mask(r, k) /\ Mask(r, k + 1) # Mask(r, k)
  BY <1>3 DEF Nested
<1>5. r.tmask \subseteq Mask(r, k + 1)
  <2>1. CASE k = Len(r.stack)
    BY <1>2, <2>1
  <2>2. CASE k # Len(r.stack)
    <3>1. k + 1 < Len(r.stack) + 1
      BY <1>1, <2>2
    <3> QED BY <1>2, <1>3, <3>1 DEF Nested
  <2> QED BY <2>1, <2>2
<1>6. Mask(r, k) = r.stack[k].orig_tmask /\ r.stack[k] \in Entries
  BY <1>1 DEF Mask
<1> QED BY <1>4, <1>5, <1>6 DEF Entries

(* Running an instruction that does not touch the stack moves the running  *)
(* lanes and no others.                                                    *)
LEMMA RunLanes ==
  ASSUME NEW r \in Warps, Nested(r), NEW p, NEW q, NEW l, LanesAt(r, p, l)
  PROVE  LanesAt(r, q, RanTo(r, q, l))
<1>1. \A t \in Threads : RanTo(r, q, l)[t] = IF t \in r.tmask THEN q ELSE l[t]
  BY DEF RanTo
<1>2. \A t \in r.tmask : RanTo(r, q, l)[t] = q
  BY <1>1 DEF Warps
<1>3. ASSUME NEW k \in 1..Len(r.stack), NEW t \in Mask(r, k) \ Mask(r, k + 1)
      PROVE  RanTo(r, q, l)[t] = l[t]
  BY <1>1, Inner
<1> HIDE DEF RanTo
<1> QED BY <1>2, <1>3 DEF LanesAt

(* Straight-line code.                                                     *)
LEMMA RunStraight ==
  ASSUME NEW r \in Warps, NEW p \in Pcs, p + 1 \in Pcs, NEW l, WarpOK(r, p, l),
         Program[p].op \notin {"split", "join"}
  PROVE  WarpOK(r, p + 1, RanTo(r, p + 1, l))
<1>1. Encl(p + 1) = Encl(p)
  BY EnclStep
<1>2. Scoped(r, p + 1)
  BY <1>1 DEF WarpOK, Scoped
<1> QED BY <1>2, RunLanes DEF WarpOK

(* Only the mask, the stack, the notes and the rank matter.                *)
LEMMA SameWarp ==
  ASSUME NEW r, NEW r2, NEW p, NEW l, WarpOK(r, p, l),
         r2.tmask = r.tmask, r2.stack = r.stack, r2.sp = r.sp, r2.rank = r.rank
  PROVE  WarpOK(r2, p, l)
<1>1. \A k : Mask(r2, k) = Mask(r, k) /\ SplitAt(r2, k) = SplitAt(r, k)
  BY DEF Mask, SplitAt
<1> QED BY <1>1 DEF WarpOK, Nested, Scoped, LanesAt

(* A split whose condition does not differ only notes the depth.           *)
LEMMA RunUniform ==
  ASSUME NEW r \in Warps, NEW i \in At("split"), NEW l, WarpOK(r, i, l)
  PROVE  /\ [r EXCEPT !.sp[i] = Len(r.stack)] \in Warps
         /\ WarpOK([r EXCEPT !.sp[i] = Len(r.stack)], i + 1, RanTo(r, i + 1, l))
<1> DEFINE r2 == [r EXCEPT !.sp[i] = Len(r.stack)]
           n == Len(r.stack)
<1>1. n \in Nat /\ r.sp \in [At("split") -> Nat] /\ r.stack \in Seq(Entries)
  BY DEF Warps
<1>2. /\ r2 \in Warps /\ r2.tmask = r.tmask /\ r2.stack = r.stack /\ r2.rank = r.rank
      /\ r2.sp = [r.sp EXCEPT ![i] = n]
  BY <1>1 DEF Warps
<1>3. \A k : Mask(r2, k) = Mask(r, k) /\ SplitAt(r2, k) = SplitAt(r, k)
  BY <1>2 DEF Mask, SplitAt
<1>4. Encl(i + 1) = Encl(i) \cup {i} /\ i \notin Encl(i) /\ \A s \in Encl(i) : s < i
  BY EnclSplit
<1>5. \A s \in Encl(i) : s \in At("split") /\ r2.sp[s] = r.sp[s]
  BY <1>1, <1>2, <1>4 DEF Encl
<1>6. r2.sp[i] = n
  BY <1>1, <1>2
<1>7. LanesAt(r, i + 1, RanTo(r, i + 1, l))
  BY RunLanes DEF WarpOK
<1> HIDE DEF r2
<1>8. Nested(r2) /\ LanesAt(r2, i + 1, RanTo(r, i + 1, l))
  BY <1>2, <1>3, <1>7 DEF WarpOK, Nested, LanesAt
<1>9. Scoped(r2, i + 1)
  <2>1. /\ \A k \in 1..n : SplitAt(r, k) \in Encl(i) /\ r.sp[SplitAt(r, k)] = k - 1
        /\ \A s \in Encl(i) : /\ r.sp[s] <= n
                              /\ \A k \in 1..n : k <= r.sp[s] <=> SplitAt(r, k) < s
    BY DEF WarpOK, Scoped
  <2>2. \A k \in 1..n : SplitAt(r2, k) \in Encl(i + 1) /\ r2.sp[SplitAt(r2, k)] = k - 1
    BY <1>3, <1>4, <1>5, <2>1
  <2>3. ASSUME NEW s \in Encl(i + 1)
        PROVE  /\ r2.sp[s] <= n
               /\ \A k \in 1..n : k <= r2.sp[s] <=> SplitAt(r2, k) < s
    <3>1. CASE s = i
      BY <1>1, <1>3, <1>4, <1>6, <2>1, <3>1
    <3>2. CASE s \in Encl(i)
      BY <1>3, <1>5, <2>1, <3>2
    <3> QED BY <1>4, <3>1, <3>2
  <2> QED BY <1>2, <2>2, <2>3 DEF Scoped
<1> QED BY <1>2, <1>8, <1>9 DEF WarpOK, r2

(* A split that diverges.  There is room on the stack, and one side runs.  *)
LEMMA RunDivergent ==
  ASSUME NEW r \in Warps, NEW i \in At("split"), NEW l, WarpOK(r, i, l),
         NEW small, small \subseteq r.tmask, small # r.tmask, small # {},
         NEW r2, r2 = [r EXCEPT !.tmask = small, !.sp[i] = Len(r.stack),
                                !.stack = Append(@, [orig_tmask |-> r.tmask,
                                                     else_PC |-> i + 1,
                                                     fallthrough |-> FALSE])]
  PROVE  /\ r2 \in Warps
         /\ WarpOK(r2, i + 1, RanTo(r, i + 1, l))
         /\ Len(r.stack) # NumThreads - 1
<1> DEFINE n == Len(r.stack)
           e == [orig_tmask |-> r.tmask, else_PC |-> i + 1, fallthrough |-> FALSE]
           l2 == RanTo(r, i + 1, l)
<1>1. /\ n \in Nat /\ r.sp \in [At("split") -> Nat] /\ r.stack \in Seq(Entries)
      /\ r.tmask \in SUBSET Threads /\ i \in Nat
  BY ProgramFacts DEF Warps
<1>2. e \in Entries /\ e.orig_tmask = r.tmask /\ e.else_PC = i + 1 /\ ~e.fallthrough
  BY <1>1 DEF Entries
<1> HIDE DEF e
<1>3. /\ r2.tmask = small /\ r2.stack = Append(r.stack, e) /\ r2.rank = r.rank
      /\ r2.sp = [r.sp EXCEPT ![i] = n] /\ r2 \in Warps
  <2>1. Append(r.stack, e) \in Seq(Entries) /\ small \in SUBSET Threads
        /\ [r.sp EXCEPT ![i] = n] \in [At("split") -> Nat]
    BY <1>1, <1>2
  <2>2. r2 = [r EXCEPT !.tmask = small, !.sp = [r.sp EXCEPT ![i] = n],
                       !.stack = Append(r.stack, e)]
    BY DEF e, Warps
  <2> QED BY <2>1, <2>2 DEF Warps
<1>4. /\ Len(r2.stack) = n + 1 /\ r2.stack[n + 1] = e
      /\ \A k \in 1..n : r2.stack[k] = r.stack[k]
  BY <1>1, <1>2, <1>3
<1>5. /\ Mask(r2, n + 2) = small /\ Mask(r2, n + 1) = r.tmask /\ Mask(r, n + 1) = r.tmask
      /\ \A k \in 1..n : Mask(r2, k) = Mask(r, k) /\ SplitAt(r2, k) = SplitAt(r, k)
      /\ \A k \in 1..(n + 1) : Mask(r2, k) = Mask(r, k)
      /\ SplitAt(r2, n + 1) = i
  <2>1. /\ Mask(r2, n + 2) = small /\ Mask(r2, n + 1) = r.tmask /\ Mask(r, n + 1) = r.tmask
    BY <1>1, <1>2, <1>3, <1>4 DEF Mask
  <2>2. \A k \in 1..n : Mask(r2, k) = Mask(r, k)
    BY <1>1, <1>4 DEF Mask
  <2>3. \A k \in 1..n : SplitAt(r2, k) = SplitAt(r, k)
    BY <1>4 DEF SplitAt
  <2>4. SplitAt(r2, n + 1) = i
    <3>1. SplitAt(r2, n + 1) = (i + 1) - 1
      BY <1>2, <1>4, Zenon DEF SplitAt
    <3>2. (i + 1) - 1 = i
      BY <1>1
    <3> QED BY <3>1, <3>2
  <2>5. \A k \in 1..(n + 1) : k \in 1..n \/ k = n + 1
    BY <1>1
  <2> QED BY <2>1, <2>2, <2>3, <2>4, <2>5
<1>6. Encl(i + 1) = Encl(i) \cup {i} /\ i \notin Encl(i) /\ \A s \in Encl(i) : s < i
  BY EnclSplit
<1>7. \A s \in Encl(i) : s \in At("split") /\ r2.sp[s] = r.sp[s] /\ r.sp[s] \in Nat
  BY <1>1, <1>3, <1>6 DEF Encl
<1>8. r2.sp[i] = n
  BY <1>1, <1>3
<1>9. /\ Cardinality(r.tmask) \in Nat /\ Cardinality(r.tmask) <= NumThreads - n
      /\ Cardinality(r.tmask) >= 2 /\ n <= NumThreads - 2
  <2>1. \A S \in SUBSET Threads : IsFiniteSet(S) /\ Cardinality(S) \in Nat
    BY SizeFacts, FS_Subset, FS_CardinalityType
  <2>2. Cardinality(r.tmask) <= NumThreads - n
    <3>1. CASE n = 0
      BY <1>1, <3>1, SizeFacts, FS_Subset
    <3>2. CASE n # 0
      <4>1. n \in 1..n
        BY <1>1, <3>2
      <4>2. /\ r.tmask \subseteq Mask(r, n) /\ r.tmask # Mask(r, n)
            /\ Mask(r, n) \in SUBSET Threads
        BY <1>5, <4>1, Inner DEF WarpOK
      <4>3. Cardinality(r.tmask) < Cardinality(Mask(r, n))
        BY <2>1, <4>2, FS_Subset
      <4>4. Cardinality(Mask(r, n)) <= NumThreads - n + 1
        BY <4>1 DEF WarpOK, Nested
      <4> QED BY <1>1, <2>1, <4>2, <4>3, <4>4, SizeFacts
    <3> QED BY <3>1, <3>2
  <2>3. Cardinality(small) < Cardinality(r.tmask) /\ Cardinality(small) \in Nat
    BY <1>1, <2>1, FS_Subset
  <2>4. Cardinality(small) # 0
    BY <1>1, <2>1, FS_EmptySet
  <2> QED BY <1>1, <2>1, <2>2, <2>3, <2>4, SizeFacts
<1>10. Nested(r2)
  <2>1. /\ Mask(r, 1) = Whole(r.rank)
        /\ \A j, k \in 1..(n + 1) : j < k => Mask(r, k) \subseteq Mask(r, j) /\ Mask(r, k) # Mask(r, j)
        /\ \A k \in 1..n : Cardinality(Mask(r, k)) <= NumThreads - k + 1
    BY DEF WarpOK, Nested
  <2>2. Mask(r2, 1) = Whole(r2.rank) /\ r2.tmask # {}
    BY <1>1, <1>3, <1>5, <2>1
  <2>3. ASSUME NEW j \in 1..(n + 2), NEW k \in 1..(n + 2), j < k
        PROVE  Mask(r2, k) \subseteq Mask(r2, j) /\ Mask(r2, k) # Mask(r2, j)
    <3>1. j \in 1..(n + 1)
      BY <1>1, <2>3
    <3>2. CASE k \in 1..(n + 1)
      BY <1>5, <2>1, <2>3, <3>1, <3>2
    <3>3. CASE k = n + 2
      <4>1. Mask(r2, k) = small
        BY <1>5, <3>3
      <4>2. r.tmask \subseteq Mask(r, j)
        <5>1. CASE j = n + 1
          BY <1>5, <5>1
        <5>2. CASE j # n + 1
          <6>1. j < n + 1 /\ n + 1 \in 1..(n + 1)
            BY <1>1, <3>1, <5>2
          <6> QED BY <1>5, <2>1, <3>1, <6>1
        <5> QED BY <5>1, <5>2
      <4> QED BY <1>5, <3>1, <4>1, <4>2
    <3> QED BY <1>1, <3>2, <3>3
  <2>4. ASSUME NEW k \in 1..(n + 1) PROVE Cardinality(Mask(r2, k)) <= NumThreads - k + 1
    <3>1. CASE k \in 1..n
      BY <1>5, <2>1, <3>1
    <3>2. CASE k = n + 1
      <4>1. NumThreads - k + 1 = NumThreads - n
        BY <1>1, <3>2, SizeFacts
      <4> QED BY <1>5, <1>9, <3>2, <4>1
    <3> QED BY <1>1, <3>1, <3>2
  <2>5. Len(r2.stack) + 1 = n + 2
    BY <1>1, <1>4
  <2> QED BY <1>4, <2>2, <2>3, <2>4, <2>5 DEF Nested
<1>11. Scoped(r2, i + 1)
  <2>1. /\ \A k \in 1..n : SplitAt(r, k) \in Encl(i) /\ r.sp[SplitAt(r, k)] = k - 1
        /\ \A s \in Encl(i) : /\ r.sp[s] <= n
                              /\ \A k \in 1..n : k <= r.sp[s] <=> SplitAt(r, k) < s
    BY DEF WarpOK, Scoped
  <2>2. ASSUME NEW k \in 1..(n + 1)
        PROVE  SplitAt(r2, k) \in Encl(i + 1) /\ r2.sp[SplitAt(r2, k)] = k - 1
    <3>1. CASE k \in 1..n
      BY <1>5, <1>6, <1>7, <2>1, <3>1
    <3>2. CASE k = n + 1
      BY <1>1, <1>5, <1>6, <1>8, <3>2
    <3> QED BY <1>1, <3>1, <3>2
  <2>3. ASSUME NEW s \in Encl(i + 1)
        PROVE  /\ r2.sp[s] <= n + 1
               /\ \A k \in 1..(n + 1) : k <= r2.sp[s] <=> SplitAt(r2, k) < s
    <3>1. CASE s = i
      <4>1. \A k \in 1..n : SplitAt(r2, k) < s
        BY <1>5, <1>6, <2>1, <3>1
      <4> QED BY <1>1, <1>5, <1>8, <3>1, <4>1
    <3>2. CASE s \in Encl(i)
      <4>1. s < i /\ s \in Nat /\ r2.sp[s] = r.sp[s] /\ r.sp[s] \in Nat /\ r.sp[s] <= n
        BY <1>6, <1>7, <2>1, <3>2, ProgramFacts
      <4>2. \A k \in 1..n : k <= r2.sp[s] <=> SplitAt(r2, k) < s
        BY <1>5, <2>1, <3>2, <4>1
      <4>3. ~(n + 1 <= r2.sp[s]) /\ ~(SplitAt(r2, n + 1) < s) /\ r2.sp[s] <= n + 1
        BY <1>1, <1>5, <4>1
      <4> QED BY <1>1, <4>2, <4>3
    <3> QED BY <1>6, <3>1, <3>2
  <2> QED BY <1>4, <2>2, <2>3 DEF Scoped
<1>12. LanesAt(r2, i + 1, l2)
  <2>1. LanesAt(r, i + 1, l2)
    BY RunLanes DEF WarpOK
  <2> HIDE DEF l2
  <2>2. \A t \in r.tmask : l2[t] = i + 1
    BY <2>1 DEF LanesAt
  <2>3. ASSUME NEW k \in 1..(n + 1), NEW t \in Mask(r2, k) \ Mask(r2, k + 1)
        PROVE  IF r2.stack[k].fallthrough
               THEN \E j \in At("join") : SplitOf[j] = SplitAt(r2, k) /\ l2[t] = j + 1
               ELSE l2[t] = r2.stack[k].else_PC
    <3>1. CASE k \in 1..n
      <4>1. Mask(r2, k) = Mask(r, k) /\ Mask(r2, k + 1) = Mask(r, k + 1)
        BY <1>1, <1>5, <3>1
      <4> QED BY <1>4, <1>5, <2>1, <2>3, <3>1, <4>1 DEF LanesAt
    <3>2. CASE k = n + 1
      <4>1. t \in r.tmask
        BY <1>5, <2>3, <3>2
      <4> QED BY <1>2, <1>4, <2>2, <3>2, <4>1
    <3> QED BY <1>1, <3>1, <3>2
  <2> QED BY <1>3, <1>4, <2>2, <2>3 DEF LanesAt
<1>13. n # NumThreads - 1
  BY <1>1, <1>9, SizeFacts
<1> QED BY <1>3, <1>10, <1>11, <1>12, <1>13 DEF WarpOK

(* A join whose split did not diverge: the stack holds none of its own.    *)
LEMMA RunUndiverged ==
  ASSUME NEW r \in Warps, NEW j \in At("join"), NEW l, WarpOK(r, j, l),
         r.sp[SplitOf[j]] = Len(r.stack)
  PROVE  WarpOK(r, j + 1, RanTo(r, j + 1, l))
<1> DEFINE n == Len(r.stack)
           m == SplitOf[j]
<1>1. m \in Encl(j) /\ Encl(j + 1) = Encl(j) \ {m}
  BY EnclJoin
<1>2. n \in Nat /\ m \in Nat
  BY <1>1, ProgramFacts DEF Warps, Encl
<1> HIDE DEF m
<1>3. /\ \A k \in 1..n : SplitAt(r, k) \in Encl(j) /\ r.sp[SplitAt(r, k)] = k - 1
      /\ \A s \in Encl(j) : /\ r.sp[s] <= n
                            /\ \A k \in 1..n : k <= r.sp[s] <=> SplitAt(r, k) < s
  BY DEF WarpOK, Scoped
<1>4. \A k \in 1..n : SplitAt(r, k) # m
  BY <1>1, <1>2, <1>3 DEF m
<1>5. Scoped(r, j + 1)
  BY <1>1, <1>3, <1>4 DEF Scoped
<1> QED BY <1>5, RunLanes DEF WarpOK

(* A join whose split diverged: the top of the stack is that split.        *)
LEMMA TopIsOwn ==
  ASSUME NEW r \in Warps, NEW j \in At("join"), NEW l, WarpOK(r, j, l),
         r.sp[SplitOf[j]] # Len(r.stack)
  PROVE  /\ Len(r.stack) \in Nat /\ Len(r.stack) >= 1 /\ r.stack # <<>>
         /\ r.stack[Len(r.stack)] \in Entries
         /\ SplitAt(r, Len(r.stack)) = SplitOf[j]
         /\ r.stack[Len(r.stack)].else_PC = SplitOf[j] + 1
<1> DEFINE n == Len(r.stack)
           m == SplitOf[j]
<1>1. m \in Encl(j) /\ \A s \in Encl(j) : s <= m
  BY EnclJoin
<1>2. n \in Nat /\ m \in Nat /\ r.sp[m] \in Nat /\ r.stack \in Seq(Entries)
  <2>1. m \in At("split") /\ m \in Nat
    BY <1>1, ProgramFacts DEF Encl
  <2>2. r.sp \in [At("split") -> Nat] /\ r.stack \in Seq(Entries)
    BY DEF Warps
  <2> QED BY <2>1, <2>2
<1>3. /\ \A k \in 1..n : SplitAt(r, k) \in Encl(j)
      /\ r.sp[m] <= n
      /\ \A k \in 1..n : k <= r.sp[m] <=> SplitAt(r, k) < m
  BY <1>1 DEF WarpOK, Scoped
<1>4. n >= 1 /\ n \in 1..n /\ ~(n <= r.sp[m])
  BY <1>2, <1>3
<1>5. SplitAt(r, n) = m
  <2>1. SplitAt(r, n) \in Encl(j) /\ ~(SplitAt(r, n) < m) /\ SplitAt(r, n) <= m
    BY <1>1, <1>3, <1>4
  <2>2. SplitAt(r, n) \in Nat
    BY <2>1, ProgramFacts DEF Encl
  <2> HIDE DEF m
  <2> QED BY <1>2, <2>1, <2>2
<1>6. r.stack[n] \in Entries /\ r.stack # <<>>
  BY <1>2, <1>4
<1>7. r.stack[n].else_PC \in Nat
  BY <1>6 DEF Entries
<1>8. r.stack[n].else_PC = m + 1
  <2>1. r.stack[n].else_PC - 1 = m
    BY <1>5 DEF SplitAt
  <2> HIDE DEF m
  <2> QED BY <1>2, <1>7, <2>1
<1> QED BY <1>2, <1>4, <1>5, <1>6, <1>8

(* The end of the first side: the warp turns to the other one.             *)
LEMMA RunOtherSide ==
  ASSUME NEW r \in Warps, NEW j \in At("join"), NEW l, WarpOK(r, j, l),
         r.sp[SplitOf[j]] # Len(r.stack), ~r.stack[Len(r.stack)].fallthrough
  PROVE  /\ OtherSide(r) \in Warps /\ OtherSide(r).pc \in Pcs
         /\ WarpOK(OtherSide(r), OtherSide(r).pc, RanTo(r, j + 1, l))
<1> DEFINE n == Len(r.stack)
           m == SplitOf[j]
           l2 == RanTo(r, j + 1, l)
           top == r.stack[n]
           r2 == OtherSide(r)
<1>1. /\ n \in Nat /\ n >= 1 /\ top \in Entries /\ SplitAt(r, n) = m
      /\ top.else_PC = m + 1 /\ n \in 1..n
  BY TopIsOwn
<1>2. m \in Encl(j) /\ Encl(m + 1) = Encl(j) /\ m + 1 \in Pcs /\ m \in Nat
  <2>1. m \in Pcs /\ m < j /\ j \in Pcs
    BY SplitOfJoin, ProgramFacts
  <2> QED BY <2>1, EnclJoin, ProgramFacts DEF Pcs
<1> HIDE DEF m
<1>3. /\ r.stack \in Seq(Entries) /\ r.tmask \in SUBSET Threads
      /\ top.orig_tmask \in SUBSET Threads
  BY <1>1 DEF Warps, Entries
<1> DEFINE flipped == [r.stack EXCEPT ![n] = [top EXCEPT !.fallthrough = TRUE]]
<1>4. /\ r2.tmask = top.orig_tmask \ r.tmask /\ r2.pc = m + 1 /\ r2.sp = r.sp
      /\ r2.rank = r.rank /\ r2.stack = flipped
      /\ r2 \in Warps
  <2>1. flipped \in Seq(Entries)
    <3>1. [top EXCEPT !.fallthrough = TRUE] \in Entries
      BY <1>1 DEF Entries
    <3> QED BY <1>1, <1>3, <3>1
  <2>2. r2 = [r EXCEPT !.tmask = top.orig_tmask \ r.tmask, !.pc = top.else_PC,
                       !.stack = flipped]
    BY DEF OtherSide, Warps
  <2>3. m + 1 \in Nat /\ top.orig_tmask \ r.tmask \in SUBSET Threads
    BY <1>2, <1>3
  <2> HIDE DEF flipped
  <2> QED BY <1>1, <2>1, <2>2, <2>3 DEF Warps
<1> HIDE DEF r2
<1>5. /\ Len(r2.stack) = n
      /\ \A k \in 1..n : /\ r2.stack[k].orig_tmask = r.stack[k].orig_tmask
                         /\ r2.stack[k].else_PC = r.stack[k].else_PC
      /\ r2.stack[n].fallthrough
      /\ \A k \in 1..n : k # n => r2.stack[k] = r.stack[k]
  <2>1. \A k \in 1..n : r.stack[k] \in Entries
    BY <1>3
  <2>2. Len(r2.stack) = n
    BY <1>1, <1>3, <1>4
  <2>3. \A k \in 1..n : r2.stack[k] = IF k = n THEN [r.stack[k] EXCEPT !.fallthrough = TRUE]
                                      ELSE r.stack[k]
    <3>1. DOMAIN r.stack = 1..n
      BY <1>3
    <3> QED BY <1>4, <3>1, Zenon
  <2> QED BY <1>1, <2>1, <2>2, <2>3 DEF Entries
<1>6. /\ \A k \in 1..n : Mask(r2, k) = Mask(r, k) /\ SplitAt(r2, k) = SplitAt(r, k)
      /\ Mask(r2, n + 1) = top.orig_tmask \ r.tmask /\ Mask(r, n + 1) = r.tmask
      /\ Mask(r, n) = top.orig_tmask
  BY <1>1, <1>4, <1>5 DEF Mask, SplitAt
<1>7. Nested(r)
  BY DEF WarpOK
<1>8. r.tmask \subseteq top.orig_tmask /\ r.tmask # top.orig_tmask /\ r.tmask # {}
  BY <1>1, <1>6, <1>7, Inner DEF Nested
<1>9. Nested(r2)
  <2>1. /\ Mask(r, 1) = Whole(r.rank)
        /\ \A i, k \in 1..(n + 1) : i < k => Mask(r, k) \subseteq Mask(r, i) /\ Mask(r, k) # Mask(r, i)
        /\ \A k \in 1..n : Cardinality(Mask(r, k)) <= NumThreads - k + 1
    BY <1>7 DEF Nested
  <2>2. Mask(r2, 1) = Whole(r2.rank) /\ r2.tmask # {}
    <3>1. 1 \in 1..n
      BY <1>1
    <3>2. Mask(r2, 1) = Mask(r, 1)
      BY <1>6, <3>1
    <3>3. r2.tmask # {}
      BY <1>4, <1>8
    <3> QED BY <1>4, <2>1, <3>2, <3>3
  <2>3. ASSUME NEW i \in 1..(n + 1), NEW k \in 1..(n + 1), i < k
        PROVE  Mask(r2, k) \subseteq Mask(r2, i) /\ Mask(r2, k) # Mask(r2, i)
    <3>1. i \in 1..n
      BY <1>1, <2>3
    <3>2. CASE k \in 1..n
      BY <1>6, <2>1, <2>3, <3>1, <3>2
    <3>3. CASE k = n + 1
      <4>1. top.orig_tmask \subseteq Mask(r, i)
        <5>1. CASE i = n
          BY <1>6, <5>1
        <5>2. CASE i # n
          <6>1. i < n /\ n \in 1..(n + 1)
            BY <1>1, <3>1, <5>2
          <6> QED BY <1>6, <2>1, <6>1
        <5> QED BY <5>1, <5>2
      <4>2. Mask(r2, k) = top.orig_tmask \ r.tmask /\ Mask(r2, i) = Mask(r, i)
        BY <1>6, <3>1, <3>3
      <4> QED BY <1>8, <4>1, <4>2
    <3> QED BY <1>1, <3>2, <3>3
  <2>4. \A k \in 1..n : Cardinality(Mask(r2, k)) <= NumThreads - k + 1
    BY <1>6, <2>1
  <2> QED BY <1>5, <2>2, <2>3, <2>4 DEF Nested
<1>10. Scoped(r2, m + 1)
  <2>1. Scoped(r, j)
    BY DEF WarpOK
  <2> QED BY <1>2, <1>4, <1>5, <1>6, <2>1 DEF Scoped
<1>11. LanesAt(r2, m + 1, l2)
  <2>1. LanesAt(r, j + 1, l2)
    BY RunLanes DEF WarpOK
  <2> HIDE DEF l2
  <2>2. \A t \in r2.tmask : l2[t] = m + 1
    <3> SUFFICES ASSUME NEW t \in r2.tmask PROVE l2[t] = m + 1
      OBVIOUS
    <3>1. t \in Mask(r, n) \ Mask(r, n + 1)
      BY <1>4, <1>6
    <3> QED BY <1>1, <2>1, <3>1 DEF LanesAt
  <2>3. \A t \in r.tmask : l2[t] = j + 1
    BY <2>1 DEF LanesAt
  <2>4. ASSUME NEW k \in 1..n, NEW t \in Mask(r2, k) \ Mask(r2, k + 1)
        PROVE  IF r2.stack[k].fallthrough
               THEN \E i \in At("join") : SplitOf[i] = SplitAt(r2, k) /\ l2[t] = i + 1
               ELSE l2[t] = r2.stack[k].else_PC
    <3>1. CASE k = n
      <4>1. t \in r.tmask
        BY <1>1, <1>6, <2>4, <3>1
      <4>2. SplitAt(r2, k) = SplitOf[j]
        BY <1>1, <1>6, <3>1 DEF m
      <4>3. l2[t] = j + 1
        BY <2>3, <4>1
      <4> QED BY <1>5, <3>1, <4>2, <4>3
    <3>2. CASE k # n
      <4>1. k + 1 \in 1..n
        BY <1>1, <3>2
      <4>2. Mask(r2, k) = Mask(r, k) /\ Mask(r2, k + 1) = Mask(r, k + 1)
            /\ r2.stack[k] = r.stack[k] /\ SplitAt(r2, k) = SplitAt(r, k)
        BY <1>5, <1>6, <3>2, <4>1
      <4>3. t \in Mask(r, k) \ Mask(r, k + 1)
        BY <2>4, <4>2
      <4> QED BY <2>1, <4>2, <4>3 DEF LanesAt
    <3> QED BY <3>1, <3>2
  <2> QED BY <1>5, <2>2, <2>4 DEF LanesAt
<1> QED BY <1>2, <1>4, <1>9, <1>10, <1>11 DEF WarpOK, r2

(* The end of the second side: the lanes that split are together again.    *)
LEMMA RunReconverged ==
  ASSUME NEW r \in Warps, NEW j \in At("join"), NEW l, WarpOK(r, j, l),
         r.sp[SplitOf[j]] # Len(r.stack), r.stack[Len(r.stack)].fallthrough
  PROVE  /\ Reconverged(r) \in Warps
         /\ WarpOK(Reconverged(r), j + 1, RanTo(r, j + 1, l))
<1> DEFINE n == Len(r.stack)
           m == SplitOf[j]
           l2 == RanTo(r, j + 1, l)
           top == r.stack[n]
           r2 == Reconverged(r)
<1>1. /\ n \in Nat /\ n >= 1 /\ top \in Entries /\ SplitAt(r, n) = m
      /\ top.else_PC = m + 1 /\ n \in 1..n
  BY TopIsOwn
<1>2. m \in Encl(j) /\ Encl(j + 1) = Encl(j) \ {m} /\ \A s \in Encl(j) : s <= m /\ s \in Nat
  BY EnclJoin, ProgramFacts DEF Encl
<1> HIDE DEF m
<1>3. /\ r.stack \in Seq(Entries) /\ r.tmask \in SUBSET Threads
      /\ top.orig_tmask \in SUBSET Threads /\ r.sp \in [At("split") -> Nat]
  BY <1>1 DEF Warps, Entries
<1>4. /\ r2.tmask = top.orig_tmask /\ r2.sp = r.sp
      /\ r2.rank = r.rank /\ r2.stack = SubSeq(r.stack, 1, n - 1)
      /\ r2 \in Warps
  <2>1. SubSeq(r.stack, 1, n - 1) \in Seq(Entries)
    BY <1>1, <1>3
  <2>2. r2 = [r EXCEPT !.tmask = top.orig_tmask, !.stack = SubSeq(r.stack, 1, n - 1)]
    BY DEF Reconverged, Warps
  <2> QED BY <1>3, <2>1, <2>2 DEF Warps
<1> HIDE DEF r2
<1>5. Len(r2.stack) = n - 1 /\ \A k \in 1..(n - 1) : r2.stack[k] = r.stack[k]
  BY <1>1, <1>3, <1>4
<1>6. /\ \A k \in 1..n : Mask(r2, k) = Mask(r, k)
      /\ \A k \in 1..(n - 1) : SplitAt(r2, k) = SplitAt(r, k)
      /\ Mask(r, n + 1) = r.tmask /\ Mask(r, n) = top.orig_tmask /\ r2.tmask = Mask(r, n)
  <2>1. \A k \in 1..(n - 1) : SplitAt(r2, k) = SplitAt(r, k)
    BY <1>5 DEF SplitAt
  <2>2. Mask(r, n + 1) = r.tmask /\ Mask(r, n) = top.orig_tmask
    BY <1>1 DEF Mask
  <2>3. Mask(r2, n) = top.orig_tmask
    BY <1>1, <1>4, <1>5 DEF Mask
  <2>4. \A k \in 1..(n - 1) : Mask(r2, k) = Mask(r, k)
    BY <1>1, <1>5 DEF Mask
  <2>5. \A k \in 1..n : k \in 1..(n - 1) \/ k = n
    BY <1>1
  <2> QED BY <1>4, <2>1, <2>2, <2>3, <2>4, <2>5
<1>7. Nested(r) /\ Scoped(r, j) /\ LanesAt(r, j, l)
  BY DEF WarpOK
<1>8. Nested(r2)
  <2>1. /\ Mask(r, 1) = Whole(r.rank) /\ r.tmask # {}
        /\ \A i, k \in 1..(n + 1) : i < k => Mask(r, k) \subseteq Mask(r, i) /\ Mask(r, k) # Mask(r, i)
        /\ \A k \in 1..n : Cardinality(Mask(r, k)) <= NumThreads - k + 1
    BY <1>7 DEF Nested
  <2>2. Mask(r2, 1) = Whole(r2.rank)
    BY <1>1, <1>4, <1>6, <2>1
  <2>3. r2.tmask # {}
    BY <1>1, <1>6, <1>7, <2>1, Inner
  <2>4. \A i, k \in 1..n : i < k => Mask(r2, k) \subseteq Mask(r2, i) /\ Mask(r2, k) # Mask(r2, i)
    <3>1. 1..n \subseteq 1..(n + 1)
      BY <1>1
    <3> QED BY <1>6, <2>1, <3>1
  <2>5. \A k \in 1..(n - 1) : Cardinality(Mask(r2, k)) <= NumThreads - k + 1
    BY <1>1, <1>6, <2>1
  <2>6. Len(r2.stack) + 1 = n
    BY <1>1, <1>5
  <2> QED BY <1>5, <2>2, <2>3, <2>4, <2>5, <2>6 DEF Nested
<1>9. Scoped(r2, j + 1)
  <2>1. /\ \A k \in 1..n : SplitAt(r, k) \in Encl(j) /\ r.sp[SplitAt(r, k)] = k - 1
        /\ \A s \in Encl(j) : /\ r.sp[s] <= n
                              /\ \A k \in 1..n : k <= r.sp[s] <=> SplitAt(r, k) < s
    BY <1>7 DEF Scoped
  <2>2. ASSUME NEW k \in 1..(n - 1)
        PROVE  SplitAt(r2, k) \in Encl(j + 1) /\ r2.sp[SplitAt(r2, k)] = k - 1
    <3>1. SplitAt(r, k) \in Encl(j) /\ r.sp[SplitAt(r, k)] = k - 1 /\ r.sp[m] = n - 1
      BY <1>1, <2>1
    <3>2. SplitAt(r, k) # m
      BY <1>1, <3>1
    <3> QED BY <1>2, <1>4, <1>6, <3>1, <3>2
  <2>3. ASSUME NEW s \in Encl(j + 1)
        PROVE  /\ r2.sp[s] <= n - 1
               /\ \A k \in 1..(n - 1) : k <= r2.sp[s] <=> SplitAt(r2, k) < s
    <3>1. s \in Encl(j) /\ s # m /\ s <= m /\ s \in Nat /\ m \in Nat /\ r.sp[s] \in Nat
      BY <1>2, <1>3 DEF Encl
    <3>2. ~(n <= r.sp[s])
      BY <1>1, <2>1, <3>1
    <3>3. r2.sp[s] <= n - 1
      BY <1>1, <1>4, <3>1, <3>2
    <3>4. \A k \in 1..(n - 1) : k <= r2.sp[s] <=> SplitAt(r2, k) < s
      BY <1>1, <1>4, <1>6, <2>1, <3>1
    <3> QED BY <3>3, <3>4
  <2> QED BY <1>5, <2>2, <2>3 DEF Scoped
<1>10. LanesAt(r2, j + 1, l2)
  <2>1. LanesAt(r, j + 1, l2)
    BY <1>7, RunLanes
  <2> HIDE DEF l2
  <2>2. ASSUME NEW t \in r2.tmask PROVE l2[t] = j + 1
    <3>1. CASE t \in r.tmask
      BY <2>1, <3>1 DEF LanesAt
    <3>2. CASE t \notin r.tmask
      <4>1. t \in Mask(r, n) \ Mask(r, n + 1)
        BY <1>6, <3>2
      <4>2. PICK i \in At("join") : SplitOf[i] = SplitAt(r, n) /\ l2[t] = i + 1
        BY <1>1, <2>1, <4>1 DEF LanesAt
      <4>3. i = j
        BY <1>1, <4>2, OneJoin DEF m
      <4> QED BY <4>2, <4>3
    <3> QED BY <3>1, <3>2
  <2>3. ASSUME NEW k \in 1..(n - 1), NEW t \in Mask(r2, k) \ Mask(r2, k + 1)
        PROVE  IF r2.stack[k].fallthrough
               THEN \E i \in At("join") : SplitOf[i] = SplitAt(r2, k) /\ l2[t] = i + 1
               ELSE l2[t] = r2.stack[k].else_PC
    <3>1. k \in 1..n /\ k + 1 \in 1..n
      BY <1>1
    <3>2. t \in Mask(r, k) \ Mask(r, k + 1)
      BY <1>6, <2>3, <3>1
    <3> QED BY <1>5, <1>6, <2>1, <3>1, <3>2 DEF LanesAt
  <2> QED BY <1>5, <2>2, <2>3 DEF LanesAt
<1> QED BY <1>4, <1>8, <1>9, <1>10 DEF WarpOK, r2
-----------------------------------------------------------------------------
(***************************************************************************)
(* The order in which the KMU walks the grid.                              *)
(***************************************************************************)
Same(p, q) == \A a \in Axes : p[a] = q[a]
Lt(p, q) == \/ p[3] < q[3]
            \/ p[3] = q[3] /\ p[2] < q[2]
            \/ p[3] = q[3] /\ p[2] = q[2] /\ p[1] < q[1]

(* The cluster of a block, by its origin, and its place in the cluster.    *)
OriginOf(k) == [a \in Axes |-> (k[a] \div ClusterDim[a]) * ClusterDim[a]]
IntraOf(k) == [a \in Axes |-> k[a] % ClusterDim[a]]

Kmus == [running : BOOLEAN, intra : [Axes -> Nat], origin : [Axes -> Nat]]
KmuOK(q) ==
  /\ q \in Kmus
  /\ \A a \in Axes : /\ q.intra[a] < ClusterDim[a] /\ q.origin[a] < GridDim[a]
                     /\ (q.origin[a] % ClusterDim[a]) = 0

(* The KMU still has block k before it.                                    *)
Ahead(q, k) ==
  /\ q.running
  /\ \/ Lt(q.origin, OriginOf(k))
     \/ Same(q.origin, OriginOf(k)) /\ (Same(q.intra, IntraOf(k)) \/ Lt(q.intra, IntraOf(k)))

(* Division with remainder.                                                *)
LEMMA DivMod ==
  ASSUME NEW a \in Nat, NEW b \in Nat, b >= 1
  PROVE  /\ (a \div b) \in Nat /\ (a % b) \in Nat /\ (a % b) < b
         /\ a = b * (a \div b) + (a % b)
OBVIOUS

(* It is unique.                                                           *)
LEMMA DivUnique ==
  ASSUME NEW a \in Nat, NEW b \in Nat, b >= 1, NEW q \in Nat, NEW r \in Nat, r < b,
         a = b * q + r
  PROVE  (a \div b) = q /\ (a % b) = r
OBVIOUS

(* Two multiples of c are c apart.                                         *)
LEMMA Apart ==
  ASSUME NEW x \in Nat, NEW y \in Nat, NEW c \in Nat, c >= 1,
         (x % c) = 0, (y % c) = 0, x < y
  PROVE  x + c <= y
<1>1. PICK i \in Nat : x = c * i
  BY DivMod
<1>2. PICK j \in Nat : y = c * j
  BY DivMod
<1>3. i < j
  BY <1>1, <1>2
<1>4. c * i + c <= c * j
  BY <1>3
<1> QED BY <1>1, <1>2, <1>4

(* The next multiple.                                                      *)
LEMMA NextMultiple ==
  ASSUME NEW x \in Nat, NEW c \in Nat, c >= 1, (x % c) = 0
  PROVE  ((x + c) % c) = 0
<1> DEFINE i == x \div c
<1>1. i \in Nat /\ x = c * i + 0
  BY DivMod
<1> HIDE DEF i
<1>2. x + c = c * (i + 1) + 0 /\ x + c \in Nat /\ i + 1 \in Nat /\ 0 \in Nat /\ 0 < c
  BY <1>1
<1> QED BY <1>2, DivUnique

(* The shapes are positive, and the grid is made of whole clusters.        *)
LEMMA ShapeFacts ==
  /\ Axes = {1, 2, 3}
  /\ \A a \in Axes : /\ GridDim[a] \in Nat /\ GridDim[a] >= 1
                     /\ BlockDim[a] \in Nat /\ BlockDim[a] >= 1
                     /\ ClusterDim[a] \in Nat /\ ClusterDim[a] >= 1
                     /\ (GridDim[a] % ClusterDim[a]) = 0
BY ShapesAssumption DEF Axes

(* Blocks as functions of the axes.                                        *)
LEMMA BlockFacts ==
  /\ \A k \in Blocks : k \in [Axes -> Nat] /\ \A a \in Axes : k[a] \in Nat /\ k[a] < GridDim[a]
  /\ \A p \in [Axes -> Nat] : (\A a \in Axes : p[a] < GridDim[a]) => p \in Blocks
  /\ \A j, k \in Blocks : Same(j, k) => j = k
  /\ Origin \in Blocks /\ Origin \in [Axes -> Nat] /\ \A a \in Axes : Origin[a] = 0
<1>1. \A k \in Blocks : k \in [Axes -> Nat] /\ \A a \in Axes : k[a] \in Nat /\ k[a] < GridDim[a]
  BY ShapeFacts DEF Blocks, Axes
<1>2. ASSUME NEW p \in [Axes -> Nat], \A a \in Axes : p[a] < GridDim[a] PROVE p \in Blocks
  <2>1. p = [a \in Axes |-> p[a]]
    OBVIOUS
  <2>2. [a \in Axes |-> p[a]] = <<p[1], p[2], p[3]>>
    BY DEF Axes
  <2>3. p[1] \in 0..GridDim[1] - 1 /\ p[2] \in 0..GridDim[2] - 1 /\ p[3] \in 0..GridDim[3] - 1
    BY <1>2, ShapeFacts
  <2> QED BY <2>1, <2>2, <2>3 DEF Blocks
<1>3. ASSUME NEW j \in Blocks, NEW k \in Blocks, Same(j, k) PROVE j = k
  <2>1. j \in [Axes -> Nat] /\ k \in [Axes -> Nat]
    BY <1>1
  <2> QED BY <1>3, <2>1 DEF Same
<1>4. Origin \in [Axes -> Nat] /\ \A a \in Axes : Origin[a] = 0
  BY DEF Origin, Axes
<1>5. Origin \in Blocks
  BY <1>2, <1>4, ShapeFacts
<1> QED BY <1>1, <1>2, <1>3, <1>4, <1>5

(* What the odometer does, axis by axis.                                   *)
Moves(pos, step, limit, o) ==
  /\ o.wrapped <=> \A a \in Axes : pos[a] + step[a] = limit[a]
  /\ o.pos = [a \in Axes |-> o.pos[a]]
  /\ pos[1] + step[1] # limit[1] =>
       o.pos[1] = pos[1] + step[1] /\ o.pos[2] = pos[2] /\ o.pos[3] = pos[3]
  /\ pos[1] + step[1] = limit[1] /\ pos[2] + step[2] # limit[2] =>
       o.pos[1] = 0 /\ o.pos[2] = pos[2] + step[2] /\ o.pos[3] = pos[3]
  /\ pos[1] + step[1] = limit[1] /\ pos[2] + step[2] = limit[2]
       /\ pos[3] + step[3] # limit[3] =>
       o.pos[1] = 0 /\ o.pos[2] = 0 /\ o.pos[3] = pos[3] + step[3]
  /\ o.wrapped => o.pos[1] = 0 /\ o.pos[2] = 0 /\ o.pos[3] = 0

(* It does so.                                                             *)
LEMMA OdometerIs ==
  ASSUME NEW pos, NEW step, NEW limit
  PROVE  Moves(pos, step, limit, Odometer(pos, step, limit))
<1> DEFINE o == Odometer(pos, step, limit)
<1> DEFINE stays == {a \in Axes : pos[a] + step[a] # limit[a]}
           moved == IF stays = {} THEN 4 ELSE Min(stays)
           P(a) == CASE a < moved -> 0 [] a = moved -> pos[a] + step[a] [] a > moved -> pos[a]
<1>1. o.wrapped <=> stays = {}
  BY DEF Odometer
<1>2. o.pos = [a \in Axes |-> P(a)]
  BY DEF Odometer
<1>3. stays \in SUBSET Nat /\ stays \subseteq Axes
  BY DEF Axes
<1>4. \A a \in Axes : a \in stays <=> pos[a] + step[a] # limit[a]
  OBVIOUS
<1>5. 1 \in Axes /\ 2 \in Axes /\ 3 \in Axes /\ \A a \in Axes : a = 1 \/ a = 2 \/ a = 3
  BY ShapeFacts
<1> HIDE DEF stays, o
<1>6. 1 \in stays => moved = 1
  <2> SUFFICES ASSUME 1 \in stays PROVE moved = 1
    OBVIOUS
  <2>1. \A y \in stays : 1 <= y
    BY <1>3, <1>5
  <2>2. Min(stays) = 1
    BY <1>3, <2>1, MinIs
  <2> QED BY <2>2
<1>7. 1 \notin stays /\ 2 \in stays => moved = 2
  <2> SUFFICES ASSUME 1 \notin stays, 2 \in stays PROVE moved = 2
    OBVIOUS
  <2>1. \A y \in stays : 2 <= y
    BY <1>3, <1>5
  <2>2. Min(stays) = 2
    BY <1>3, <2>1, MinIs
  <2> QED BY <2>2
<1>8. 1 \notin stays /\ 2 \notin stays /\ 3 \in stays => moved = 3
  <2> SUFFICES ASSUME 1 \notin stays, 2 \notin stays, 3 \in stays PROVE moved = 3
    OBVIOUS
  <2>1. \A y \in stays : 3 <= y
    BY <1>3, <1>5
  <2>2. Min(stays) = 3
    BY <1>3, <2>1, MinIs
  <2> QED BY <2>2
<1>9. stays = {} => moved = 4
  OBVIOUS
<1> HIDE DEF moved
<1>10. /\ moved = 1 => P(1) = pos[1] + step[1] /\ P(2) = pos[2] /\ P(3) = pos[3]
       /\ moved = 2 => P(1) = 0 /\ P(2) = pos[2] + step[2] /\ P(3) = pos[3]
       /\ moved = 3 => P(1) = 0 /\ P(2) = 0 /\ P(3) = pos[3] + step[3]
       /\ moved = 4 => P(1) = 0 /\ P(2) = 0 /\ P(3) = 0
  OBVIOUS
<1> HIDE DEF P
<1>11. o.pos[1] = P(1) /\ o.pos[2] = P(2) /\ o.pos[3] = P(3) /\ o.pos = [a \in Axes |-> o.pos[a]]
  BY <1>2, <1>5
<1>12. o.wrapped <=> \A a \in Axes : pos[a] + step[a] = limit[a]
  BY <1>1, <1>3, <1>4
<1>13. Moves(pos, step, limit, o)
  BY <1>1, <1>4, <1>5, <1>6, <1>7, <1>8, <1>9, <1>10, <1>11, <1>12 DEF Moves
<1> QED BY <1>13 DEF o

(* The odometer moves to the next position in the order, or there is none. *)
LEMMA OdometerNext ==
  ASSUME NEW pos \in [Axes -> Nat], NEW q \in [Axes -> Nat], NEW step, NEW limit,
         \A a \in Axes : /\ step[a] \in Nat /\ step[a] >= 1 /\ limit[a] \in Nat
                         /\ pos[a] + step[a] <= limit[a] /\ q[a] + step[a] <= limit[a]
                         /\ pos[a] < q[a] => pos[a] + step[a] <= q[a],
         NEW o, o = Odometer(pos, step, limit)
  PROVE  /\ o.pos \in [Axes -> Nat]
         /\ ~o.wrapped => (Lt(pos, q) <=> Same(o.pos, q) \/ Lt(o.pos, q))
         /\ o.wrapped => ~Lt(pos, q)
<1>7. Moves(pos, step, limit, o)
  BY OdometerIs
<1>1. /\ o.wrapped <=> pos[1] + step[1] = limit[1] /\ pos[2] + step[2] = limit[2]
                       /\ pos[3] + step[3] = limit[3]
      /\ o.pos = [a \in Axes |-> o.pos[a]]
      /\ \A p : Same(p, q) <=> p[1] = q[1] /\ p[2] = q[2] /\ p[3] = q[3]
  BY <1>7, ShapeFacts DEF Same, Moves
<1>2. \A a \in {1, 2, 3} : /\ step[a] \in Nat /\ step[a] >= 1 /\ limit[a] \in Nat
                           /\ pos[a] + step[a] <= limit[a] /\ q[a] + step[a] <= limit[a]
                           /\ pos[a] < q[a] => pos[a] + step[a] <= q[a]
                           /\ pos[a] \in Nat /\ q[a] \in Nat
  BY ShapeFacts
<1>0. /\ pos[1] + step[1] # limit[1] =>
           o.pos[1] = pos[1] + step[1] /\ o.pos[2] = pos[2] /\ o.pos[3] = pos[3]
      /\ pos[1] + step[1] = limit[1] /\ pos[2] + step[2] # limit[2] =>
           o.pos[1] = 0 /\ o.pos[2] = pos[2] + step[2] /\ o.pos[3] = pos[3]
      /\ pos[1] + step[1] = limit[1] /\ pos[2] + step[2] = limit[2]
           /\ pos[3] + step[3] # limit[3] =>
           o.pos[1] = 0 /\ o.pos[2] = 0 /\ o.pos[3] = pos[3] + step[3]
  BY <1>7 DEF Moves
<1>3. CASE pos[1] + step[1] # limit[1]
  <2>1. o.pos[1] = pos[1] + step[1] /\ o.pos[2] = pos[2] /\ o.pos[3] = pos[3]
    BY <1>0, <1>3
  <2>2. Lt(pos, q) <=> Same(o.pos, q) \/ Lt(o.pos, q)
    BY <1>1, <1>2, <2>1 DEF Lt
  <2>3. o.pos \in [Axes -> Nat]
    BY <1>1, <1>2, <2>1, ShapeFacts
  <2> QED BY <1>1, <1>3, <2>2, <2>3
<1>4. CASE pos[1] + step[1] = limit[1] /\ pos[2] + step[2] # limit[2]
  <2>1. o.pos[1] = 0 /\ o.pos[2] = pos[2] + step[2] /\ o.pos[3] = pos[3]
    BY <1>0, <1>4
  <2>2. Lt(pos, q) <=> Same(o.pos, q) \/ Lt(o.pos, q)
    BY <1>1, <1>2, <1>4, <2>1 DEF Lt
  <2>3. o.pos \in [Axes -> Nat]
    BY <1>1, <1>2, <2>1, ShapeFacts
  <2> QED BY <1>1, <1>4, <2>2, <2>3
<1>5. CASE pos[1] + step[1] = limit[1] /\ pos[2] + step[2] = limit[2] /\ pos[3] + step[3] # limit[3]
  <2>1. o.pos[1] = 0 /\ o.pos[2] = 0 /\ o.pos[3] = pos[3] + step[3]
    BY <1>0, <1>5
  <2>2. Lt(pos, q) <=> Same(o.pos, q) \/ Lt(o.pos, q)
    BY <1>1, <1>2, <1>5, <2>1 DEF Lt
  <2>3. o.pos \in [Axes -> Nat]
    BY <1>1, <1>2, <2>1, ShapeFacts
  <2> QED BY <1>1, <1>5, <2>2, <2>3
<1>6. CASE pos[1] + step[1] = limit[1] /\ pos[2] + step[2] = limit[2] /\ pos[3] + step[3] = limit[3]
  <2>1. o.pos[1] = 0 /\ o.pos[2] = 0 /\ o.pos[3] = 0 /\ o.wrapped
    BY <1>1, <1>6, <1>7 DEF Moves
  <2>2. ~Lt(pos, q)
    BY <1>2, <1>6 DEF Lt
  <2>3. o.pos \in [Axes -> Nat]
    BY <1>1, <2>1, ShapeFacts
  <2> QED BY <2>1, <2>2, <2>3
<1> QED BY <1>3, <1>4, <1>5, <1>6


(* A multiple below a multiple leaves room for a whole cluster.            *)
LEMMA RoomAbove ==
  ASSUME NEW a \in Axes, NEW x \in Nat, (x % ClusterDim[a]) = 0, x < GridDim[a]
  PROVE  x + ClusterDim[a] <= GridDim[a]
BY Apart, ShapeFacts

(* Cluster and place of a block.                                           *)
LEMMA PlaceFacts ==
  ASSUME NEW k \in Blocks
  PROVE  /\ OriginOf(k) \in [Axes -> Nat] /\ IntraOf(k) \in [Axes -> Nat]
         /\ \A a \in Axes : /\ (OriginOf(k)[a] % ClusterDim[a]) = 0
                            /\ OriginOf(k)[a] + ClusterDim[a] <= GridDim[a]
                            /\ IntraOf(k)[a] < ClusterDim[a]
                            /\ k[a] = OriginOf(k)[a] + IntraOf(k)[a]
<1>1. ASSUME NEW a \in Axes
      PROVE  /\ OriginOf(k)[a] \in Nat /\ IntraOf(k)[a] \in Nat
             /\ (OriginOf(k)[a] % ClusterDim[a]) = 0
             /\ OriginOf(k)[a] + ClusterDim[a] <= GridDim[a]
             /\ IntraOf(k)[a] < ClusterDim[a]
             /\ k[a] = OriginOf(k)[a] + IntraOf(k)[a]
  <2> DEFINE c == ClusterDim[a]
             x == k[a]
             d == x \div c
             m == x % c
  <2>1. /\ c \in Nat /\ c >= 1 /\ x \in Nat /\ x < GridDim[a] /\ GridDim[a] \in Nat
    BY ShapeFacts, BlockFacts
  <2>2. OriginOf(k)[a] = d * c /\ IntraOf(k)[a] = m
    BY DEF OriginOf, IntraOf
  <2> HIDE DEF c, x
  <2>3. d \in Nat /\ m \in Nat /\ m < c /\ x = c * d + m
    BY <2>1, DivMod
  <2> HIDE DEF d, m
  <2>4. d * c \in Nat /\ d * c = c * d + 0 /\ x = d * c + m /\ d * c <= x
    BY <2>1, <2>3
  <2>5. ((d * c) % c) = 0
    BY <2>1, <2>3, <2>4, DivUnique
  <2>6. d * c < GridDim[a]
    BY <2>1, <2>4
  <2>7. d * c + c <= GridDim[a]
    BY <2>4, <2>5, <2>6, RoomAbove DEF c
  <2> QED BY <2>2, <2>3, <2>4, <2>5, <2>7 DEF c, x
<1>2. OriginOf(k) = [a \in Axes |-> OriginOf(k)[a]] /\ IntraOf(k) = [a \in Axes |-> IntraOf(k)[a]]
  BY DEF OriginOf, IntraOf
<1> QED BY <1>1, <1>2

(* The block the KMU hands out, and where it is in the grid.               *)
LEMMA KmuBlock ==
  ASSUME NEW q, KmuOK(q)
  PROVE  /\ KmuRequest(q).block \in Blocks
         /\ \A k \in Blocks : k = KmuRequest(q).block
              <=> Same(q.origin, OriginOf(k)) /\ Same(q.intra, IntraOf(k))
<1> DEFINE b == KmuRequest(q).block
<1>1. b = [a \in Axes |-> q.origin[a] + q.intra[a]]
  BY DEF KmuRequest, Sum3
<1>2. \A a \in Axes : /\ q.origin[a] \in Nat /\ q.intra[a] \in Nat
                      /\ q.intra[a] < ClusterDim[a] /\ q.origin[a] < GridDim[a]
                      /\ (q.origin[a] % ClusterDim[a]) = 0
                      /\ q.origin[a] + ClusterDim[a] <= GridDim[a]
  BY RoomAbove DEF KmuOK, Kmus
<1> HIDE DEF b
<1>3. \A a \in Axes : b[a] = q.origin[a] + q.intra[a] /\ b[a] \in Nat /\ b[a] < GridDim[a]
  BY <1>1, <1>2, ShapeFacts
<1>4. b \in Blocks
  BY <1>1, <1>3, BlockFacts
<1>5. ASSUME NEW a \in Axes
      PROVE  OriginOf(b)[a] = q.origin[a] /\ IntraOf(b)[a] = q.intra[a]
  <2> DEFINE c == ClusterDim[a]
             x == q.origin[a]
             y == q.intra[a]
             d == x \div c
  <2>1. /\ c \in Nat /\ c >= 1 /\ x \in Nat /\ y \in Nat /\ y < c /\ (x % c) = 0
        /\ b[a] \in Nat /\ b[a] = x + y
    BY <1>2, <1>3, ShapeFacts
  <2>2. /\ OriginOf(b)[a] = (b[a] \div c) * c /\ IntraOf(b)[a] = b[a] % c
    BY DEF OriginOf, IntraOf
  <2> HIDE DEF c, x, y
  <2>3. d \in Nat /\ x = c * d + 0
    BY <2>1, DivMod
  <2> HIDE DEF d
  <2>4. b[a] = c * d + y
    BY <2>1, <2>3
  <2>5. (b[a] \div c) = d /\ (b[a] % c) = y
    BY <2>1, <2>3, <2>4, DivUnique
  <2>6. d * c = x
    BY <2>1, <2>3
  <2> QED BY <2>2, <2>5, <2>6 DEF x, y
<1>6. ASSUME NEW k \in Blocks
      PROVE  k = b <=> Same(q.origin, OriginOf(k)) /\ Same(q.intra, IntraOf(k))
  <2>1. ASSUME Same(q.origin, OriginOf(k)), Same(q.intra, IntraOf(k)) PROVE k = b
    <3>1. \A a \in Axes : k[a] = b[a]
      BY <1>3, <2>1, PlaceFacts DEF Same
    <3> QED BY <1>4, <3>1, BlockFacts DEF Same
  <2>2. ASSUME k = b PROVE Same(q.origin, OriginOf(k)) /\ Same(q.intra, IntraOf(k))
    BY <1>5, <2>2 DEF Same
  <2> QED BY <2>1, <2>2
<1> QED BY <1>4, <1>6 DEF b

(* An axis is reset, kept, or moved to a position short of the limit.      *)
LEMMA MovesTo ==
  ASSUME NEW pos, NEW step, NEW limit, NEW o, Moves(pos, step, limit, o), NEW a \in Axes
  PROVE  \/ o.pos[a] = 0 \/ o.pos[a] = pos[a]
         \/ o.pos[a] = pos[a] + step[a] /\ pos[a] + step[a] # limit[a]
<1>1. \/ pos[1] + step[1] # limit[1]
      \/ pos[1] + step[1] = limit[1] /\ pos[2] + step[2] # limit[2]
      \/ pos[1] + step[1] = limit[1] /\ pos[2] + step[2] = limit[2] /\ pos[3] + step[3] # limit[3]
      \/ \A b \in Axes : pos[b] + step[b] = limit[b]
  BY ShapeFacts
<1>2. CASE \A b \in Axes : pos[b] + step[b] = limit[b]
  <2>1. o.wrapped
    BY <1>2 DEF Moves
  <2>2. o.pos[1] = 0 /\ o.pos[2] = 0 /\ o.pos[3] = 0
    BY <2>1 DEF Moves
  <2> QED BY <2>2, ShapeFacts
<1>3. CASE pos[1] + step[1] # limit[1]
  <2>1. o.pos[1] = pos[1] + step[1] /\ o.pos[2] = pos[2] /\ o.pos[3] = pos[3]
    BY <1>3 DEF Moves
  <2> QED BY <1>3, <2>1, ShapeFacts
<1>4. CASE pos[1] + step[1] = limit[1] /\ pos[2] + step[2] # limit[2]
  <2>1. o.pos[1] = 0 /\ o.pos[2] = pos[2] + step[2] /\ o.pos[3] = pos[3]
    BY <1>4 DEF Moves
  <2> QED BY <1>4, <2>1, ShapeFacts
<1>5. CASE pos[1] + step[1] = limit[1] /\ pos[2] + step[2] = limit[2] /\ pos[3] + step[3] # limit[3]
  <2>1. o.pos[1] = 0 /\ o.pos[2] = 0 /\ o.pos[3] = pos[3] + step[3]
    BY <1>5 DEF Moves
  <2> QED BY <1>5, <2>1, ShapeFacts
<1> QED BY <1>1, <1>2, <1>3, <1>4, <1>5

(* A step of the KMU keeps its position in the grid.                       *)
LEMMA KmuStepOK ==
  ASSUME NEW q, KmuOK(q)
  PROVE  KmuOK(KmuStep(q))
<1> DEFINE in == Odometer(q.intra, Unit, ClusterDim)
           over == Odometer(q.origin, ClusterDim, GridDim)
           q2 == KmuStep(q)
<1>1. /\ q2.running \in BOOLEAN /\ q2.intra = in.pos
      /\ q2.origin = IF in.wrapped THEN over.pos ELSE q.origin
      /\ q2 = [running |-> q2.running, intra |-> q2.intra, origin |-> q2.origin]
  BY DEF KmuStep
<1>2. Moves(q.intra, Unit, ClusterDim, in) /\ Moves(q.origin, ClusterDim, GridDim, over)
  BY OdometerIs
<1> HIDE DEF in, over, q2
<1>3. /\ \A a \in Axes : Unit[a] = 1 /\ a \in {1, 2, 3}
      /\ 1 \in Axes /\ 2 \in Axes /\ 3 \in Axes
  BY DEF Unit, Axes
<1>4. \A a \in Axes : /\ q.origin[a] \in Nat /\ q.intra[a] \in Nat
                      /\ q.intra[a] < ClusterDim[a] /\ q.origin[a] < GridDim[a]
                      /\ (q.origin[a] % ClusterDim[a]) = 0
                      /\ q.origin[a] + ClusterDim[a] <= GridDim[a]
                      /\ ((q.origin[a] + ClusterDim[a]) % ClusterDim[a]) = 0
                      /\ ClusterDim[a] \in Nat /\ ClusterDim[a] >= 1
                      /\ GridDim[a] \in Nat /\ GridDim[a] >= 1
                      /\ (0 % ClusterDim[a]) = 0
  <2>1. \A c \in Nat : c >= 1 => (0 % c) = 0
    OBVIOUS
  <2> QED BY <2>1, RoomAbove, NextMultiple, ShapeFacts DEF KmuOK, Kmus
<1>5. \A a \in Axes : in.pos[a] \in Nat /\ in.pos[a] < ClusterDim[a]
  <2>1. \A a \in Axes : \/ in.pos[a] = 0 \/ in.pos[a] = q.intra[a]
                        \/ in.pos[a] = q.intra[a] + 1 /\ q.intra[a] + 1 # ClusterDim[a]
    BY <1>2, <1>3, MovesTo
  <2>2. ASSUME NEW a \in Axes PROVE in.pos[a] \in Nat /\ in.pos[a] < ClusterDim[a]
    <3>1. q.intra[a] \in Nat /\ ClusterDim[a] \in Nat /\ q.intra[a] < ClusterDim[a]
      BY <1>4
    <3> QED BY <2>1, <3>1
  <2> QED BY <2>2
<1>6. \A a \in Axes : /\ over.pos[a] \in Nat /\ over.pos[a] < GridDim[a]
                      /\ (over.pos[a] % ClusterDim[a]) = 0
  <2>1. \A a \in Axes : \/ over.pos[a] = 0 \/ over.pos[a] = q.origin[a]
                        \/ /\ over.pos[a] = q.origin[a] + ClusterDim[a]
                           /\ q.origin[a] + ClusterDim[a] # GridDim[a]
    BY <1>2, MovesTo
  <2> QED BY <1>4, <2>1
<1>7. in.pos = [a \in Axes |-> in.pos[a]] /\ over.pos = [a \in Axes |-> over.pos[a]]
  BY <1>2 DEF Moves
<1>8. q.origin \in [Axes -> Nat]
  BY DEF KmuOK, Kmus
<1>9. q2.intra \in [Axes -> Nat] /\ q2.origin \in [Axes -> Nat]
  BY <1>1, <1>5, <1>6, <1>7, <1>8
<1>10. q2 \in Kmus
  BY <1>1, <1>9 DEF Kmus
<1>11. \A a \in Axes : /\ q2.intra[a] < ClusterDim[a] /\ q2.origin[a] < GridDim[a]
                       /\ (q2.origin[a] % ClusterDim[a]) = 0
  BY <1>1, <1>4, <1>5, <1>6
<1> QED BY <1>10, <1>11 DEF KmuOK, q2

(* It hands out one block and goes on to the next: what is before it       *)
(* afterwards is what was, but for that block.                             *)
LEMMA AheadStep ==
  ASSUME NEW q, KmuOK(q), q.running, NEW k \in Blocks
  PROVE  /\ Ahead(q, KmuRequest(q).block)
         /\ Ahead(KmuStep(q), k) <=> Ahead(q, k) /\ k # KmuRequest(q).block
<1> DEFINE in == Odometer(q.intra, Unit, ClusterDim)
           over == Odometer(q.origin, ClusterDim, GridDim)
           q2 == KmuStep(q)
           O == OriginOf(k)
           I == IntraOf(k)
<1>1. /\ q2.running <=> ~(in.wrapped /\ over.wrapped)
      /\ q2.intra = in.pos
      /\ q2.origin = IF in.wrapped THEN over.pos ELSE q.origin
  BY DEF KmuStep
<1>2. /\ q.intra \in [Axes -> Nat] /\ q.origin \in [Axes -> Nat]
      /\ O \in [Axes -> Nat] /\ I \in [Axes -> Nat]
  BY PlaceFacts DEF KmuOK, Kmus
<1>3. \A a \in Axes : /\ Unit[a] \in Nat /\ Unit[a] >= 1 /\ ClusterDim[a] \in Nat
                      /\ q.intra[a] + Unit[a] <= ClusterDim[a] /\ I[a] + Unit[a] <= ClusterDim[a]
                      /\ q.intra[a] < I[a] => q.intra[a] + Unit[a] <= I[a]
  <2>1. \A a \in Axes : Unit[a] = 1
    BY DEF Unit, Axes
  <2>2. \A a \in Axes : I[a] < ClusterDim[a] /\ q.intra[a] < ClusterDim[a]
    BY PlaceFacts DEF KmuOK
  <2> HIDE DEF I
  <2> QED BY <1>2, <2>1, <2>2, ShapeFacts
<1>4. \A a \in Axes : /\ ClusterDim[a] \in Nat /\ ClusterDim[a] >= 1 /\ GridDim[a] \in Nat
                      /\ q.origin[a] + ClusterDim[a] <= GridDim[a]
                      /\ O[a] + ClusterDim[a] <= GridDim[a]
                      /\ q.origin[a] < O[a] => q.origin[a] + ClusterDim[a] <= O[a]
  <2>1. \A a \in Axes : /\ O[a] + ClusterDim[a] <= GridDim[a] /\ (O[a] % ClusterDim[a]) = 0
                        /\ q.origin[a] < GridDim[a] /\ (q.origin[a] % ClusterDim[a]) = 0
    BY PlaceFacts DEF KmuOK
  <2> HIDE DEF O
  <2> QED BY <1>2, <2>1, RoomAbove, Apart, ShapeFacts
<1> HIDE DEF O, I
<1>5. /\ ~in.wrapped => (Lt(q.intra, I) <=> Same(in.pos, I) \/ Lt(in.pos, I))
      /\ in.wrapped => ~Lt(q.intra, I)
  BY <1>2, <1>3, OdometerNext
<1>6. /\ ~over.wrapped => (Lt(q.origin, O) <=> Same(over.pos, O) \/ Lt(over.pos, O))
      /\ over.wrapped => ~Lt(q.origin, O)
  BY <1>2, <1>4, OdometerNext
<1>7. in.wrapped => Same(in.pos, I) \/ Lt(in.pos, I)
  <2>1. Moves(q.intra, Unit, ClusterDim, in)
    BY OdometerIs
  <2>2. in.wrapped => in.pos[1] = 0 /\ in.pos[2] = 0 /\ in.pos[3] = 0
    BY <2>1 DEF Moves
  <2>3. I[1] \in Nat /\ I[2] \in Nat /\ I[3] \in Nat
    BY <1>2, ShapeFacts
  <2> HIDE DEF in
  <2> QED BY <2>2, <2>3, ShapeFacts DEF Same, Lt
<1> HIDE DEF in, over, q2
<1>8. k = KmuRequest(q).block <=> Same(q.origin, O) /\ Same(q.intra, I)
  BY KmuBlock DEF O, I
<1>9. /\ ~(Same(q.origin, O) /\ Lt(q.origin, O))
      /\ ~(Same(q.intra, I) /\ Lt(q.intra, I))
  BY <1>2, ShapeFacts DEF Same, Lt
<1>10. Ahead(q, k) <=> Lt(q.origin, O) \/ (Same(q.origin, O) /\ (Same(q.intra, I) \/ Lt(q.intra, I)))
  BY DEF Ahead, O, I
<1>11. Ahead(q2, k) <=> /\ q2.running
                        /\ \/ Lt(q2.origin, O)
                           \/ Same(q2.origin, O) /\ (Same(q2.intra, I) \/ Lt(q2.intra, I))
  BY DEF Ahead, O, I
<1>12. Ahead(q, k) /\ k # KmuRequest(q).block
       <=> Lt(q.origin, O) \/ (Same(q.origin, O) /\ Lt(q.intra, I))
  BY <1>8, <1>9, <1>10
<1>13. Ahead(q2, k) <=> Lt(q.origin, O) \/ (Same(q.origin, O) /\ Lt(q.intra, I))
  <2>1. CASE ~in.wrapped
    <3>1. q2.origin = q.origin /\ q2.intra = in.pos /\ q2.running
      BY <1>1, <2>1
    <3> QED BY <1>5, <1>11, <2>1, <3>1
  <2>2. CASE in.wrapped /\ ~over.wrapped
    <3>1. q2.origin = over.pos /\ q2.intra = in.pos /\ q2.running
      BY <1>1, <2>2
    <3> QED BY <1>5, <1>6, <1>7, <1>11, <2>2, <3>1
  <2>3. CASE in.wrapped /\ over.wrapped
    <3>1. ~q2.running
      BY <1>1, <2>3
    <3> QED BY <1>5, <1>6, <1>11, <2>3, <3>1
  <2> QED BY <2>1, <2>2, <2>3
<1>14. Ahead(q, KmuRequest(q).block)
  BY KmuBlock DEF Ahead
<1> QED BY <1>12, <1>13, <1>14 DEF q2

(* At the launch every block is before it.                                 *)
LEMMA AheadAtFirst ==
  ASSUME NEW q, q = [running |-> TRUE, intra |-> Origin, origin |-> Origin]
  PROVE  KmuOK(q) /\ \A k \in Blocks : Ahead(q, k)
<1>1. q.running /\ q.intra = Origin /\ q.origin = Origin
  OBVIOUS
<1>2. q \in Kmus
  BY BlockFacts DEF Kmus
<1>3. \A a \in Axes : (0 % ClusterDim[a]) = 0 /\ 0 < ClusterDim[a] /\ 0 < GridDim[a]
  <2>1. \A c \in Nat : c >= 1 => (0 % c) = 0
    OBVIOUS
  <2> QED BY <2>1, ShapeFacts
<1>4. KmuOK(q)
  BY <1>1, <1>2, <1>3, BlockFacts DEF KmuOK
<1>5. ASSUME NEW p \in [Axes -> Nat] PROVE Same(Origin, p) \/ Lt(Origin, p)
  <2>1. Origin[1] = 0 /\ Origin[2] = 0 /\ Origin[3] = 0 /\ p[1] \in Nat /\ p[2] \in Nat /\ p[3] \in Nat
    BY ShapeFacts, BlockFacts
  <2> QED BY <2>1, ShapeFacts DEF Same, Lt
<1>6. \A k \in Blocks : Ahead(q, k)
  BY <1>1, <1>5, PlaceFacts DEF Ahead
<1> QED BY <1>4, <1>6

-----------------------------------------------------------------------------
(***************************************************************************)
(* Blocks, warps and slots.                                                *)
(***************************************************************************)
(* The warps a block takes: rank r has a lane if r is less than that.      *)
LEMMA CtaFacts ==
  /\ BlockSize \in Nat /\ BlockSize >= 1 /\ CtaSize \in Nat /\ CtaSize >= 1
  /\ \A r \in Nat : r < CtaSize <=> r * NumThreads < BlockSize
<1>1. BlockSize \in Nat /\ BlockSize >= 1
  <2> DEFINE x == BlockDim[1]
             y == BlockDim[2]
             z == BlockDim[3]
  <2>1. x \in Nat /\ y \in Nat /\ z \in Nat /\ x >= 1 /\ y >= 1 /\ z >= 1
    BY ShapeFacts
  <2>2. BlockSize = x * y * z
    BY DEF BlockSize, Volume
  <2> HIDE DEF x, y, z
  <2>3. x * y \in Nat /\ x * y >= 1
    BY <2>1
  <2>4. (x * y) * z \in Nat /\ (x * y) * z >= 1
    BY <2>1, <2>3
  <2> QED BY <2>2, <2>4
<1> DEFINE n == BlockSize + NumThreads - 1
           T == NumThreads
           c == n \div T
<1>2. T \in Nat /\ T >= 1 /\ n \in Nat /\ n = BlockSize + T - 1 /\ CtaSize = c
  BY <1>1, SizeFacts DEF CtaSize
<1> HIDE DEF n, T
<1>3. c \in Nat /\ (n % T) \in Nat /\ (n % T) < T /\ n = T * c + (n % T)
  BY <1>2, DivMod
<1> HIDE DEF c
<1>4. ASSUME NEW r \in Nat PROVE r < c <=> r * T < BlockSize
  <2>1. ASSUME r < c PROVE r * T < BlockSize
    <3>1. r * T + T <= T * c
      BY <1>2, <1>3, <2>1
    <3>2. r * T \in Nat /\ T * c \in Nat
      BY <1>2, <1>3
    <3> QED BY <1>1, <1>2, <1>3, <3>1, <3>2
  <2>2. ASSUME ~(r < c) PROVE ~(r * T < BlockSize)
    <3>1. T * c <= r * T
      BY <1>2, <1>3, <2>2
    <3>2. r * T \in Nat /\ T * c \in Nat
      BY <1>2, <1>3
    <3> QED BY <1>1, <1>2, <1>3, <3>1, <3>2
  <2> QED BY <2>1, <2>2
<1>5. c >= 1
  <2>1. 0 * T = 0 /\ (0 < c <=> 0 * T < BlockSize)
    BY <1>2, <1>4
  <2> QED BY <1>1, <1>3, <2>1
<1> QED BY <1>1, <1>2, <1>3, <1>4, <1>5 DEF T

(* Dividing twice is dividing by the product.                              *)
LEMMA DivTwice ==
  ASSUME NEW n \in Nat, NEW b \in Nat, NEW c \in Nat, b >= 1, c >= 1
  PROVE  n \div (b * c) = (n \div b) \div c
<1> DEFINE q == n \div b
           r == n % b
           z == q \div c
           y == q % c
<1>1. q \in Nat /\ r \in Nat /\ r < b /\ n = b * q + r
  BY DivMod
<1> HIDE DEF q, r
<1>2. z \in Nat /\ y \in Nat /\ y < c /\ q = c * z + y
  BY <1>1, DivMod
<1> HIDE DEF z, y
<1>3. b * c \in Nat /\ b * c >= 1 /\ b * y + r \in Nat
  BY <1>1, <1>2
<1>4. n = (b * c) * z + (b * y + r)
  <2>1. b * q = (b * c) * z + b * y
    BY <1>2
  <2>2. b * q \in Nat /\ b * y \in Nat /\ (b * c) * z \in Nat
    BY <1>1, <1>2, <1>3
  <2>3. \A t, u, v \in Nat : t = u + v => t + r = u + (v + r)
    BY <1>1
  <2>4. b * q + r = (b * c) * z + (b * y + r)
    BY <2>1, <2>2, <2>3
  <2> QED BY <1>1, <2>4
<1>5. b * y + r < b * c
  <2>1. b * y + b <= b * c
    BY <1>2
  <2> QED BY <1>1, <1>2, <1>3, <2>1
<1>6. (n \div (b * c)) = z
  BY <1>2, <1>3, <1>4, <1>5, DivUnique
<1> QED BY <1>6 DEF z, q

(* The dispatcher's step from the first lane of a warp to that of the next *)
(* is the one in the order of the lanes, for every shape of a block.       *)
LEMMA TidFollows ==
  ASSUME NEW n \in Nat, n + NumThreads < BlockSize
  PROVE  NextTid(LaneAt(n, BlockDim), BlockDim) = LaneAt(n + NumThreads, BlockDim)
<1> DEFINE T == NumThreads
           a == BlockDim[1]
           b == BlockDim[2]
           c == BlockDim[3]
           nx == n % a   nq == n \div a   ny == nq % b   nz == nq \div b
           tx1 == T % a   tq == T \div a   ty == tq % b   tz == tq \div b
           x == nx + tx1
           cx == IF x >= a THEN 1 ELSE 0
           y == ny + ty + cx
           cy == IF y >= b THEN 1 ELSE 0
           z == nz + tz + cy
<1>1. /\ T \in Nat /\ a \in Nat /\ b \in Nat /\ c \in Nat /\ a >= 1 /\ b >= 1 /\ c >= 1
      /\ n + T < a * b * c
  BY ShapeFacts, SizeFacts DEF BlockSize, Volume
<1>2. LaneAt(n, BlockDim) = <<nx, ny, nz>>
  BY <1>1, DivTwice DEF LaneAt
<1>3. LaneAt(n + T, BlockDim) = <<(n + T) % a, ((n + T) \div a) % b, ((n + T) \div a) \div b>>
  BY <1>1, DivTwice DEF LaneAt
<1>4. T \div (a * b) = tz
  BY <1>1, DivTwice
<1>5. WarpStep(BlockDim) = <<tx1, ty, tz % c>>
  BY <1>4 DEF WarpStep
<1> HIDE DEF T, a, b, c
<1>6. /\ nx \in Nat /\ nx < a /\ nq \in Nat /\ tx1 \in Nat /\ tx1 < a /\ tq \in Nat
  BY <1>1, DivMod
<1>7. /\ ((n + T) % a) = IF x >= a THEN x - a ELSE x
      /\ ((n + T) \div a) = nq + tq + cx
  <2>1. n = a * nq + nx /\ T = a * tq + tx1
    BY <1>1, DivMod
  <2>2. cx = IF x >= a THEN 1 ELSE 0
    OBVIOUS
  <2>3. x \in Nat /\ x < 2 * a /\ x = nx + tx1
    BY <1>1, <1>6
  <2> HIDE DEF nx, nq, tx1, tq, x, cx
  <2>4. n + T = a * (nq + tq) + x /\ n + T \in Nat /\ nq + tq \in Nat
    BY <1>1, <1>6, <2>1, <2>3
  <2>5. CASE x >= a
    <3>1. n + T = a * (nq + tq + 1) + (x - a) /\ x - a \in Nat /\ x - a < a
          /\ nq + tq + 1 \in Nat
      BY <1>1, <1>6, <2>3, <2>4, <2>5
    <3>2. cx = 1
      BY <2>2, <2>5
    <3> QED BY <1>1, <2>4, <2>5, <3>1, <3>2, DivUnique
  <2>6. CASE ~(x >= a)
    <3>1. cx = 0 /\ nq + tq + 0 = nq + tq /\ x < a
      BY <1>1, <1>6, <2>2, <2>3, <2>6
    <3> QED BY <1>1, <2>3, <2>4, <2>6, <3>1, DivUnique
  <2> QED BY <2>5, <2>6
<1> HIDE DEF nx, nq, tx1, tq
<1>8. /\ ny \in Nat /\ ny < b /\ nz \in Nat /\ nq = b * nz + ny
      /\ ty \in Nat /\ ty < b /\ tz \in Nat /\ tq = b * tz + ty
  BY <1>1, <1>6, DivMod
<1> HIDE DEF ny, nz, ty, tz
<1>9. cx \in {0, 1}
  OBVIOUS
<1>10. y \in Nat /\ z \in Nat /\ y < 2 * b
  <2> HIDE DEF cx
  <2> QED BY <1>1, <1>8, <1>9
<1>11. /\ ((nq + tq + cx) \div b) = z
       /\ ((nq + tq + cx) % b) = IF y >= b THEN y - b ELSE y
  <2> HIDE DEF cx
  <2>1. nq + tq + cx = b * (nz + tz) + y /\ nq + tq + cx \in Nat /\ nz + tz \in Nat
    BY <1>1, <1>6, <1>8, <1>9
  <2>2. CASE y >= b
    <3>1. z = nz + tz + 1
      BY <2>2
    <3> HIDE DEF y, z
    <3>2. nq + tq + cx = b * (nz + tz + 1) + (y - b) /\ y - b \in Nat /\ y - b < b
          /\ nz + tz + 1 \in Nat
      BY <1>1, <1>8, <1>10, <2>1, <2>2
    <3> QED BY <1>1, <2>1, <2>2, <3>1, <3>2, DivUnique
  <2>3. CASE ~(y >= b)
    <3>1. z = nz + tz
      BY <1>8, <2>3
    <3> HIDE DEF y, z
    <3>2. y \in Nat /\ y < b
      BY <1>1, <1>10, <2>3
    <3> QED BY <1>1, <2>1, <2>3, <3>1, <3>2, DivUnique
  <2> QED BY <2>2, <2>3
<1>12. tz % c = tz
  <2>1. tz < c
    <3>1. T < (a * b) * c /\ a * b \in Nat /\ a * b >= 1
      BY <1>1
    <3>2. tz = T \div (a * b) /\ T = (a * b) * (T \div (a * b)) + (T % (a * b))
          /\ (T % (a * b)) \in Nat
      BY <1>1, <1>4, <3>1, DivMod
    <3>3. (a * b) * tz <= T
      BY <1>1, <1>8, <3>1, <3>2
    <3>4. (a * b) * tz < (a * b) * c
      <4>1. (a * b) * tz \in Nat /\ (a * b) * c \in Nat
        BY <1>1, <1>8, <3>1
      <4> QED BY <1>1, <3>1, <3>3, <4>1
    <3>5. \A u, v, p \in Nat : p * u < p * v => u < v
      OBVIOUS
    <3> QED BY <1>1, <1>8, <3>1, <3>4, <3>5
  <2> QED BY <1>1, <1>8, <2>1
<1>13. NextTid(<<nx, ny, nz>>, BlockDim)
       = <<IF x >= a THEN x - a ELSE x, IF y >= b THEN y - b ELSE y, z>>
  <2>1. WarpStep(BlockDim) = <<tx1, ty, tz>>
    BY <1>5, <1>12
  <2> QED BY <2>1 DEF NextTid, a, b
<1>14. LaneAt(n + T, BlockDim) = <<IF x >= a THEN x - a ELSE x, IF y >= b THEN y - b ELSE y, z>>
  BY <1>3, <1>7, <1>11
<1> QED BY <1>2, <1>13, <1>14 DEF T

(* A threadIdx stays one of natural numbers.                               *)
LEMMA TidTypes ==
  /\ \A tid \in [Axes -> Nat] : NextTid(tid, BlockDim) \in [Axes -> Nat]
  /\ \A n \in Nat : LaneAt(n, BlockDim) \in [Axes -> Nat]
  /\ LaneAt(0, BlockDim) = Origin
<1>1. \A x, y, z \in Nat : <<x, y, z>> \in [Axes -> Nat]
  BY DEF Axes
<1>2. BlockDim[1] \in Nat /\ BlockDim[2] \in Nat /\ BlockDim[3] \in Nat
      /\ BlockDim[1] >= 1 /\ BlockDim[2] >= 1 /\ BlockDim[3] >= 1
      /\ BlockDim[1] * BlockDim[2] \in Nat /\ BlockDim[1] * BlockDim[2] >= 1
  BY ShapeFacts
<1>3. ASSUME NEW tid \in [Axes -> Nat] PROVE NextTid(tid, BlockDim) \in [Axes -> Nat]
  <2> DEFINE step == WarpStep(BlockDim)
             x == tid[1] + step[1]
             y == tid[2] + step[2] + (IF x >= BlockDim[1] THEN 1 ELSE 0)
             z == tid[3] + step[3] + (IF y >= BlockDim[2] THEN 1 ELSE 0)
  <2>1. tid[1] \in Nat /\ tid[2] \in Nat /\ tid[3] \in Nat
    BY ShapeFacts
  <2>2. step[1] \in Nat /\ step[2] \in Nat /\ step[3] \in Nat
    <3>1. step[1] = NumThreads % BlockDim[1]
          /\ step[2] = (NumThreads \div BlockDim[1]) % BlockDim[2]
          /\ step[3] = (NumThreads \div (BlockDim[1] * BlockDim[2])) % BlockDim[3]
      BY DEF WarpStep
    <3> HIDE DEF step
    <3> QED BY <1>2, <3>1, SizeFacts, DivMod
  <2>3. NextTid(tid, BlockDim) = <<IF x >= BlockDim[1] THEN x - BlockDim[1] ELSE x,
                                   IF y >= BlockDim[2] THEN y - BlockDim[2] ELSE y, z>>
    BY DEF NextTid
  <2> HIDE DEF step
  <2>4. x \in Nat /\ y \in Nat /\ z \in Nat
    BY <2>1, <2>2
  <2> HIDE DEF x, y, z
  <2> QED BY <1>1, <1>2, <2>3, <2>4
<1>4. ASSUME NEW n \in Nat PROVE LaneAt(n, BlockDim) \in [Axes -> Nat]
  BY <1>1, <1>2, DivMod DEF LaneAt
<1>5. LaneAt(0, BlockDim) = Origin
  <2>1. \A d \in Nat : d >= 1 => (0 % d) = 0 /\ (0 \div d) = 0
    OBVIOUS
  <2> QED BY <1>2, <2>1 DEF LaneAt, Origin
<1> QED BY <1>3, <1>4, <1>5

(* The slots a launch uses.                                                *)
LEMMA SlotFacts ==
  /\ UsableSlots \in Nat /\ UsableSlots >= 1 /\ UsableSlots <= NumWarps
<1>1. \A x, y \in Nat : Min({x, y}) = IF x <= y THEN x ELSE y
  <2> SUFFICES ASSUME NEW x \in Nat, NEW y \in Nat PROVE Min({x, y}) = IF x <= y THEN x ELSE y
    OBVIOUS
  <2>1. {x, y} \in SUBSET Nat
    OBVIOUS
  <2>2. CASE x <= y
    BY <2>1, <2>2, MinIs
  <2>3. CASE ~(x <= y)
    BY <2>1, <2>3, MinIs
  <2> QED BY <2>2, <2>3
<1>2. \A x, y \in Nat : Max({x, y}) = IF x <= y THEN y ELSE x
  <2> SUFFICES ASSUME NEW x \in Nat, NEW y \in Nat PROVE Max({x, y}) = IF x <= y THEN y ELSE x
    OBVIOUS
  <2>1. {x, y} \in SUBSET Nat
    OBVIOUS
  <2>2. CASE x <= y
    BY <2>1, <2>2, MaxIs
  <2>3. CASE ~(x <= y)
    BY <2>1, <2>3, MaxIs
  <2> QED BY <2>2, <2>3
<1>3. Stride \in Nat
  <2>1. LmemSize \in Nat /\ MemBlock \in Nat /\ MemBlock >= 1 /\ LmemSize + MemBlock - 1 \in Nat
    BY SizesAssumption
  <2>2. ((LmemSize + MemBlock - 1) \div MemBlock) \in Nat
    BY <2>1, DivMod
  <2> QED BY <2>1, <2>2 DEF Stride
<1>4. CASE Stride = 0
  BY <1>4, SizeFacts DEF UsableSlots
<1>5. CASE Stride # 0
  <2> DEFINE u == LmemCapacity \div Stride
  <2>1. u \in Nat
    BY <1>3, <1>5, DivMod, SizesAssumption
  <2>2. UsableSlots = Max({1, Min({u, NumWarps})})
    BY <1>5 DEF UsableSlots
  <2> HIDE DEF u
  <2>3. Min({u, NumWarps}) = IF u <= NumWarps THEN u ELSE NumWarps
    BY <1>1, <2>1, SizeFacts
  <2>4. Min({u, NumWarps}) \in Nat /\ Min({u, NumWarps}) <= NumWarps
    BY <2>1, <2>3, SizeFacts
  <2>5. UsableSlots = IF 1 <= Min({u, NumWarps}) THEN Min({u, NumWarps}) ELSE 1
    BY <1>2, <2>2, <2>4
  <2> QED BY <2>4, <2>5, SizeFacts
<1> QED BY <1>4, <1>5

-----------------------------------------------------------------------------
(***************************************************************************)
(* The dispatcher: what holds of the KMU q, the dispatcher's registers d,  *)
(* the active warps act with their records W, and the ranks f that ended.  *)
(***************************************************************************)
Requests == [block : Blocks, first : BOOLEAN, has : BOOLEAN]
Disps == [pending : Requests, has_cta : BOOLEAN, block : Blocks,
          slot : 0..(UsableSlots - 1), rank : 0..CtaSize, rem : 0..BlockSize,
          tid : [Axes -> Nat], tail : 0..(UsableSlots - 1),
          slot_rem : [Wids -> 0..CtaSize], slot_of : [Wids -> 0..NumWarps]]

(* A slot counts the warps of its block that run or are still to start.    *)
In(d, act, s) == {w \in act : d.slot_of[w] = s}
ToStart(d, s) == IF d.has_cta /\ d.slot = s THEN CtaSize - d.rank ELSE 0
SlotCounts(d, act) ==
  \A s \in Wids : d.slot_rem[s] = Cardinality(In(d, act, s)) + ToStart(d, s)

(* A block being started: where its next warp begins.                      *)
Begins(d) ==
  d.has_cta => /\ d.rank < CtaSize /\ d.rem = BlockSize - d.rank * NumThreads
               /\ d.rem > 0 /\ ~d.pending.has
               /\ d.tid = LaneAt(d.rank * NumThreads, BlockDim)

(* The warps of a slot are of one block, the one being started included.   *)
Owners(d, act, W) ==
  /\ \A w \in act : d.slot_of[w] = W[w].slot
  /\ \A v, w \in act : W[v].slot = W[w].slot => W[v].block = W[w].block
  /\ d.has_cta => \A w \in act : W[w].slot = d.slot => W[w].block = d.block
  /\ \A w \in act : W[w].tid = LaneAt(W[w].rank * NumThreads, BlockDim)

(* Every warp of the grid is in one stage: its block is before the KMU or  *)
(* pending, or it is to be started, or it runs, or it has ended.           *)
Waiting(q, d, k) == Ahead(q, k) \/ (d.pending.has /\ d.pending.block = k)
Loading(d, k, r) == d.has_cta /\ d.block = k /\ d.rank <= r
Runs(act, W, w, k, r) == w \in act /\ W[w].block = k /\ W[w].rank = r
Stage(q, d, act, W, f, k, r) ==
  /\ Waiting(q, d, k) \/ Loading(d, k, r) \/ r \in f[k] \/ \E w \in act : Runs(act, W, w, k, r)
  /\ Waiting(q, d, k) => /\ ~Loading(d, k, r) /\ r \notin f[k]
                         /\ \A w \in act : ~Runs(act, W, w, k, r)
  /\ Loading(d, k, r) => r \notin f[k] /\ \A w \in act : ~Runs(act, W, w, k, r)
  /\ \A w \in act : Runs(act, W, w, k, r) =>
       r \notin f[k] /\ \A v \in act : Runs(act, W, v, k, r) => v = w
Pends(q, d) == d.pending.has => ~Ahead(q, d.pending.block)

DispOK(q, d, act, W, f) ==
  /\ KmuOK(q) /\ d \in Disps
  /\ SlotCounts(d, act) /\ Begins(d) /\ Owners(d, act, W) /\ Pends(q, d)
  /\ \A k \in Blocks, r \in Ranks : Stage(q, d, act, W, f, k, r)

(* A block is taken from the KMU.                                          *)
LEMMA TakeOK ==
  ASSUME NEW act \in SUBSET Wids, NEW W, NEW f, DispOK(kmu, disp, act, W, f)
  PROVE  DispOK(KmuAfter, [disp EXCEPT !.pending = Pending], act, W, f)
<1> DEFINE d == [disp EXCEPT !.pending = Pending]
<1>1. CASE ~Takes
  <2>1. KmuAfter = kmu /\ Pending = disp.pending
    BY <1>1 DEF KmuAfter, Pending
  <2>2. disp \in Disps
    BY DEF DispOK
  <2>3. d = disp
    BY <2>1, <2>2 DEF Disps
  <2> QED BY <2>1, <2>3
<1>2. CASE Takes
  <2> DEFINE b == KmuRequest(kmu).block
  <2>1. /\ KmuAfter = KmuStep(kmu) /\ Pending = KmuRequest(kmu)
        /\ ~disp.has_cta /\ ~disp.pending.has /\ kmu.running
    BY <1>2 DEF KmuAfter, Pending, Takes
  <2>2. disp \in Disps /\ KmuOK(kmu)
    BY DEF DispOK
  <2>3. KmuOK(KmuStep(kmu)) /\ b \in Blocks /\ Pending \in Requests /\ Pending.has
        /\ Pending.block = b
    <3>1. KmuOK(KmuStep(kmu)) /\ b \in Blocks
      BY <2>2, KmuStepOK, KmuBlock
    <3> QED BY <2>1, <3>1 DEF KmuRequest, Requests
  <2>4. /\ d \in Disps /\ d.pending = Pending /\ d.has_cta = disp.has_cta
        /\ d.block = disp.block /\ d.slot = disp.slot /\ d.rank = disp.rank
        /\ d.slot_rem = disp.slot_rem /\ d.slot_of = disp.slot_of
    <3> HIDE DEF b
    <3> QED BY <2>2, <2>3 DEF Disps
  <2> HIDE DEF d, b
  <2>5. SlotCounts(d, act)
    <3>1. \A s \in Wids : In(d, act, s) = In(disp, act, s) /\ ToStart(d, s) = ToStart(disp, s)
      BY <2>4 DEF In, ToStart
    <3> QED BY <2>4, <3>1 DEF SlotCounts, DispOK
  <2>6. Begins(d)
    BY <2>1, <2>4 DEF Begins
  <2>7. Owners(d, act, W)
    BY <2>4 DEF Owners, DispOK
  <2>8. Ahead(kmu, b) /\ \A k \in Blocks : Ahead(KmuStep(kmu), k) <=> Ahead(kmu, k) /\ k # b
    BY <2>1, <2>2, <2>3, AheadStep DEF b
  <2>9. Pends(KmuAfter, d)
    BY <2>1, <2>3, <2>4, <2>8 DEF Pends
  <2>10. ASSUME NEW k \in Blocks, NEW r \in Ranks PROVE Stage(KmuAfter, d, act, W, f, k, r)
    <3>1. Waiting(KmuAfter, d, k) <=> Waiting(kmu, disp, k)
      BY <2>1, <2>3, <2>4, <2>8 DEF Waiting
    <3>2. Loading(d, k, r) <=> Loading(disp, k, r)
      BY <2>4 DEF Loading
    <3>3. Stage(kmu, disp, act, W, f, k, r)
      BY DEF DispOK
    <3> QED BY <3>1, <3>2, <3>3 DEF Stage
  <2> QED BY <2>1, <2>3, <2>4, <2>5, <2>6, <2>7, <2>9, <2>10 DEF DispOK, d
<1> QED BY <1>1, <1>2

(* The slot a block gets is one of those that must be free.                *)
LEMMA BaseFacts ==
  ASSUME disp \in Disps, Admits
  PROVE  /\ Base(Pending) \in 0..(UsableSlots - 1) /\ Base(Pending) \in Wids
         /\ ((Base(Pending) + 1) % UsableSlots) \in 0..(UsableSlots - 1)
         /\ disp.slot_rem[Base(Pending)] = 0 /\ ~disp.has_cta /\ Pending.has
<1> DEFINE u == UsableSlots
           b == Base(Pending)
           k == Min({IF Pending.first THEN ClusterSize ELSE 1, u})
<1>1. u \in Nat /\ u >= 1 /\ u <= NumWarps /\ NumWarps \in Nat
  BY SlotFacts, SizeFacts
<1>2. disp.tail \in 0..(u - 1)
  BY DEF Disps
<1>3. TailSlot = disp.tail
  BY <1>1, <1>2 DEF TailSlot
<1>4. b \in 0..(u - 1) /\ b \in Wids
  BY <1>1, <1>2, <1>3 DEF Base, Wids
<1>5. b \in Window(Pending)
  <2>1. ClusterSize \in Nat /\ ClusterSize >= 1
    <3>1. ClusterDim[1] \in Nat /\ ClusterDim[2] \in Nat /\ ClusterDim[3] \in Nat
          /\ ClusterDim[1] >= 1 /\ ClusterDim[2] >= 1 /\ ClusterDim[3] >= 1
      BY ShapeFacts
    <3>2. ClusterDim[1] * ClusterDim[2] \in Nat /\ ClusterDim[1] * ClusterDim[2] >= 1
      BY <3>1
    <3> QED BY <3>1, <3>2 DEF ClusterSize, Volume
  <2> DEFINE m == IF Pending.first THEN ClusterSize ELSE 1
  <2>2. m \in Nat /\ m >= 1
    BY <2>1
  <2> HIDE DEF m
  <2>3. Min({m, u}) \in Nat /\ Min({m, u}) >= 1
    <3>1. {m, u} \in SUBSET Nat
      BY <1>1, <2>2
    <3>2. CASE m <= u
      BY <1>1, <2>2, <3>1, <3>2, MinIs
    <3>3. CASE ~(m <= u)
      BY <1>1, <2>2, <3>1, <3>3, MinIs
    <3> QED BY <3>2, <3>3
  <2>4. k = Min({m, u})
    BY DEF m
  <2> HIDE DEF k
  <2>5. 0 \in 0..(k - 1) /\ ((b + 0) % u) = b
    <3> HIDE DEF b, u
    <3> QED BY <1>1, <1>4, <2>3, <2>4
  <2>6. Window(Pending) = {(b + i) % u : i \in 0..(k - 1)}
    BY DEF Window, k
  <2> QED BY <2>5, <2>6
<1>6. ((b + 1) % u) \in 0..(u - 1)
  <2> HIDE DEF b, u
  <2>1. b + 1 \in Nat
    BY <1>1, <1>4
  <2>2. ((b + 1) % u) \in Nat /\ ((b + 1) % u) < u
    BY <1>1, <2>1, DivMod
  <2> QED BY <1>1, <2>2
<1> QED BY <1>4, <1>5, <1>6 DEF Admits


(* The pending block is admitted.                                          *)
LEMMA LoadOK ==
  ASSUME NEW act \in SUBSET Wids, NEW W, NEW f, DispOK(kmu, disp, act, W, f)
  PROVE  DispOK(KmuAfter, Loaded, act, W, f)
<1> DEFINE d == [disp EXCEPT !.pending = Pending]
           b == Base(Pending)
           k0 == Pending.block
           e == Admitted
           q == KmuAfter
<1>1. DispOK(q, d, act, W, f) /\ disp \in Disps
  BY TakeOK DEF DispOK
<1>2. CASE ~Admits
  BY <1>1, <1>2 DEF Loaded
<1>3. CASE Admits
  <2>1. /\ b \in 0..(UsableSlots - 1) /\ b \in Wids /\ ((b + 1) % UsableSlots) \in 0..(UsableSlots - 1)
        /\ disp.slot_rem[b] = 0 /\ ~disp.has_cta /\ Pending.has
    BY <1>1, <1>3, BaseFacts
  <2>2. /\ d \in Disps /\ d.pending = Pending /\ d.has_cta = disp.has_cta
        /\ d.slot_rem = disp.slot_rem /\ d.slot_of = disp.slot_of
    BY <1>1 DEF DispOK, Disps
  <2>3. Loaded = e
    BY <1>3 DEF Loaded
  <2>4. k0 \in Blocks /\ Pending \in Requests /\ None \in Requests /\ ~None.has
    BY <2>2, BlockFacts DEF Disps, Requests, None
  <2>5. CtaSize \in Nat /\ CtaSize >= 1 /\ BlockSize \in Nat /\ BlockSize >= 1
        /\ Origin \in [Axes -> Nat] /\ Origin = LaneAt(0, BlockDim) /\ Wids \subseteq Nat
        /\ IsFiniteSet(Wids)
    BY CtaFacts, TidTypes, BlockFacts, SizeFacts
  <2>6. /\ e \in Disps /\ e.pending = None /\ e.has_cta = TRUE /\ e.block = k0
        /\ e.slot = b /\ e.rank = 0 /\ e.rem = BlockSize /\ e.tid = Origin
        /\ e.slot_rem = [disp.slot_rem EXCEPT ![b] = CtaSize] /\ e.slot_of = disp.slot_of
    <3> DEFINE t == (b + 1) % UsableSlots
    <3>1. e = [disp EXCEPT !.pending = None, !.has_cta = TRUE,
                 !.block = k0, !.slot = b, !.rank = 0, !.rem = BlockSize, !.tid = Origin,
                 !.tail = t, !.slot_rem[b] = CtaSize]
      BY DEF Admitted
    <3>2. t \in 0..(UsableSlots - 1)
      BY <2>1
    <3>3. disp.slot_rem \in [Wids -> 0..CtaSize]
          /\ [disp.slot_rem EXCEPT ![b] = CtaSize] \in [Wids -> 0..CtaSize]
      <4>1. disp.slot_rem \in [Wids -> 0..CtaSize]
        BY <1>1 DEF Disps
      <4>2. CtaSize \in 0..CtaSize
        BY <2>5
      <4> HIDE DEF b
      <4> QED BY <4>1, <4>2
    <3> HIDE DEF t, b, k0, e
    <3>4. 0 \in 0..CtaSize /\ BlockSize \in 0..BlockSize
      BY <2>5
    <3> QED BY <1>1, <2>1, <2>4, <2>5, <3>1, <3>2, <3>3, <3>4 DEF Disps
  <2> HIDE DEF d, b, k0, e, q
  <2>7. \A s \in Wids : In(e, act, s) = In(disp, act, s) /\ In(d, act, s) = In(disp, act, s)
    BY <2>2, <2>6 DEF In
  <2>8. \A s \in Wids : disp.slot_rem[s] = Cardinality(In(disp, act, s))
                        /\ Cardinality(In(disp, act, s)) \in Nat
    <3>1. \A s \in Wids : d.slot_rem[s] = Cardinality(In(d, act, s)) + ToStart(d, s)
      BY <1>1 DEF DispOK, SlotCounts
    <3>2. \A s : ToStart(d, s) = 0
      BY <2>1, <2>2 DEF ToStart
    <3>3. ASSUME NEW s \in Wids PROVE Cardinality(In(disp, act, s)) \in Nat
      <4>1. In(disp, act, s) \subseteq Wids
        BY DEF In
      <4> QED BY <2>5, <4>1, FS_Subset, FS_CardinalityType
    <3> QED BY <2>2, <2>7, <3>1, <3>2, <3>3
  <2>9. In(disp, act, b) = {}
    <3>1. In(disp, act, b) \subseteq Wids
      BY DEF In
    <3>2. IsFiniteSet(In(disp, act, b))
      BY <2>5, <3>1, FS_Subset
    <3> QED BY <2>1, <2>8, <3>2, FS_EmptySet
  <2>10. SlotCounts(e, act)
    <3> SUFFICES ASSUME NEW s \in Wids
                 PROVE  e.slot_rem[s] = Cardinality(In(e, act, s)) + ToStart(e, s)
      BY DEF SlotCounts
    <3>1. disp.slot_rem \in [Wids -> 0..CtaSize]
      BY <1>1 DEF Disps
    <3>2. CASE s = b
      <4>1. e.slot_rem[s] = CtaSize
        BY <2>1, <2>6, <3>1, <3>2
      <4>2. ToStart(e, s) = CtaSize
        BY <2>5, <2>6, <3>2 DEF ToStart
      <4>3. Cardinality(In(e, act, s)) = 0
        BY <2>7, <2>9, <3>2, FS_EmptySet
      <4> QED BY <2>5, <4>1, <4>2, <4>3
    <3>3. CASE s # b
      <4>1. e.slot_rem[s] = disp.slot_rem[s]
        BY <2>6, <3>1, <3>3
      <4>2. ToStart(e, s) = 0
        BY <2>6, <3>3 DEF ToStart
      <4> QED BY <2>7, <2>8, <4>1, <4>2
    <3> QED BY <3>2, <3>3
  <2>11. Begins(e)
    <3>1. 0 * NumThreads = 0 /\ BlockSize - 0 = BlockSize
      BY <2>5, SizeFacts
    <3> QED BY <2>4, <2>5, <2>6, <3>1 DEF Begins
  <2>12. Owners(e, act, W)
    <3>1. Owners(d, act, W)
      BY <1>1 DEF DispOK
    <3>2. \A w \in act : W[w].slot # b
      BY <2>2, <2>9, <3>1 DEF Owners, In
    <3> QED BY <2>2, <2>6, <3>1, <3>2 DEF Owners
  <2>13. Pends(q, e)
    BY <2>4, <2>6 DEF Pends
  <2>14. ASSUME NEW k \in Blocks, NEW r \in Ranks PROVE Stage(q, e, act, W, f, k, r)
    <3>1. Stage(q, d, act, W, f, k, r)
      BY <1>1 DEF DispOK
    <3>2. r \in Nat /\ 0 <= r
      BY <2>5 DEF Ranks
    <3>3. Waiting(q, d, k) <=> Ahead(q, k) \/ k = k0
      BY <2>1, <2>2 DEF Waiting, k0
    <3>4. Waiting(q, e, k) <=> Ahead(q, k)
      BY <2>4, <2>6 DEF Waiting
    <3>5. ~Ahead(q, k0)
      BY <1>1, <2>1, <2>2 DEF DispOK, Pends, k0
    <3>6. Loading(e, k, r) <=> k = k0
      BY <2>6, <3>2 DEF Loading
    <3>7. ~Loading(d, k, r)
      BY <2>1, <2>2 DEF Loading
    <3> QED BY <3>1, <3>3, <3>4, <3>5, <3>6, <3>7 DEF Stage
  <2>15. KmuOK(q)
    BY <1>1 DEF DispOK
  <2> QED BY <2>3, <2>6, <2>10, <2>11, <2>12, <2>13, <2>14, <2>15 DEF DispOK, q
<1> QED BY <1>2, <1>3


(* The lanes of the next warp of a block.                                  *)
LEMMA MaskFacts ==
  ASSUME NEW d \in Disps, d.has_cta, Begins(d),
         NEW m, m = {t \in Threads : t < d.rem}
  PROVE  /\ m = Whole(d.rank) /\ m # {} /\ m \subseteq Threads
         /\ Cardinality(m) \in Nat /\ Cardinality(m) <= d.rem
         /\ d.rank + 1 < CtaSize =>
              /\ d.rem - Cardinality(m) = BlockSize - (d.rank + 1) * NumThreads
              /\ d.rem - Cardinality(m) > 0
<1> DEFINE T == NumThreads
           r == d.rank
           n == d.rem
<1>1. /\ T \in Nat /\ T >= 1 /\ r \in Nat /\ n \in Nat /\ n > 0 /\ BlockSize \in Nat
      /\ n = BlockSize - r * T /\ r * T \in Nat /\ Threads = 0..(T - 1)
      /\ Cardinality(Threads) = T /\ IsFiniteSet(Threads)
  <2>1. r \in 0..CtaSize /\ n \in 0..BlockSize
    BY DEF Disps
  <2>2. T \in Nat /\ T >= 1 /\ Cardinality(Threads) = T /\ IsFiniteSet(Threads) /\ Threads = 0..(T - 1)
    BY SizeFacts DEF Threads
  <2>3. r \in Nat /\ n \in Nat /\ BlockSize \in Nat
    BY <2>1, CtaFacts
  <2>4. n > 0 /\ n = BlockSize - r * T
    BY DEF Begins
  <2> QED BY <2>2, <2>3, <2>4
<1> HIDE DEF T, r, n
<1>2. m = Whole(d.rank)
  <2>1. \A t \in Threads : t < n <=> r * T + t < BlockSize
    BY <1>1
  <2>2. m = {t \in Threads : t < n} /\ Whole(d.rank) = {t \in Threads : r * T + t < BlockSize}
    BY DEF Whole, r, T, n
  <2> QED BY <2>1, <2>2
<1>3. 0 \in m
  BY <1>1 DEF n
<1>4. IsFiniteSet(m) /\ Cardinality(m) \in Nat
  BY <1>1, FS_Subset, FS_CardinalityType
<1>5. Cardinality(m) <= n
  <2>1. m \subseteq 0..(n - 1)
    BY <1>1 DEF n
  <2>2. IsFiniteSet(0..(n - 1)) /\ Cardinality(0..(n - 1)) = n
    <3>1. 0 \in Int /\ n - 1 \in Int
      BY <1>1
    <3>2. IsFiniteSet(0..(n - 1))
          /\ Cardinality(0..(n - 1)) = IF 0 > n - 1 THEN 0 ELSE (n - 1) - 0 + 1
      BY <3>1, FS_Interval
    <3> QED BY <1>1, <3>2
  <2> QED BY <2>1, <2>2, FS_Subset
<1>6. ASSUME r + 1 < CtaSize
      PROVE  n - Cardinality(m) = BlockSize - (r + 1) * T /\ n - Cardinality(m) > 0
  <2>1. (r + 1) * T < BlockSize
    BY <1>1, <1>6, CtaFacts DEF T
  <2>2. (r + 1) * T = r * T + T
    BY <1>1
  <2>3. n > T
    BY <1>1, <2>1, <2>2
  <2>4. m = Threads
    BY <1>1, <2>3 DEF n
  <2>5. Cardinality(m) = T
    BY <1>1, <2>4
  <2>6. \A p \in Nat : n = BlockSize - p => n - T = BlockSize - (p + T)
    BY <1>1
  <2> QED BY <1>1, <2>2, <2>3, <2>5, <2>6
<1> QED BY <1>2, <1>3, <1>4, <1>5, <1>6 DEF T, r, n

(* A warp w of it is started.                                              *)
AfterStart(d, w, m) ==
  [d EXCEPT !.slot_of[w] = d.slot, !.tid = NextTid(d.tid, BlockDim),
            !.rem = d.rem - Cardinality(m), !.rank = d.rank + 1,
            !.has_cta = d.rank + 1 < CtaSize]

(* The invariant of the dispatcher holds after that.                       *)
LEMMA StartOK ==
  ASSUME NEW act \in SUBSET Wids, NEW W, NEW f, NEW q, NEW d, DispOK(q, d, act, W, f), d.has_cta,
         NEW w \in Wids, w \notin act, NEW m, m = {t \in Threads : t < d.rem},
         NEW e, e = AfterStart(d, w, m),
         NEW act2 \in SUBSET Wids, \A v \in Wids : v \in act2 <=> v \in act \/ v = w,
         NEW V, \A v \in act : V[v] = W[v],
         V[w].block = d.block, V[w].rank = d.rank, V[w].slot = d.slot, V[w].tid = d.tid
  PROVE  DispOK(q, e, act2, V, f)
<1> DEFINE c == d.rem - Cardinality(m)
           nt == NextTid(d.tid, BlockDim)
           more == d.rank + 1 < CtaSize
<1>1. /\ d \in Disps /\ Begins(d) /\ KmuOK(q)
      /\ d.rank \in Nat /\ d.rank < CtaSize /\ CtaSize \in Nat /\ d.rem \in Nat /\ BlockSize \in Nat
      /\ d.slot_of \in [Wids -> 0..NumWarps] /\ d.slot_rem \in [Wids -> 0..CtaSize]
      /\ d.slot \in 0..(UsableSlots - 1) /\ d.rem <= BlockSize
      /\ ~d.pending.has /\ d.tid = LaneAt(d.rank * NumThreads, BlockDim)
  <2>1. d \in Disps /\ Begins(d) /\ KmuOK(q)
    BY DEF DispOK
  <2>2. d.rank \in 0..CtaSize /\ d.rem \in 0..BlockSize
    BY <2>1 DEF Disps
  <2>3. d.slot_of \in [Wids -> 0..NumWarps] /\ d.slot_rem \in [Wids -> 0..CtaSize]
        /\ d.slot \in 0..(UsableSlots - 1)
    BY <2>1 DEF Disps
  <2> QED BY <2>1, <2>2, <2>3, CtaFacts DEF Begins
<1>2. /\ Cardinality(m) \in Nat /\ Cardinality(m) <= d.rem
      /\ more => c = BlockSize - (d.rank + 1) * NumThreads /\ c > 0
  BY <1>1, MaskFacts
<1>3. d.slot \in Wids /\ d.slot \in 0..NumWarps
  BY <1>1, SlotFacts, SizeFacts DEF Wids
<1>4. /\ e \in Disps /\ e.pending = d.pending /\ e.has_cta = more /\ e.block = d.block
      /\ e.slot = d.slot /\ e.rank = d.rank + 1 /\ e.rem = c /\ e.tid = nt
      /\ e.slot_rem = d.slot_rem /\ e.slot_of = [d.slot_of EXCEPT ![w] = d.slot]
  <2>1. nt \in [Axes -> Nat]
    <3>1. d.tid \in [Axes -> Nat]
      BY <1>1 DEF Disps
    <3> QED BY <3>1, TidTypes
  <2>2. c \in 0..BlockSize /\ d.rank + 1 \in 0..CtaSize
    BY <1>1, <1>2
  <2>3. more \in BOOLEAN
    OBVIOUS
  <2>4. [d.slot_of EXCEPT ![w] = d.slot] \in [Wids -> 0..NumWarps]
    BY <1>1, <1>3
  <2> HIDE DEF nt, c, more
  <2>5. e = [d EXCEPT !.slot_of[w] = d.slot, !.tid = nt, !.rem = c, !.rank = d.rank + 1,
                      !.has_cta = more]
    BY DEF nt, c, more, AfterStart
  <2> QED BY <1>1, <2>1, <2>2, <2>3, <2>4, <2>5 DEF Disps
<1> HIDE DEF c, nt
<1>5. w \notin act /\ act2 = act \cup {w}
  OBVIOUS
<1>6. \A s \in Wids : In(e, act2, s) = IF s = d.slot THEN In(d, act, s) \cup {w} ELSE In(d, act, s)
  <2>1. \A v \in act : e.slot_of[v] = d.slot_of[v]
    BY <1>1, <1>4, <1>5
  <2>2. e.slot_of[w] = d.slot
    BY <1>1, <1>4
  <2> QED BY <1>5, <2>1, <2>2 DEF In
<1>7. SlotCounts(e, act2)
  <2> SUFFICES ASSUME NEW s \in Wids
               PROVE  e.slot_rem[s] = Cardinality(In(e, act2, s)) + ToStart(e, s)
    BY DEF SlotCounts
  <2>1. d.slot_rem[s] = Cardinality(In(d, act, s)) + ToStart(d, s)
    BY DEF DispOK, SlotCounts
  <2>2. IsFiniteSet(In(d, act, s)) /\ Cardinality(In(d, act, s)) \in Nat /\ w \notin In(d, act, s)
    <3>1. In(d, act, s) \subseteq Wids /\ w \notin In(d, act, s)
      BY <1>5 DEF In
    <3> QED BY <3>1, SizeFacts, FS_Subset, FS_CardinalityType
  <2>3. CASE s = d.slot
    <3>1. Cardinality(In(e, act2, s)) = Cardinality(In(d, act, s)) + 1
      <4> DEFINE A == In(d, act, s)
      <4>1. In(e, act2, s) = A \cup {w}
        BY <1>6, <2>3
      <4>2. IsFiniteSet(A) /\ w \notin A
        BY <2>2
      <4> HIDE DEF A
      <4>3. Cardinality(A \cup {w}) = Cardinality(A) + 1
        BY <4>2, FS_AddElement
      <4> QED BY <4>1, <4>3 DEF A
    <3>2. ToStart(d, s) = CtaSize - d.rank
      BY <2>3 DEF ToStart
    <3>3. ToStart(e, s) = CtaSize - d.rank - 1
      <4>1. CASE more
        <5>1. ToStart(e, s) = CtaSize - e.rank
          BY <1>4, <2>3, <4>1 DEF ToStart
        <5> QED BY <1>1, <1>4, <5>1
      <4>2. CASE ~more
        <5>1. ToStart(e, s) = 0
          BY <1>4, <4>2 DEF ToStart
        <5>2. d.rank + 1 = CtaSize
          BY <1>1, <4>2
        <5> QED BY <1>1, <5>1, <5>2
      <4> QED BY <4>1, <4>2
    <3> QED BY <1>1, <1>4, <2>1, <2>2, <3>1, <3>2, <3>3
  <2>4. CASE s # d.slot
    <3>1. ToStart(e, s) = 0 /\ ToStart(d, s) = 0
      BY <1>4, <2>4 DEF ToStart
    <3>2. In(e, act2, s) = In(d, act, s)
      BY <1>6, <2>4
    <3> QED BY <1>4, <2>1, <3>1, <3>2
  <2> QED BY <2>3, <2>4
<1>8. Begins(e)
  <2> SUFFICES ASSUME more PROVE Begins(e)
    BY <1>4 DEF Begins
  <2> DEFINE n == d.rank * NumThreads
  <2>1. n \in Nat /\ (d.rank + 1) * NumThreads = n + NumThreads
    BY <1>1, SizeFacts
  <2>2. n + NumThreads < BlockSize
    <3>1. (d.rank + 1) * NumThreads < BlockSize
      BY <1>1, CtaFacts
    <3> QED BY <2>1, <3>1
  <2>3. nt = LaneAt(n + NumThreads, BlockDim)
    BY <1>1, <2>1, <2>2, TidFollows DEF nt
  <2> HIDE DEF n
  <2>4. e.tid = LaneAt(e.rank * NumThreads, BlockDim)
    BY <1>4, <2>1, <2>3
  <2> QED BY <1>1, <1>2, <1>4, <2>4 DEF Begins
<1>9. Owners(e, act2, V)
  <2>1. Owners(d, act, W)
    BY DEF DispOK
  <2>2. \A v \in act2 : e.slot_of[v] = V[v].slot
    <3>1. \A v \in act : e.slot_of[v] = d.slot_of[v]
      BY <1>1, <1>4, <1>5
    <3>2. e.slot_of[w] = d.slot
      BY <1>1, <1>4
    <3> QED BY <2>1, <3>1, <3>2 DEF Owners
  <2>3. \A v \in act2 : V[v].slot = d.slot => V[v].block = d.block
    BY <2>1 DEF Owners
  <2>4. \A u, v \in act : V[u].slot = V[v].slot => V[u].block = V[v].block
    BY <2>1 DEF Owners
  <2>5. \A u, v \in act2 : V[u].slot = V[v].slot => V[u].block = V[v].block
    BY <2>3, <2>4
  <2>6. \A v \in act2 : V[v].tid = LaneAt(V[v].rank * NumThreads, BlockDim)
    <3>1. V[w].tid = LaneAt(V[w].rank * NumThreads, BlockDim)
      BY <1>1
    <3> QED BY <2>1, <3>1 DEF Owners
  <2>7. \A v \in act2 : e.has_cta /\ V[v].slot = e.slot => V[v].block = e.block
    BY <1>4, <2>3
  <2> QED BY <2>2, <2>5, <2>6, <2>7, Zenon DEF Owners
<1>10. Pends(q, e)
  BY <1>4 DEF DispOK, Pends
<1>11. ASSUME NEW k \in Blocks, NEW r \in Ranks PROVE Stage(q, e, act2, V, f, k, r)
  <2>1. Stage(q, d, act, W, f, k, r)
    BY DEF DispOK
  <2>2. r \in Nat /\ r < CtaSize
    BY <1>1 DEF Ranks
  <2>3. Waiting(q, e, k) <=> Waiting(q, d, k)
    BY <1>4 DEF Waiting
  <2> DEFINE now == d.block = k /\ d.rank = r
  <2>4. Loading(d, k, r) <=> d.block = k /\ d.rank <= r
    BY DEF Loading
  <2>5. Loading(e, k, r) <=> Loading(d, k, r) /\ ~now
    <3>1. (d.rank + 1 < CtaSize /\ d.rank + 1 <= r) <=> (d.rank <= r /\ d.rank # r)
      BY <1>1, <2>2
    <3> QED BY <1>4, <2>4, <3>1 DEF Loading
  <2>6. now => Loading(d, k, r)
    BY <1>1, <2>4
  <2>7. \A v \in act : Runs(act2, V, v, k, r) <=> Runs(act, W, v, k, r)
    BY DEF Runs
  <2>8. Runs(act2, V, w, k, r) <=> now
    BY DEF Runs
  <2> HIDE DEF now
  <2> QED BY <2>1, <2>3, <2>5, <2>6, <2>7, <2>8 DEF Stage
<1> QED BY <1>1, <1>4, <1>7, <1>8, <1>9, <1>10, <1>11 DEF DispOK

(* The ranks f that ended, with one more.                                  *)
WithRank(f, k, r) == [f EXCEPT ![k] = @ \cup {r}]

(* A warp w ends.                                                          *)
LEMMA DoneOK ==
  ASSUME NEW act \in SUBSET Wids, NEW W, NEW f, NEW q, NEW d, DispOK(q, d, act, W, f),
         NEW w \in act, W[w].block \in Blocks, W[w].rank \in Ranks, W[w].slot \in Wids,
         NEW g, g = WithRank(f, W[w].block, W[w].rank), f \in [Blocks -> SUBSET Ranks],
         NEW V, \A v \in act : v # w => V[v] = W[v],
         NEW act2 \in SUBSET act, w \notin act2, \A v \in act : v = w \/ v \in act2
  PROVE  /\ d.slot_rem[d.slot_of[w]] # 0
         /\ DispOK(q, WarpDone(d, w), act2, V, g)
<1> DEFINE s0 == d.slot_of[w]
           e == WarpDone(d, w)
<1>1. /\ d \in Disps /\ Begins(d) /\ KmuOK(q)
      /\ d.slot_of \in [Wids -> 0..NumWarps] /\ d.slot_rem \in [Wids -> 0..CtaSize]
      /\ CtaSize \in Nat /\ w \in Wids /\ NumWarps \in 0..NumWarps
  <2>1. d \in Disps /\ Begins(d) /\ KmuOK(q)
    BY DEF DispOK
  <2> QED BY <2>1, CtaFacts, SizeFacts DEF Disps
<1>2. s0 = W[w].slot /\ s0 \in Wids
  BY DEF DispOK, Owners
<1>3. \A s \in Wids : /\ IsFiniteSet(In(d, act, s)) /\ Cardinality(In(d, act, s)) \in Nat
                      /\ d.slot_rem[s] = Cardinality(In(d, act, s)) + ToStart(d, s)
                      /\ ToStart(d, s) \in Nat
  <2> SUFFICES ASSUME NEW s \in Wids
               PROVE  /\ IsFiniteSet(In(d, act, s)) /\ Cardinality(In(d, act, s)) \in Nat
                      /\ d.slot_rem[s] = Cardinality(In(d, act, s)) + ToStart(d, s)
                      /\ ToStart(d, s) \in Nat
    OBVIOUS
  <2>1. In(d, act, s) \subseteq Wids
    BY DEF In
  <2>2. ToStart(d, s) \in Nat
    <3>1. d.rank \in 0..CtaSize
      BY <1>1 DEF Disps
    <3> QED BY <1>1, <3>1 DEF ToStart
  <2>3. d.slot_rem[s] = Cardinality(In(d, act, s)) + ToStart(d, s)
    BY DEF DispOK, SlotCounts
  <2> QED BY <2>1, <2>2, <2>3, SizeFacts, FS_Subset, FS_CardinalityType
<1>4. Cardinality(In(d, act, s0)) >= 1 /\ w \in In(d, act, s0)
  <2>1. w \in In(d, act, s0)
    BY DEF In
  <2>2. Cardinality(In(d, act, s0)) # 0
    BY <1>2, <1>3, <2>1, FS_EmptySet
  <2> HIDE DEF s0
  <2> QED BY <1>2, <1>3, <2>1, <2>2
<1>5. d.slot_rem[s0] >= 1 /\ d.slot_rem[s0] \in Nat /\ d.slot_rem[s0] <= CtaSize
  <2> HIDE DEF s0
  <2>1. d.slot_rem[s0] \in 0..CtaSize
    BY <1>1, <1>2
  <2> QED BY <1>1, <1>2, <1>3, <1>4, <2>1
<1>6. /\ e \in Disps /\ e.pending = d.pending /\ e.has_cta = d.has_cta /\ e.block = d.block
      /\ e.slot = d.slot /\ e.rank = d.rank /\ e.rem = d.rem /\ e.tid = d.tid
      /\ e.slot_rem = [d.slot_rem EXCEPT ![s0] = d.slot_rem[s0] - 1]
      /\ e.slot_of = [d.slot_of EXCEPT ![w] = NumWarps]
  <2>1. [d.slot_of EXCEPT ![w] = NumWarps] \in [Wids -> 0..NumWarps]
    BY <1>1
  <2>2. [d.slot_rem EXCEPT ![s0] = d.slot_rem[s0] - 1] \in [Wids -> 0..CtaSize]
    <3> HIDE DEF s0
    <3> QED BY <1>1, <1>2, <1>5
  <2>3. e = [d EXCEPT !.slot_of[w] = NumWarps, !.slot_rem[s0] = d.slot_rem[s0] - 1]
    BY DEF WarpDone
  <2> HIDE DEF s0, e
  <2> QED BY <1>1, <2>1, <2>2, <2>3 DEF Disps
<1> HIDE DEF s0, e
<1>7. \A s \in Wids : In(e, act2, s) = In(d, act, s) \ {w} /\ ToStart(e, s) = ToStart(d, s)
  <2>1. \A v \in act2 : e.slot_of[v] = d.slot_of[v]
    BY <1>1, <1>6
  <2> QED BY <1>6, <2>1 DEF In, ToStart
<1>8. SlotCounts(e, act2)
  <2> SUFFICES ASSUME NEW s \in Wids
               PROVE  e.slot_rem[s] = Cardinality(In(e, act2, s)) + ToStart(e, s)
    BY DEF SlotCounts
  <2>1. CASE s = s0
    <3>1. Cardinality(In(e, act2, s)) = Cardinality(In(d, act, s)) - 1
      BY <1>3, <1>4, <1>7, <2>1, FS_RemoveElement
    <3>2. e.slot_rem[s] = d.slot_rem[s] - 1
      BY <1>1, <1>6, <2>1
    <3> QED BY <1>3, <1>7, <3>1, <3>2
  <2>2. CASE s # s0
    <3>1. w \notin In(d, act, s)
      BY <2>2 DEF In, s0
    <3>2. In(d, act, s) \ {w} = In(d, act, s)
      BY <3>1
    <3>3. e.slot_rem[s] = d.slot_rem[s]
      BY <1>1, <1>6, <2>2
    <3> QED BY <1>3, <1>7, <3>2, <3>3
  <2> QED BY <2>1, <2>2
<1>9. Begins(e)
  BY <1>1, <1>6 DEF Begins
<1>10. Owners(e, act2, V)
  <2>1. Owners(d, act, W)
    BY DEF DispOK
  <2>2. \A v \in act2 : e.slot_of[v] = d.slot_of[v] /\ V[v] = W[v] /\ v \in act
    BY <1>1, <1>6
  <2> QED BY <1>6, <2>1, <2>2 DEF Owners
<1>11. Pends(q, e)
  BY <1>6 DEF DispOK, Pends
<1>12. ASSUME NEW k \in Blocks, NEW r \in Ranks PROVE Stage(q, e, act2, V, g, k, r)
  <2>1. Stage(q, d, act, W, f, k, r)
    BY DEF DispOK
  <2>2. Waiting(q, e, k) <=> Waiting(q, d, k)
    BY <1>6 DEF Waiting
  <2>3. Loading(e, k, r) <=> Loading(d, k, r)
    BY <1>6 DEF Loading
  <2>4. \A v \in act2 : v # w /\ v \in act /\ (Runs(act2, V, v, k, r) <=> Runs(act, W, v, k, r))
    BY DEF Runs
  <2>5. r \in g[k] <=> r \in f[k] \/ Runs(act, W, w, k, r)
    BY DEF Runs, WithRank
  <2>6. Stage(q, d, act, W, f, k, r) => Stage(q, e, act2, V, g, k, r)
    <3>1. act = act2 \cup {w}
      OBVIOUS
    <3>2. Waiting(q, e, k) \/ Loading(e, k, r) \/ r \in g[k] \/ \E v \in act2 : Runs(act2, V, v, k, r)
      BY <2>1, <2>2, <2>3, <2>4, <2>5, <3>1, Zenon DEF Stage
    <3>3. Waiting(q, e, k) => /\ ~Loading(e, k, r) /\ r \notin g[k]
                             /\ \A v \in act2 : ~Runs(act2, V, v, k, r)
      BY <2>1, <2>2, <2>3, <2>4, <2>5, Zenon DEF Stage
    <3>4. Loading(e, k, r) => r \notin g[k] /\ \A v \in act2 : ~Runs(act2, V, v, k, r)
      BY <2>1, <2>2, <2>3, <2>4, <2>5, Zenon DEF Stage
    <3>5. \A v \in act2 : Runs(act2, V, v, k, r) =>
            r \notin g[k] /\ \A u \in act2 : Runs(act2, V, u, k, r) => u = v
      BY <2>1, <2>4, <2>5, Zenon DEF Stage
    <3> QED BY <3>2, <3>3, <3>4, <3>5 DEF Stage
  <2> QED BY <2>1, <2>6
<1>13. DispOK(q, e, act2, V, g)
  BY <1>1, <1>6, <1>8, <1>9, <1>10, <1>11, <1>12 DEF DispOK
<1>14. d.slot_rem[s0] # 0
  BY <1>5
<1> QED BY <1>13, <1>14 DEF s0, e


(* Only these fields of the warps matter to the dispatcher.                *)
LEMMA DispSame ==
  ASSUME NEW act, NEW W, NEW f, NEW q, NEW d, DispOK(q, d, act, W, f),
         NEW V, \A w \in act : /\ V[w].block = W[w].block /\ V[w].rank = W[w].rank
                               /\ V[w].slot = W[w].slot /\ V[w].tid = W[w].tid
  PROVE  DispOK(q, d, act, V, f)
<1>1. Owners(d, act, V)
  BY DEF DispOK, Owners
<1>2. ASSUME NEW k \in Blocks, NEW r \in Ranks PROVE Stage(q, d, act, V, f, k, r)
  <2>1. Stage(q, d, act, W, f, k, r)
    BY DEF DispOK
  <2>2. \A w \in act : Runs(act, V, w, k, r) <=> Runs(act, W, w, k, r)
    BY DEF Runs
  <2> QED BY <2>1, <2>2, Zenon DEF Stage
<1> QED BY <1>1, <1>2 DEF DispOK
-----------------------------------------------------------------------------
(***************************************************************************)
(* The pipeline of a warp.                                                 *)
(***************************************************************************)
Stalls(i) == Program[i].op \notin NonStalling

(* Only the last instruction in the unit can be one that stalls the warp;  *)
(* the warp is then still at that instruction, else at its pc.             *)
InOrder(p) == \A k \in 1..(Len(p) - 1) : ~Stalls(p[k])
Blocked(p) == p # <<>> /\ Stalls(p[Len(p)])
Pos(p, pc) == IF Blocked(p) THEN p[Len(p)] ELSE pc

(* A decoded instruction enters the unit.                                  *)
LEMMA PipeAppend ==
  ASSUME NEW p \in Seq(Pcs), InOrder(p), ~Blocked(p), NEW i \in Pcs
  PROVE  /\ Append(p, i) \in Seq(Pcs) /\ InOrder(Append(p, i)) /\ Append(p, i) # <<>>
         /\ Append(p, i)[Len(Append(p, i))] = i /\ (Blocked(Append(p, i)) <=> Stalls(i))
<1> DEFINE q == Append(p, i)
           n == Len(p)
<1>1. /\ q \in Seq(Pcs) /\ n \in Nat /\ Len(q) = n + 1 /\ q[n + 1] = i
      /\ \A k \in 1..n : q[k] = p[k]
  OBVIOUS
<1>2. q # <<>>
  BY <1>1
<1>3. \A k \in 1..n : ~Stalls(p[k])
  <2>1. n # 0 => ~Stalls(p[n])
    BY DEF Blocked
  <2>2. \A k \in 1..(n - 1) : ~Stalls(p[k])
    BY DEF InOrder
  <2> HIDE DEF n
  <2>3. \A k \in 1..n : (k = n /\ n # 0) \/ k \in 1..(n - 1)
    BY <1>1
  <2> QED BY <2>1, <2>2, <2>3
<1> HIDE DEF q, n
<1>4. (n + 1) - 1 = n
  BY <1>1
<1>5. InOrder(q)
  BY <1>1, <1>3, <1>4 DEF InOrder
<1>6. Blocked(q) <=> Stalls(i)
  BY <1>1, <1>2 DEF Blocked
<1> QED BY <1>1, <1>2, <1>5, <1>6 DEF q

(* The unit takes the oldest one.                                          *)
LEMMA PipeTail ==
  ASSUME NEW p \in Seq(Pcs), InOrder(p), p # <<>>
  PROVE  /\ Head(p) \in Pcs /\ Tail(p) \in Seq(Pcs) /\ InOrder(Tail(p))
         /\ Stalls(Head(p)) => Tail(p) = <<>> /\ Blocked(p) /\ p[Len(p)] = Head(p)
         /\ ~Stalls(Head(p)) => /\ Blocked(Tail(p)) <=> Blocked(p)
                                /\ Blocked(p) => Tail(p)[Len(Tail(p))] = p[Len(p)]
<1> DEFINE q == Tail(p)
           n == Len(p)
<1>1. /\ n \in Nat /\ n >= 1 /\ Head(p) = p[1] /\ Head(p) \in Pcs /\ q \in Seq(Pcs)
      /\ Len(q) = n - 1 /\ \A k \in 1..(n - 1) : q[k] = p[k + 1]
  OBVIOUS
<1>2. n = 1 => q = <<>>
  <2>1. \A s \in Seq(Pcs) : Len(s) = 0 => s = <<>>
    OBVIOUS
  <2> HIDE DEF q, n
  <2>2. n = 1 => Len(q) = 0
    BY <1>1
  <2> QED BY <1>1, <2>1, <2>2
<1>3. q = <<>> => n = 1
  <2> HIDE DEF q, n
  <2>1. q = <<>> => Len(q) = 0
    OBVIOUS
  <2> QED BY <1>1, <2>1
<1>4. \A k \in 1..(n - 1) : ~Stalls(p[k])
  BY DEF InOrder
<1>5. Blocked(p) <=> Stalls(p[n])
  BY DEF Blocked
<1>6. Blocked(q) <=> q # <<>> /\ Stalls(q[n - 1])
  BY <1>1 DEF Blocked
<1> HIDE DEF q, n
<1>7. InOrder(q)
  <2> SUFFICES ASSUME NEW k \in 1..(Len(q) - 1) PROVE ~Stalls(q[k])
    BY DEF InOrder
  <2>1. k \in 1..(n - 1) /\ k + 1 \in 1..(n - 1)
    BY <1>1
  <2> QED BY <1>1, <1>4, <2>1
<1>8. ASSUME Stalls(Head(p)) PROVE q = <<>> /\ Blocked(p) /\ p[n] = Head(p)
  <2>1. ~(1 \in 1..(n - 1))
    BY <1>1, <1>4, <1>8
  <2>2. n = 1
    BY <1>1, <2>1
  <2> QED BY <1>1, <1>2, <1>5, <1>8, <2>2
<1>9. ASSUME ~Stalls(Head(p))
      PROVE  /\ Blocked(q) <=> Blocked(p)
             /\ Blocked(p) => q[Len(q)] = p[n]
  <2>1. CASE n = 1
    BY <1>1, <1>2, <1>5, <1>6, <1>9, <2>1
  <2>2. CASE n # 1
    <3>1. n - 1 \in 1..(n - 1) /\ (n - 1) + 1 = n
      BY <1>1, <2>2
    <3>2. q[n - 1] = p[n]
      BY <1>1, <3>1
    <3> QED BY <1>1, <1>3, <1>5, <1>6, <2>2, <3>2
  <2> QED BY <2>1, <2>2
<1> QED BY <1>1, <1>7, <1>8, <1>9 DEF q, n
-----------------------------------------------------------------------------
(***************************************************************************)
(* The inductive invariant.                                                *)
(***************************************************************************)
BarRecs == [wait_mask : SUBSET Wids, count : Ranks, events : Nat, phase : Nat]
Transfers == [slot : Wids, bar : Bars, pc : Pcs]

Types ==
  /\ active \subseteq Wids /\ stalled \subseteq Wids /\ stalled_next \subseteq Wids
  /\ out \subseteq Wids /\ failed \in BOOLEAN
  /\ warp \in [Wids -> Warps] /\ fetched \in [Wids -> 0..Len(Program)]
  /\ pipe \in [Wids -> Seq(Pcs)]
  /\ bars \in [Wids -> [Bars -> BarRecs]]
  /\ tx \subseteq Transfers /\ IsFiniteSet(tx)
  /\ lane \in [Wids -> [Threads -> Nat]]
  /\ arrived \in [Blocks -> [Pcs -> SUBSET Ranks]]
Sizes == \A w \in Wids : /\ warp[w].pc \in 1..(Len(Program) + 1)
                         /\ Len(warp[w].stack) <= NumThreads - 1

(* An instruction of a warp is in one place: fetched, in the unit, on its  *)
(* way out of it.  Until it has left, the warp is stalled.                 *)
Flow(w) ==
  /\ fetched[w] # 0 => /\ w \in active /\ w \in stalled_next /\ w \notin out
                       /\ fetched[w] = warp[w].pc /\ ~Blocked(pipe[w])
  /\ InOrder(pipe[w])
  /\ pipe[w] # <<>> => w \in active
  /\ Blocked(pipe[w]) => /\ w \in stalled_next /\ w \notin out
                         /\ warp[w].pc = pipe[w][Len(pipe[w])] + 1
  /\ w \in out => w \in active /\ w \in stalled_next
  /\ w \in active => /\ Blocked(pipe[w]) \/ warp[w].pc \in Pcs
                     /\ WarpOK(warp[w], Pos(pipe[w], warp[w].pc), lane[w])
Flows == (\A w \in Wids : Flow(w)) /\ stalled_next \subseteq stalled

(* A warp waits at one barrier at most, stalled and with nothing under way.*)
Held(w) == /\ w \in active /\ w \in stalled_next /\ w \notin out
           /\ fetched[w] = 0 /\ ~Blocked(pipe[w])
Waiters ==
  /\ \A s \in Wids, b \in Bars : \A w \in bars[s][b].wait_mask : Held(w)
  /\ \A s, t \in Wids, b, c \in Bars : \A w \in bars[s][b].wait_mask :
       w \in bars[t][c].wait_mask => s = t /\ b = c

(* Every transfer in flight is counted by its barrier.                     *)
TxOf(X, s, b) == {t \in X : t.slot = s /\ t.bar = b}
Events == \A s \in Wids, b \in Bars : Cardinality(TxOf(tx, s, b)) <= bars[s][b].events

(* The ranks of each block that have ended.                                *)
Fin == [k \in Blocks |-> arrived[k][Len(Program)]]

IInv == /\ Types /\ Sizes /\ ~failed
        /\ DispOK(kmu, disp, active, warp, Fin)
        /\ Flows /\ Waiters /\ Events

(* A warp the step leaves alone, or wakes at its barrier.                  *)
LEMMA FlowSame ==
  ASSUME NEW v \in Wids, Flow(v), fetched'[v] = fetched[v], pipe'[v] = pipe[v],
         warp'[v] = warp[v], lane'[v] = lane[v],
         v \in active' <=> v \in active, v \in out' <=> v \in out,
         (v \in stalled_next' <=> v \in stalled_next) \/ Held(v)
  PROVE  Flow(v)'
BY DEF Flow, Held

(* An instruction in the unit.                                             *)
LEMMA InUnit ==
  ASSUME IInv, NEW w \in Wids, pipe[w] # <<>>
  PROVE  /\ Head(pipe[w]) \in Pcs /\ Tail(pipe[w]) \in Seq(Pcs) /\ InOrder(Tail(pipe[w]))
         /\ w \in active /\ warp[w] \in Warps
         /\ Stalls(Head(pipe[w])) =>
              /\ Tail(pipe[w]) = <<>> /\ fetched[w] = 0 /\ w \in stalled_next /\ w \notin out
              /\ warp[w].pc = Head(pipe[w]) + 1 /\ WarpOK(warp[w], Head(pipe[w]), lane[w])
              /\ \A s \in Wids, b \in Bars : w \notin bars[s][b].wait_mask
         /\ ~Stalls(Head(pipe[w])) =>
              /\ Blocked(Tail(pipe[w])) <=> Blocked(pipe[w])
              /\ Blocked(pipe[w]) => Tail(pipe[w])[Len(Tail(pipe[w]))] = pipe[w][Len(pipe[w])]
<1>1. pipe[w] \in Seq(Pcs) /\ warp[w] \in Warps
  BY DEF IInv, Types
<1>2. Flow(w)
  BY DEF IInv, Flows
<1>3. InOrder(pipe[w]) /\ w \in active
  BY <1>2 DEF Flow
<1>4. ASSUME Stalls(Head(pipe[w]))
      PROVE  /\ Tail(pipe[w]) = <<>> /\ fetched[w] = 0 /\ w \in stalled_next /\ w \notin out
             /\ warp[w].pc = Head(pipe[w]) + 1 /\ WarpOK(warp[w], Head(pipe[w]), lane[w])
             /\ \A s \in Wids, b \in Bars : w \notin bars[s][b].wait_mask
  <2>1. Tail(pipe[w]) = <<>> /\ Blocked(pipe[w]) /\ pipe[w][Len(pipe[w])] = Head(pipe[w])
    BY <1>1, <1>3, <1>4, PipeTail
  <2>2. fetched[w] = 0 /\ w \in stalled_next /\ w \notin out /\ warp[w].pc = Head(pipe[w]) + 1
    BY <1>2, <2>1 DEF Flow
  <2>3. WarpOK(warp[w], Head(pipe[w]), lane[w])
    BY <1>2, <1>3, <2>1 DEF Flow, Pos
  <2>4. \A s \in Wids, b \in Bars : w \notin bars[s][b].wait_mask
    BY <2>1 DEF IInv, Waiters, Held
  <2> QED BY <2>1, <2>2, <2>3, <2>4
<1> QED BY <1>1, <1>3, <1>4, PipeTail


(* The lanes that run an instruction.                                      *)
LEMMA RanFacts ==
  ASSUME Types, NEW w \in Wids, NEW i \in Pcs, Ran(w, i)
  PROVE  /\ lane' \in [Wids -> [Threads -> Nat]]
         /\ lane'[w] = RanTo(warp[w], i + 1, lane[w])
         /\ \A v \in Wids : v # w => lane'[v] = lane[v]
<1>1. lane \in [Wids -> [Threads -> Nat]] /\ i + 1 \in Nat
  BY ProgramFacts DEF Types
<1> DEFINE l == RanTo(warp[w], i + 1, lane[w])
<1>2. l \in [Threads -> Nat]
  BY <1>1 DEF RanTo
<1>3. lane' = [lane EXCEPT ![w] = l]
  BY <1>1 DEF Ran, RanTo
<1> HIDE DEF l
<1> QED BY <1>1, <1>2, <1>3 DEF l

(* What the dispatcher's invariant depends on has not changed.             *)
LEMMA DispKeep ==
  ASSUME IInv, kmu' = kmu, disp' = disp, active' = active, Fin' = Fin,
         \A w \in Wids : /\ warp'[w].block = warp[w].block /\ warp'[w].rank = warp[w].rank
                         /\ warp'[w].slot = warp[w].slot /\ warp'[w].tid = warp[w].tid
  PROVE  DispOK(kmu, disp, active, warp, Fin)'
<1>1. active \subseteq Wids /\ DispOK(kmu, disp, active, warp, Fin)
  BY DEF IInv, Types
<1>2. DispOK(kmu, disp, active, warp', Fin)
  BY <1>1, DispSame
<1> QED BY <1>2

(* A rank is noted at an instruction that is not the last.                 *)
LEMMA ReachedFacts ==
  ASSUME IInv, NEW w \in Wids, NEW i \in Pcs, Reached(w, i)
  PROVE  /\ arrived' \in [Blocks -> [Pcs -> SUBSET Ranks]]
         /\ i # Len(Program) => Fin' = Fin
         /\ i = Len(Program) => Fin' = WithRank(Fin, warp[w].block, warp[w].rank)
<1> DEFINE k == warp[w].block
           r == warp[w].rank
           n == Len(Program)
<1>1. arrived \in [Blocks -> [Pcs -> SUBSET Ranks]] /\ k \in Blocks /\ r \in Ranks /\ n \in Pcs
  BY ProgramFacts DEF IInv, Types, Warps
<1>2. arrived' = [arrived EXCEPT ![k][i] = arrived[k][i] \cup {r}]
  BY <1>1 DEF Reached
<1> HIDE DEF k, r, n
<1>3. arrived' \in [Blocks -> [Pcs -> SUBSET Ranks]]
  BY <1>1, <1>2
<1>4. \A j \in Blocks : arrived'[j][n] = IF j = k /\ i = n THEN arrived[j][n] \cup {r} ELSE arrived[j][n]
  BY <1>1, <1>2
<1>5. Fin' = [j \in Blocks |-> arrived'[j][n]] /\ Fin = [j \in Blocks |-> arrived[j][n]]
  BY DEF Fin, n
<1>6. i # n => Fin' = Fin
  BY <1>4, <1>5
<1>7. i = n => Fin' = WithRank(Fin, k, r)
  BY <1>1, <1>4, <1>5 DEF WithRank
<1> QED BY <1>3, <1>6, <1>7 DEF k, r, n

(* The barriers' counts of transfers have not changed.                     *)
LEMMA EventsKeep ==
  ASSUME Events, tx' = tx,
         \A s \in Wids, b \in Bars : bars'[s][b].events = bars[s][b].events
  PROVE  Events'
BY DEF Events, TxOf

(* Nobody has come to wait, and who still waits is held.                   *)
LEMMA WaitersKeep ==
  ASSUME Waiters,
         \A s \in Wids, b \in Bars : bars'[s][b].wait_mask \subseteq bars[s][b].wait_mask,
         \A s \in Wids, b \in Bars : \A v \in bars'[s][b].wait_mask : Held(v)'
  PROVE  Waiters'
<1>1. \A s, t \in Wids, b, c \in Bars : \A w \in bars'[s][b].wait_mask :
        w \in bars'[t][c].wait_mask => s = t /\ b = c
  BY DEF Waiters
<1> QED BY <1>1 DEF Waiters

(* A result leaves the unit.                                               *)
LEMMA CommitOK ==
  ASSUME IInv, NEW w \in Wids, Commit(w)
  PROVE  IInv'
<1>1. /\ w \in out /\ out' = out \ {w} /\ stalled_next' = stalled_next \ {w}
      /\ failed' = (failed \/ ResumeFails({w}))
      /\ kmu' = kmu /\ disp' = disp /\ active' = active /\ stalled' = stalled /\ warp' = warp
      /\ fetched' = fetched /\ pipe' = pipe /\ bars' = bars /\ tx' = tx /\ lane' = lane
      /\ arrived' = arrived
  BY DEF Commit
<1>2. Types /\ Sizes /\ ~failed /\ Flows /\ Waiters /\ Events
  BY DEF IInv
<1>3. Flow(w)
  BY <1>2 DEF Flows
<1>4. w \in active /\ w \in stalled_next /\ fetched[w] = 0 /\ ~Blocked(pipe[w])
  BY <1>1, <1>3 DEF Flow
<1>5. ~failed'
  BY <1>1, <1>2, <1>4 DEF ResumeFails
<1>6. Types'
  BY <1>1, <1>2, <1>5 DEF Types
<1>7. Sizes'
  BY <1>1, <1>2 DEF Sizes
<1>8. DispOK(kmu, disp, active, warp, Fin)'
  <2>1. Fin' = Fin
    BY <1>1 DEF Fin
  <2> QED BY <1>1, <2>1, DispKeep
<1>9. ASSUME NEW v \in Wids PROVE Flow(v)'
  <2>1. CASE v = w
    BY <1>1, <1>3, <1>4, <2>1 DEF Flow
  <2>2. CASE v # w
    <3>1. Flow(v)
      BY <1>2 DEF Flows
    <3> QED BY <1>1, <2>2, <3>1, FlowSame
  <2> QED BY <2>1, <2>2
<1>10. Flows'
  BY <1>1, <1>2, <1>9 DEF Flows
<1>11. Waiters'
  <2>1. ASSUME NEW s \in Wids, NEW b \in Bars, NEW v \in bars[s][b].wait_mask PROVE Held(v)'
    <3>1. Held(v)
      BY <1>2 DEF Waiters
    <3> QED BY <1>1, <3>1 DEF Held
  <2> QED BY <1>1, <1>2, <2>1, WaitersKeep
<1>12. Events'
  BY <1>1, <1>2, EventsKeep
<1> QED BY <1>5, <1>6, <1>7, <1>8, <1>10, <1>11, <1>12 DEF IInv


(* An instruction is decoded.                                              *)
LEMMA DecodeOK ==
  ASSUME IInv, NEW w \in Wids, Decode(w)
  PROVE  IInv'
<1> DEFINE i == fetched[w]
           n == Len(Program)
           released == IF OpOf(w, i) \in NonStalling THEN {w} ELSE {}
           r2 == [warp[w] EXCEPT !.pc = i + 1]
<1>1. Types /\ Sizes /\ ~failed /\ Flows /\ Waiters /\ Events /\ Flow(w)
  BY DEF IInv, Flows
<1>2. /\ i # 0 /\ fetched' = [fetched EXCEPT ![w] = 0] /\ warp' = [warp EXCEPT ![w].pc = i + 1]
      /\ stalled_next' = stalled_next \ released /\ failed' = (failed \/ ResumeFails(released))
      /\ IF released = {} THEN lane' = lane ELSE Ran(w, i)
      /\ pipe' = IF OpOf(w, i) = "work" THEN pipe ELSE [pipe EXCEPT ![w] = Append(@, i)]
      /\ kmu' = kmu /\ disp' = disp /\ active' = active /\ stalled' = stalled /\ out' = out
      /\ bars' = bars /\ tx' = tx /\ arrived' = arrived
  BY DEF Decode
<1>3. /\ w \in active /\ w \in stalled_next /\ w \notin out /\ i = warp[w].pc /\ ~Blocked(pipe[w])
      /\ InOrder(pipe[w])
  BY <1>1, <1>2 DEF Flow
<1>4. /\ warp \in [Wids -> Warps] /\ warp[w] \in Warps /\ fetched \in [Wids -> 0..n]
      /\ pipe \in [Wids -> Seq(Pcs)] /\ pipe[w] \in Seq(Pcs) /\ n \in Nat
      /\ lane \in [Wids -> [Threads -> Nat]]
  BY <1>1, ProgramFacts DEF Types
<1>5. i \in Pcs /\ i + 1 \in 1..(n + 1) /\ i \in Nat
  BY <1>2, <1>4 DEF Pcs
<1>6. WarpOK(warp[w], i, lane[w])
  BY <1>1, <1>3 DEF Flow, Pos
<1>7. ~Stalls(i) <=> OpOf(w, i) \in NonStalling
  BY DEF OpOf, Stalls, NonStalling
<1>8. OpOf(w, i) = "work" => ~Stalls(i)
  BY <1>7 DEF NonStalling
<1>9. r2 \in Warps /\ r2.pc = i + 1 /\ warp' = [warp EXCEPT ![w] = r2]
      /\ r2.tmask = warp[w].tmask /\ r2.stack = warp[w].stack /\ r2.sp = warp[w].sp
      /\ r2.rank = warp[w].rank /\ r2.block = warp[w].block /\ r2.slot = warp[w].slot
      /\ r2.tid = warp[w].tid
  <2>1. warp' = [warp EXCEPT ![w] = r2]
    BY <1>2, <1>4
  <2>2. i + 1 \in Nat
    BY <1>5
  <2> HIDE DEF i
  <2> QED BY <1>4, <2>1, <2>2 DEF Warps
<1> HIDE DEF r2, n
<1>10. warp' \in [Wids -> Warps] /\ warp'[w] = r2 /\ \A v \in Wids : v # w => warp'[v] = warp[v]
  BY <1>4, <1>9
<1>11. ~failed'
  <2>1. released \subseteq {w}
    OBVIOUS
  <2>2. ~ResumeFails(released)
    BY <1>3, <2>1 DEF ResumeFails
  <2> QED BY <1>1, <1>2, <2>2
<1>12. /\ ~Stalls(i) => released = {w} /\ Ran(w, i)
       /\ Stalls(i) => released = {} /\ lane' = lane
  BY <1>2, <1>7
<1> HIDE DEF released
<1>13. /\ pipe' \in [Wids -> Seq(Pcs)] /\ \A v \in Wids : v # w => pipe'[v] = pipe[v]
       /\ InOrder(pipe'[w]) /\ (Blocked(pipe'[w]) <=> Stalls(i))
       /\ Stalls(i) => pipe'[w][Len(pipe'[w])] = i
  <2>1. CASE OpOf(w, i) = "work"
    BY <1>2, <1>3, <1>4, <1>8, <2>1
  <2>2. CASE OpOf(w, i) # "work"
    <3> DEFINE p == Append(pipe[w], i)
    <3>1. p \in Seq(Pcs) /\ InOrder(p) /\ p[Len(p)] = i /\ (Blocked(p) <=> Stalls(i))
      BY <1>3, <1>4, <1>5, PipeAppend
    <3>2. pipe' = [pipe EXCEPT ![w] = p]
      BY <1>2, <2>2
    <3> HIDE DEF p, i
    <3>3. pipe' \in [Wids -> Seq(Pcs)] /\ pipe'[w] = p /\ \A v \in Wids : v # w => pipe'[v] = pipe[v]
      BY <1>4, <3>1, <3>2
    <3> QED BY <3>1, <3>3
  <2> QED BY <2>1, <2>2
<1>14. lane' \in [Wids -> [Threads -> Nat]] /\ \A v \in Wids : v # w => lane'[v] = lane[v]
  <2>1. CASE Stalls(i)
    BY <1>4, <1>12, <2>1
  <2>2. CASE ~Stalls(i)
    BY <1>1, <1>5, <1>12, <2>2, RanFacts
  <2> QED BY <2>1, <2>2
<1>15. fetched' \in [Wids -> 0..n] /\ fetched'[w] = 0 /\ \A v \in Wids : v # w => fetched'[v] = fetched[v]
  BY <1>2, <1>4
<1>16. Types'
  <2>1. /\ active' \subseteq Wids /\ stalled' \subseteq Wids /\ stalled_next' \subseteq Wids
        /\ out' \subseteq Wids /\ failed' \in BOOLEAN
    BY <1>1, <1>2, <1>11 DEF Types
  <2>2. /\ bars' \in [Wids -> [Bars -> BarRecs]] /\ tx' \subseteq Transfers /\ IsFiniteSet(tx')
        /\ arrived' \in [Blocks -> [Pcs -> SUBSET Ranks]]
    BY <1>1, <1>2 DEF Types
  <2> QED BY <1>10, <1>13, <1>14, <1>15, <2>1, <2>2 DEF Types, n
<1>17. Sizes'
  BY <1>1, <1>5, <1>9, <1>10 DEF Sizes, n
<1>18. DispOK(kmu, disp, active, warp, Fin)'
  <2>1. Fin' = Fin
    BY <1>2 DEF Fin
  <2>2. \A v \in Wids : /\ warp'[v].block = warp[v].block /\ warp'[v].rank = warp[v].rank
                        /\ warp'[v].slot = warp[v].slot /\ warp'[v].tid = warp[v].tid
    BY <1>9, <1>10
  <2> QED BY <1>2, <2>1, <2>2, DispKeep
<1>19. Flow(w)'
  <2>1. w \in active' /\ w \notin out' /\ fetched'[w] = 0
    BY <1>2, <1>3, <1>15
  <2>2. CASE Stalls(i)
    <3>1. w \in stalled_next'
      BY <1>2, <1>3, <1>12, <2>2
    <3>2. Blocked(pipe'[w]) /\ pipe'[w][Len(pipe'[w])] = i /\ InOrder(pipe'[w])
      BY <1>13, <2>2
    <3>3. WarpOK(warp'[w], i, lane'[w])
      BY <1>6, <1>9, <1>10, <1>12, <2>2, SameWarp
    <3>4. warp'[w].pc = i + 1
      BY <1>9, <1>10
    <3> HIDE DEF i
    <3> QED BY <2>1, <3>1, <3>2, <3>3, <3>4 DEF Flow, Pos
  <2>3. CASE ~Stalls(i)
    <3>1. i + 1 \in Pcs /\ Program[i].op \notin {"split", "join"}
      <4>1. Program[i].op \in NonStalling
        BY <2>3 DEF Stalls
      <4>2. i # n /\ Program[i].op \notin {"split", "join"}
        BY <1>5, <4>1, ProgramFacts DEF NonStalling, n
      <4> QED BY <1>4, <1>5, <4>2 DEF Pcs, n
    <3>2. WarpOK(warp[w], i + 1, lane'[w])
      <4>1. lane'[w] = RanTo(warp[w], i + 1, lane[w])
        BY <1>1, <1>5, <1>12, <2>3, RanFacts
      <4>2. WarpOK(warp[w], i + 1, RanTo(warp[w], i + 1, lane[w]))
        BY <1>4, <1>5, <1>6, <3>1, RunStraight
      <4> QED BY <4>1, <4>2
    <3>3. WarpOK(warp'[w], i + 1, lane'[w])
      BY <1>9, <1>10, <3>2, SameWarp
    <3>4. ~Blocked(pipe'[w]) /\ InOrder(pipe'[w])
      BY <1>13, <2>3
    <3>5. warp'[w].pc = i + 1
      BY <1>9, <1>10
    <3> HIDE DEF i
    <3> QED BY <2>1, <3>1, <3>3, <3>4, <3>5 DEF Flow, Pos
  <2> QED BY <2>2, <2>3
<1>20. ASSUME NEW v \in Wids PROVE Flow(v)'
  <2>1. CASE v # w
    <3>1. Flow(v)
      BY <1>1 DEF Flows
    <3>2. v \in stalled_next' <=> v \in stalled_next
      BY <1>2, <2>1 DEF released
    <3> QED BY <1>2, <1>10, <1>13, <1>14, <1>15, <2>1, <3>1, <3>2, FlowSame
  <2> QED BY <1>19, <2>1
<1>21. Flows'
  BY <1>1, <1>2, <1>20 DEF Flows
<1>22. Waiters'
  <2>1. ASSUME NEW s \in Wids, NEW b \in Bars, NEW v \in bars[s][b].wait_mask PROVE Held(v)'
    <3>1. Held(v) /\ v \in Wids
      BY <1>1 DEF Waiters, Types, BarRecs
    <3>2. v # w
      BY <1>2, <3>1 DEF Held
    <3>3. v \in stalled_next'
      BY <1>2, <3>1, <3>2 DEF Held, released
    <3> QED BY <1>2, <1>13, <1>15, <3>1, <3>2, <3>3 DEF Held
  <2> QED BY <1>1, <1>2, <2>1, WaitersKeep
<1>23. Events'
  BY <1>1, <1>2, EventsKeep
<1> QED BY <1>11, <1>16, <1>17, <1>18, <1>21, <1>22, <1>23 DEF IInv

(* The unit is done with a split or a join, which leaves the warp as r2.   *)
LEMMA UnitOK ==
  ASSUME IInv, NEW w \in Wids, NEW op, op \notin NonStalling, op # "exit", Processes(w, op),
         Release(w), ~failed',
         UNCHANGED <<kmu, disp, active, stalled, stalled_next, fetched, bars, tx, arrived>>,
         NEW r2 \in Warps, warp' = [warp EXCEPT ![w] = r2],
         r2.block = warp[w].block, r2.rank = warp[w].rank, r2.slot = warp[w].slot,
         r2.tid = warp[w].tid, r2.pc \in Pcs, Len(r2.stack) <= NumThreads - 1,
         failed' \in BOOLEAN,
         WarpOK(r2, r2.pc, RanTo(warp[w], Head(pipe[w]) + 1, lane[w]))
  PROVE  IInv'
<1> DEFINE i == Head(pipe[w])
<1>1. Types /\ Sizes /\ ~failed /\ Flows /\ Waiters /\ Events /\ Flow(w)
  BY DEF IInv, Flows
<1>2. /\ pipe[w] # <<>> /\ Program[i].op = op /\ pipe' = [pipe EXCEPT ![w] = Tail(@)]
      /\ Ran(w, i) /\ out' = out \cup {w}
      /\ kmu' = kmu /\ disp' = disp /\ active' = active /\ stalled' = stalled
      /\ stalled_next' = stalled_next /\ fetched' = fetched
      /\ bars' = bars /\ tx' = tx /\ arrived' = arrived
  BY DEF Processes, Release
<1>3. Stalls(i)
  BY <1>2 DEF Stalls
<1>4. /\ i \in Pcs /\ Tail(pipe[w]) = <<>> /\ fetched[w] = 0 /\ w \in stalled_next /\ w \notin out
      /\ w \in active /\ \A s \in Wids, b \in Bars : w \notin bars[s][b].wait_mask
  BY <1>2, <1>3, InUnit
<1>5. /\ warp \in [Wids -> Warps] /\ pipe \in [Wids -> Seq(Pcs)] /\ Len(Program) \in Nat
      /\ Pcs = 1..Len(Program)
  BY <1>1, ProgramFacts DEF Types, Pcs
<1>6. warp' \in [Wids -> Warps] /\ warp'[w] = r2 /\ \A v \in Wids : v # w => warp'[v] = warp[v]
  BY <1>5
<1>7. /\ pipe' \in [Wids -> Seq(Pcs)] /\ pipe'[w] = <<>> /\ \A v \in Wids : v # w => pipe'[v] = pipe[v]
  BY <1>2, <1>4, <1>5
<1>8. /\ lane' \in [Wids -> [Threads -> Nat]] /\ \A v \in Wids : v # w => lane'[v] = lane[v]
      /\ lane'[w] = RanTo(warp[w], i + 1, lane[w])
  BY <1>1, <1>2, <1>4, RanFacts
<1>9. Types'
  <2>1. /\ active' \subseteq Wids /\ stalled' \subseteq Wids /\ stalled_next' \subseteq Wids
        /\ out' \subseteq Wids /\ failed' \in BOOLEAN /\ fetched' \in [Wids -> 0..Len(Program)]
    BY <1>1, <1>2 DEF Types
  <2>2. /\ bars' \in [Wids -> [Bars -> BarRecs]] /\ tx' \subseteq Transfers /\ IsFiniteSet(tx')
        /\ arrived' \in [Blocks -> [Pcs -> SUBSET Ranks]]
    BY <1>1, <1>2 DEF Types
  <2> QED BY <1>6, <1>7, <1>8, <2>1, <2>2 DEF Types
<1>10. Sizes'
  <2>1. r2.pc \in 1..(Len(Program) + 1)
    BY <1>5
  <2> QED BY <1>1, <1>6, <2>1 DEF Sizes
<1>11. DispOK(kmu, disp, active, warp, Fin)'
  <2>1. Fin' = Fin
    BY <1>2 DEF Fin
  <2>2. \A v \in Wids : /\ warp'[v].block = warp[v].block /\ warp'[v].rank = warp[v].rank
                        /\ warp'[v].slot = warp[v].slot /\ warp'[v].tid = warp[v].tid
    BY <1>6
  <2> QED BY <1>2, <2>1, <2>2, DispKeep
<1>12. Flow(w)'
  <2>1. ~Blocked(pipe'[w]) /\ InOrder(pipe'[w])
    <3>1. InOrder(<<>>) /\ ~Blocked(<<>>)
      BY DEF InOrder, Blocked
    <3> QED BY <1>7, <3>1
  <2>2. WarpOK(warp'[w], warp'[w].pc, lane'[w]) /\ warp'[w].pc \in Pcs
    BY <1>6, <1>8
  <2> QED BY <1>2, <1>4, <1>7, <2>1, <2>2 DEF Flow, Pos
<1>13. ASSUME NEW v \in Wids PROVE Flow(v)'
  <2>1. CASE v # w
    <3>1. Flow(v)
      BY <1>1 DEF Flows
    <3> QED BY <1>2, <1>6, <1>7, <1>8, <2>1, <3>1, FlowSame
  <2> QED BY <1>12, <2>1
<1>14. Flows'
  BY <1>1, <1>2, <1>13 DEF Flows
<1>15. Waiters'
  <2>1. ASSUME NEW s \in Wids, NEW b \in Bars, NEW v \in bars[s][b].wait_mask PROVE Held(v)'
    <3>1. Held(v) /\ v \in Wids
      BY <1>1 DEF Waiters, Types, BarRecs
    <3>2. v # w
      BY <1>4
    <3> QED BY <1>2, <1>7, <3>1, <3>2 DEF Held
  <2> QED BY <1>1, <1>2, <2>1, WaitersKeep
<1>16. Events'
  BY <1>1, <1>2, EventsKeep
<1> QED BY <1>9, <1>10, <1>11, <1>14, <1>15, <1>16 DEF IInv


(* A split or a join is not the last instruction.                          *)
LEMMA NotLast ==
  ASSUME NEW i \in Pcs, Program[i].op # "exit"
  PROVE  i + 1 \in Pcs /\ i # Len(Program)
BY ProgramFacts DEF Pcs

(* A warp splits.                                                          *)
LEMMA SplitOK ==
  ASSUME IInv, NEW w \in Wids, Split(w)
  PROVE  IInv'
<1> DEFINE i == Head(pipe[w])
           r == warp[w]
           depth == Len(r.stack)
           entry == [orig_tmask |-> r.tmask, else_PC |-> i + 1, fallthrough |-> FALSE]
           cond(c) == c \cap r.tmask
           rest(c) == r.tmask \ cond(c)
           divergent(c) == cond(c) # {} /\ rest(c) # {}
           small(c) == IF Cardinality(cond(c)) =< Cardinality(rest(c)) THEN cond(c) ELSE rest(c)
<1>1. PICK c \in Taken[i] :
        /\ warp' = IF divergent(c)
                   THEN [warp EXCEPT ![w].tmask = small(c), ![w].sp[i] = depth,
                                     ![w].stack = Append(@, entry)]
                   ELSE [warp EXCEPT ![w].sp[i] = depth]
        /\ failed' = (failed \/ (divergent(c) /\ depth = NumThreads - 1))
  BY DEF Split
<1>2. /\ Processes(w, "split") /\ Release(w)
      /\ UNCHANGED <<kmu, disp, active, stalled, stalled_next, fetched, bars, tx, arrived>>
  BY DEF Split
<1>3. /\ pipe[w] # <<>> /\ Program[i].op = "split" /\ Stalls(i)
  BY <1>2 DEF Processes, Stalls, NonStalling
<1>4. /\ i \in Pcs /\ r \in Warps /\ r.pc = i + 1 /\ WarpOK(r, i, lane[w])
  BY <1>3, InUnit
<1>5. i \in At("split") /\ i + 1 \in Pcs
  BY <1>3, <1>4, NotLast DEF At
<1>6. ~failed /\ depth <= NumThreads - 1 /\ depth \in Nat /\ warp \in [Wids -> Warps]
      /\ NumThreads \in Nat /\ r.stack \in Seq(Entries) /\ r.sp \in [At("split") -> Nat]
  <2>1. Sizes /\ Types /\ ~failed
    BY DEF IInv
  <2>2. r.stack \in Seq(Entries) /\ r.sp \in [At("split") -> Nat]
    BY <1>4 DEF Warps
  <2> QED BY <2>1, <2>2, SizeFacts DEF Sizes, Types
<1>7. CASE divergent(c)
  <2> DEFINE s == small(c)
             r2 == [r EXCEPT !.tmask = s, !.sp[i] = depth, !.stack = Append(@, entry)]
  <2>1. s \subseteq r.tmask /\ s # r.tmask /\ s # {}
    BY <1>7
  <2> HIDE DEF small
  <2>2. /\ r2 \in Warps /\ WarpOK(r2, i + 1, RanTo(r, i + 1, lane[w])) /\ depth # NumThreads - 1
    BY <1>4, <1>5, <2>1, RunDivergent
  <2>3. /\ r2.pc = r.pc /\ r2.block = r.block /\ r2.rank = r.rank /\ r2.slot = r.slot
        /\ r2.tid = r.tid /\ r2.stack = Append(r.stack, entry)
    <3> HIDE DEF entry, s, i, depth
    <3> QED BY <1>4 DEF Warps
  <2>4. Len(r2.stack) <= NumThreads - 1
    <3>1. entry \in Entries
      <4>1. r.tmask \in SUBSET Threads /\ i + 1 \in Nat
        BY <1>4, <1>5, ProgramFacts DEF Warps
      <4> QED BY <4>1 DEF Entries
    <3> HIDE DEF entry, r2
    <3>2. Len(Append(r.stack, entry)) = depth + 1
      BY <1>6, <3>1
    <3> HIDE DEF depth
    <3> QED BY <1>6, <2>2, <2>3, <3>2
  <2>5. warp' = [warp EXCEPT ![w] = r2]
    <3>1. warp' = [warp EXCEPT ![w].tmask = s, ![w].sp[i] = depth, ![w].stack = Append(@, entry)]
      BY <1>1, <1>7
    <3> HIDE DEF entry, s, i, depth
    <3> QED BY <1>6, <3>1
  <2>6. ~failed'
    BY <1>1, <1>6, <2>2
  <2>7. r2.pc \in Pcs /\ WarpOK(r2, r2.pc, RanTo(r, i + 1, lane[w])) /\ failed' \in BOOLEAN
    <3> HIDE DEF r2
    <3> QED BY <1>1, <1>4, <1>5, <2>2, <2>3, <2>6
  <2>8. "split" \notin NonStalling
    BY DEF NonStalling
  <2> HIDE DEF r2
  <2> QED BY <1>2, <2>2, <2>3, <2>4, <2>5, <2>6, <2>7, <2>8, UnitOK
<1>8. CASE ~divergent(c)
  <2> DEFINE r2 == [r EXCEPT !.sp[i] = depth]
  <2>1. r2 \in Warps /\ WarpOK(r2, i + 1, RanTo(r, i + 1, lane[w]))
    BY <1>4, <1>5, RunUniform
  <2>2. /\ r2.pc = r.pc /\ r2.block = r.block /\ r2.rank = r.rank /\ r2.slot = r.slot
        /\ r2.tid = r.tid /\ r2.stack = r.stack
    <3> HIDE DEF i, depth
    <3> QED BY <1>4 DEF Warps
  <2>3. warp' = [warp EXCEPT ![w] = r2]
    BY <1>1, <1>6, <1>8
  <2>4. ~failed'
    BY <1>1, <1>6, <1>8
  <2>5. r2.pc \in Pcs /\ WarpOK(r2, r2.pc, RanTo(r, i + 1, lane[w])) /\ failed' \in BOOLEAN
        /\ Len(r2.stack) <= NumThreads - 1
    <3> HIDE DEF r2
    <3> QED BY <1>1, <1>4, <1>5, <1>6, <2>1, <2>2, <2>4
  <2>6. "split" \notin NonStalling
    BY DEF NonStalling
  <2> HIDE DEF r2
  <2> QED BY <1>2, <2>1, <2>2, <2>3, <2>4, <2>5, <2>6, UnitOK
<1> QED BY <1>7, <1>8

(* A warp joins.                                                           *)
LEMMA JoinOK ==
  ASSUME IInv, NEW w \in Wids, Join(w)
  PROVE  IInv'
<1> DEFINE j == Head(pipe[w])
           r == warp[w]
           n == Len(r.stack)
           diverged == r.sp[SplitOf[j]] # n
           l2 == RanTo(r, j + 1, lane[w])
<1>1. /\ warp' = CASE ~diverged \/ r.stack = <<>> -> warp
                   [] r.stack # <<>> /\ diverged ->
                      [warp EXCEPT ![w] = IF r.stack[n].fallthrough
                                          THEN Reconverged(r) ELSE OtherSide(r)]
      /\ failed' = (failed \/ (diverged /\ r.stack = <<>>))
      /\ Processes(w, "join") /\ Release(w)
      /\ UNCHANGED <<kmu, disp, active, stalled, stalled_next, fetched, bars, tx, arrived>>
  BY DEF Join
<1>2. /\ pipe[w] # <<>> /\ Program[j].op = "join" /\ Stalls(j)
  BY <1>1 DEF Processes, Stalls, NonStalling
<1>3. /\ j \in Pcs /\ r \in Warps /\ r.pc = j + 1 /\ WarpOK(r, j, lane[w])
  BY <1>2, InUnit
<1>4. j \in At("join") /\ j + 1 \in Pcs
  BY <1>2, <1>3, NotLast DEF At
<1>5. ~failed /\ n <= NumThreads - 1 /\ n \in Nat /\ warp \in [Wids -> Warps]
      /\ NumThreads \in Nat /\ r.stack \in Seq(Entries)
  <2>1. Sizes /\ Types /\ ~failed
    BY DEF IInv
  <2>2. r.stack \in Seq(Entries)
    BY <1>3 DEF Warps
  <2> QED BY <2>1, <2>2, SizeFacts DEF Sizes, Types
<1>6. CASE ~diverged
  <2>1. WarpOK(r, j + 1, l2)
    BY <1>3, <1>4, <1>6, RunUndiverged
  <2>2. warp' = warp /\ ~failed' /\ failed' \in BOOLEAN
    BY <1>1, <1>5, <1>6
  <2>3. warp' = [warp EXCEPT ![w] = r]
    BY <1>5, <2>2
  <2>4. WarpOK(r, r.pc, l2) /\ r.pc \in Pcs
    BY <1>3, <1>4, <2>1
  <2>5. "join" \notin NonStalling
    BY DEF NonStalling
  <2> QED BY <1>1, <1>3, <1>5, <2>2, <2>3, <2>4, <2>5, UnitOK
<1>7. CASE diverged
  <2>1. r.stack # <<>> /\ n >= 1 /\ r.stack[n] \in Entries
    BY <1>3, <1>4, <1>7, TopIsOwn
  <2>2. ~failed' /\ failed' \in BOOLEAN
    BY <1>1, <1>5, <2>1
  <2>3. warp' = [warp EXCEPT ![w] = IF r.stack[n].fallthrough THEN Reconverged(r) ELSE OtherSide(r)]
    BY <1>1, <1>7, <2>1
  <2>4. CASE r.stack[n].fallthrough
    <3> DEFINE r2 == Reconverged(r)
    <3>1. r2 \in Warps /\ WarpOK(r2, j + 1, l2)
      BY <1>3, <1>4, <1>7, <2>4, RunReconverged
    <3>2. /\ r2.pc = r.pc /\ r2.block = r.block /\ r2.rank = r.rank /\ r2.slot = r.slot
          /\ r2.tid = r.tid /\ r2.stack = SubSeq(r.stack, 1, n - 1)
      BY <1>3 DEF Reconverged, Warps
    <3>3. Len(r2.stack) = n - 1
      <4>1. 1 \in 1..(n + 1) /\ n - 1 \in 0..n
        BY <1>5, <2>1
      <4>2. Len(SubSeq(r.stack, 1, n - 1)) = n - 1
        BY <1>5, <2>1
      <4> QED BY <3>2, <4>2
    <3>4. Len(r2.stack) <= NumThreads - 1
      <4> HIDE DEF n, r2
      <4> QED BY <1>5, <3>3
    <3>5. warp' = [warp EXCEPT ![w] = r2]
      BY <2>3, <2>4
    <3> HIDE DEF r2
    <3>6. WarpOK(r2, r2.pc, l2) /\ r2.pc \in Pcs
      BY <1>3, <1>4, <3>1, <3>2
    <3>7. "join" \notin NonStalling
      BY DEF NonStalling
    <3> QED BY <1>1, <2>2, <3>1, <3>2, <3>4, <3>5, <3>6, <3>7, UnitOK
  <2>5. CASE ~r.stack[n].fallthrough
    <3> DEFINE r2 == OtherSide(r)
    <3>1. r2 \in Warps /\ r2.pc \in Pcs /\ WarpOK(r2, r2.pc, l2)
      BY <1>3, <1>4, <1>7, <2>5, RunOtherSide
    <3>2. /\ r2.block = r.block /\ r2.rank = r.rank /\ r2.slot = r.slot
          /\ r2.tid = r.tid /\ r2.stack = [r.stack EXCEPT ![n].fallthrough = TRUE]
      BY <1>3 DEF OtherSide, Warps
    <3>3. Len(r2.stack) = n
      <4>1. [r.stack[n] EXCEPT !.fallthrough = TRUE] \in Entries
        BY <2>1 DEF Entries
      <4>2. [r.stack EXCEPT ![n].fallthrough = TRUE]
            = [r.stack EXCEPT ![n] = [r.stack[n] EXCEPT !.fallthrough = TRUE]]
        OBVIOUS
      <4> DEFINE e == [r.stack[n] EXCEPT !.fallthrough = TRUE]
      <4> HIDE DEF e
      <4>3. Len([r.stack EXCEPT ![n] = e]) = Len(r.stack)
        BY <1>5, <2>1, <4>1 DEF e
      <4> QED BY <3>2, <4>2, <4>3 DEF e
    <3>4. warp' = [warp EXCEPT ![w] = r2]
      BY <2>3, <2>5
    <3> HIDE DEF r2, n
    <3> QED BY <1>1, <1>5, <2>2, <3>1, <3>2, <3>3, <3>4, UnitOK DEF NonStalling
  <2> QED BY <2>4, <2>5
<1> QED BY <1>6, <1>7


(* A warp that has ended, and one as it starts.                            *)
LEMMA FreshWarps ==
  /\ Retired \in Warps /\ Retired.pc = 1 /\ Retired.stack = <<>> /\ NoLanes \in [Threads -> Nat]
  /\ 1 \in Pcs
<1>1. 1 \in Pcs /\ 1 \in Nat
  BY ProgramFacts DEF Pcs
<1>2. 0 \in Ranks /\ 0 \in Wids /\ 0 \in Nat
  BY CtaFacts, SizeFacts DEF Ranks, Wids
<1>3. Origin \in Blocks /\ Origin \in [Axes -> Nat]
  BY BlockFacts
<1>4. <<>> \in Seq(Entries) /\ {} \in SUBSET Threads
  OBVIOUS
<1>5. [i \in At("split") |-> 0] \in [At("split") -> Nat] /\ [b \in Bars |-> 0] \in [Bars -> Nat]
  BY <1>2
<1>6. NoLanes \in [Threads -> Nat]
  BY DEF NoLanes
<1> QED BY <1>1, <1>2, <1>3, <1>4, <1>5, <1>6 DEF Retired, Warps

(* A warp ends.                                                            *)
LEMMA ExitOK ==
  ASSUME IInv, NEW w \in Wids, Exit(w)
  PROVE  IInv'
<1> DEFINE i == Head(pipe[w])
           r == warp[w]
<1>1. Types /\ Sizes /\ ~failed /\ Flows /\ Waiters /\ Events /\ Flow(w)
      /\ DispOK(kmu, disp, active, warp, Fin)
  BY DEF IInv, Flows
<1>2. /\ pipe[w] # <<>> /\ Program[i].op = "exit" /\ pipe' = [pipe EXCEPT ![w] = Tail(@)]
      /\ Ran(w, i)
      /\ active' = active \ {w} /\ disp' = WarpDone(disp, w) /\ warp' = [warp EXCEPT ![w] = Retired]
      /\ failed' = (failed \/ disp.slot_rem[disp.slot_of[w]] = 0) /\ Reached(w, i)
      /\ kmu' = kmu /\ stalled' = stalled /\ stalled_next' = stalled_next /\ fetched' = fetched
      /\ out' = out /\ bars' = bars /\ tx' = tx
  BY DEF Exit, Processes, NonStalling
<1>3. Stalls(i)
  BY <1>2 DEF Stalls, NonStalling
<1>4. /\ i \in Pcs /\ Tail(pipe[w]) = <<>> /\ fetched[w] = 0 /\ w \in stalled_next /\ w \notin out
      /\ w \in active /\ r \in Warps /\ \A s \in Wids, b \in Bars : w \notin bars[s][b].wait_mask
  BY <1>2, <1>3, InUnit
<1>5. /\ warp \in [Wids -> Warps] /\ pipe \in [Wids -> Seq(Pcs)] /\ active \in SUBSET Wids
  BY <1>1 DEF Types
<1>6. warp' \in [Wids -> Warps] /\ warp'[w] = Retired /\ \A v \in Wids : v # w => warp'[v] = warp[v]
  BY <1>2, <1>5, FreshWarps
<1>7. /\ pipe' \in [Wids -> Seq(Pcs)] /\ pipe'[w] = <<>> /\ \A v \in Wids : v # w => pipe'[v] = pipe[v]
  BY <1>2, <1>4, <1>5
<1>8. /\ lane' \in [Wids -> [Threads -> Nat]] /\ \A v \in Wids : v # w => lane'[v] = lane[v]
  BY <1>1, <1>2, <1>4, RanFacts
<1>9. arrived' \in [Blocks -> [Pcs -> SUBSET Ranks]]
      /\ Fin' = WithRank(Fin, r.block, r.rank)
  <2>1. i = Len(Program)
    BY <1>2, <1>4, ProgramFacts
  <2> QED BY <1>2, <1>4, <2>1, ReachedFacts
<1>10. disp.slot_rem[disp.slot_of[w]] # 0 /\ DispOK(kmu, WarpDone(disp, w), active', warp', Fin')
  <2>1. Fin \in [Blocks -> SUBSET Ranks]
    <3>1. arrived \in [Blocks -> [Pcs -> SUBSET Ranks]] /\ Len(Program) \in Pcs
      BY <1>1, ProgramFacts DEF Types
    <3> QED BY <3>1 DEF Fin
  <2>2. r.block \in Blocks /\ r.rank \in Ranks /\ r.slot \in Wids
    BY <1>4 DEF Warps
  <2>3. \A v \in active : v # w => warp'[v] = warp[v]
    BY <1>5, <1>6
  <2>4. disp.slot_rem[disp.slot_of[w]] # 0 /\ DispOK(kmu, WarpDone(disp, w), active', warp', Fin')
    <3>2. active' \in SUBSET active /\ w \notin active' /\ \A v \in active : v = w \/ v \in active'
      BY <1>2
    <3>1. Fin' = WithRank(Fin, warp[w].block, warp[w].rank)
      BY <1>9
    <3> QED BY <1>1, <1>4, <1>5, <2>1, <2>2, <2>3, <3>1, <3>2, DoneOK
  <2> QED BY <2>4
<1>11. ~failed' /\ failed' \in BOOLEAN
  BY <1>1, <1>2, <1>10
<1>12. Types'
  <2>1. /\ active' \subseteq Wids /\ stalled' \subseteq Wids /\ stalled_next' \subseteq Wids
        /\ out' \subseteq Wids /\ fetched' \in [Wids -> 0..Len(Program)]
    BY <1>1, <1>2 DEF Types
  <2>2. /\ bars' \in [Wids -> [Bars -> BarRecs]] /\ tx' \subseteq Transfers /\ IsFiniteSet(tx')
    BY <1>1, <1>2 DEF Types
  <2> QED BY <1>6, <1>7, <1>8, <1>9, <1>11, <2>1, <2>2 DEF Types
<1>13. Sizes'
  <2>1. Retired.pc \in 1..(Len(Program) + 1) /\ Len(Retired.stack) <= NumThreads - 1
    <3>1. Len(<<>>) = 0
      OBVIOUS
    <3> QED BY <3>1, FreshWarps, ProgramFacts, SizeFacts
  <2> QED BY <1>1, <1>6, <2>1 DEF Sizes
<1>14. DispOK(kmu, disp, active, warp, Fin)'
  BY <1>2, <1>10
<1>15. Flow(w)'
  <2>1. InOrder(<<>>) /\ ~Blocked(<<>>)
    BY DEF InOrder, Blocked
  <2> QED BY <1>2, <1>4, <1>7, <2>1 DEF Flow
<1>16. ASSUME NEW v \in Wids PROVE Flow(v)'
  <2>1. CASE v # w
    <3>1. Flow(v) /\ (v \in active' <=> v \in active)
      BY <1>1, <1>2, <2>1 DEF Flows
    <3> QED BY <1>2, <1>6, <1>7, <1>8, <2>1, <3>1, FlowSame
  <2> QED BY <1>15, <2>1
<1>17. Flows'
  BY <1>1, <1>2, <1>16 DEF Flows
<1>18. Waiters'
  <2>1. ASSUME NEW s \in Wids, NEW b \in Bars, NEW v \in bars[s][b].wait_mask PROVE Held(v)'
    <3>1. Held(v) /\ v \in Wids
      BY <1>1 DEF Waiters, Types, BarRecs
    <3>2. v # w
      BY <1>4
    <3> QED BY <1>2, <1>7, <3>1, <3>2 DEF Held
  <2> QED BY <1>1, <1>2, <2>1, WaitersKeep
<1>19. Events'
  BY <1>1, <1>2, EventsKeep
<1> QED BY <1>11, <1>12, <1>13, <1>14, <1>17, <1>18, <1>19 DEF IInv
-----------------------------------------------------------------------------
(***************************************************************************)
(* Barriers.                                                               *)
(***************************************************************************)
(* One barrier is set to x.                                                *)
BarsWith(s, b, x) == [bars EXCEPT ![s][b] = x]

(* The others stay as they are.                                            *)
LEMMA BarSet ==
  ASSUME IInv, NEW s \in Wids, NEW b \in Bars, NEW x \in BarRecs,
         bars' = BarsWith(s, b, x)
  PROVE  /\ bars' \in [Wids -> [Bars -> BarRecs]] /\ bars'[s][b] = x
         /\ \A t \in Wids, c \in Bars : ~(t = s /\ c = b) => bars'[t][c] = bars[t][c]
BY DEF IInv, Types, BarsWith

(* A stalled warp that waits nowhere.                                      *)
MayWait(w) == /\ w \in active /\ w \in stalled_next
              /\ \A t \in Wids, c \in Bars : w \notin bars[t][c].wait_mask

(* Arrival at a barrier, where the warps of ws, w or none, will wait.      *)
ArriveBy(w, i, ws) ==
  LET s == warp[w].slot
      b == Program[i].bar
      r == [bars[s][b] EXCEPT !.wait_mask = @ \cup ws]
      woken == IF Completes(r) THEN r.wait_mask ELSE {}
      after == IF Completes(r) THEN Opened(r) ELSE r
  IN /\ bars' = [bars EXCEPT ![s][b] = [after EXCEPT !.count = Counted(r)]]
     /\ stalled_next' = stalled_next \ woken
     /\ failed' = (failed \/ ResumeFails(woken))
     /\ Reached(w, i)

(* Barrier b of slot s has one arrival more, the others are as before.     *)
OneMore(s, b, ws) ==
  /\ \A t \in Wids, c \in Bars : (t = s /\ c = b) \/ bars'[t][c] = bars[t][c]
  /\ bars'[s][b].count = (bars[s][b].count + 1) % CtaSize
  /\ bars'[s][b].wait_mask = IF Completes(bars[s][b]) THEN {} ELSE bars[s][b].wait_mask \cup ws

(* It wakes only warps held there, and no other barrier is touched.        *)
LEMMA ArriveFacts ==
  ASSUME IInv, NEW w \in Wids, NEW i \in Pcs, NEW ws \in SUBSET {w}, ArriveBy(w, i, ws),
         \A v \in ws : MayWait(v)
  PROVE  /\ bars' \in [Wids -> [Bars -> BarRecs]] /\ ~failed' /\ failed' \in BOOLEAN
         /\ Reached(w, i) /\ stalled_next' \subseteq stalled_next
         /\ \A v \in stalled_next : v \notin stalled_next' => Held(v) \/ v \in ws
         /\ \A t \in Wids, c \in Bars :
              /\ bars'[t][c].events = bars[t][c].events
              /\ \A v \in bars'[t][c].wait_mask :
                   /\ v \in stalled_next'
                   /\ v \in bars[t][c].wait_mask
                      \/ (v \in ws /\ t = warp[w].slot /\ c = Program[i].bar)
         /\ OneMore(warp[w].slot, Program[i].bar, ws)
<1> DEFINE s == warp[w].slot
           b == Program[i].bar
           x == bars[s][b]
           r == [x EXCEPT !.wait_mask = @ \cup ws]
           woken == IF Completes(r) THEN r.wait_mask ELSE {}
           after == IF Completes(r) THEN Opened(r) ELSE r
           y == [after EXCEPT !.count = Counted(r)]
<1>1. /\ bars' = [bars EXCEPT ![s][b] = y] /\ stalled_next' = stalled_next \ woken
      /\ failed' = (failed \/ ResumeFails(woken)) /\ Reached(w, i)
  BY DEF ArriveBy
<1>2. Types /\ Waiters /\ ~failed
  BY DEF IInv
<1>3. s \in Wids /\ b \in Bars /\ x \in BarRecs
  <2>1. s \in Wids
    BY <1>2 DEF Types, Warps
  <2>2. b \in Bars
    BY ProgramFacts
  <2> QED BY <1>2, <2>1, <2>2 DEF Types
<1> HIDE DEF s, b, x
<1> DEFINE m == x.wait_mask \cup ws
<1>4. /\ r \in BarRecs /\ r.wait_mask = m /\ r.events = x.events
      /\ r.count = x.count /\ (Completes(r) <=> Completes(x))
  <2>1. m \in SUBSET Wids
    BY <1>3 DEF BarRecs
  <2>2. r = [x EXCEPT !.wait_mask = m]
    BY <1>3
  <2> HIDE DEF m, r
  <2>3. r \in BarRecs /\ r.wait_mask = m /\ r.events = x.events /\ r.count = x.count
    BY <1>3, <2>1, <2>2 DEF BarRecs
  <2> QED BY <2>3 DEF Completes
<1> HIDE DEF r
<1>5. after \in BarRecs /\ after.wait_mask = (IF Completes(r) THEN {} ELSE m) /\ after.events = x.events
  <2>1. CASE Completes(r)
    <3>1. Opened(r) = [r EXCEPT !.wait_mask = {}, !.phase = r.phase + 1]
      BY DEF Opened
    <3>2. Opened(r) \in BarRecs /\ Opened(r).wait_mask = {} /\ Opened(r).events = r.events
      <4> DEFINE p == r.phase + 1
      <4>1. p \in Nat
        BY <1>4 DEF BarRecs
      <4> HIDE DEF p
      <4>2. Opened(r) = [r EXCEPT !.wait_mask = {}, !.phase = p]
        BY <3>1 DEF p
      <4> QED BY <1>4, <4>1, <4>2 DEF BarRecs
    <3> QED BY <1>4, <2>1, <3>2
  <2>2. CASE ~Completes(r)
    BY <1>4, <2>2
  <2> QED BY <2>1, <2>2
<1> HIDE DEF after
<1>6. /\ y \in BarRecs /\ y.wait_mask = (IF Completes(r) THEN {} ELSE m) /\ y.events = x.events
      /\ y.count = (x.count + 1) % CtaSize
  <2>1. Counted(r) \in Ranks
    <3>1. r.count \in Ranks
      BY <1>4 DEF BarRecs
    <3>2. CtaSize \in Nat /\ CtaSize >= 1 /\ r.count + 1 \in Nat
      BY <3>1, CtaFacts DEF Ranks
    <3>3. ((r.count + 1) % CtaSize) \in Nat /\ ((r.count + 1) % CtaSize) < CtaSize
      BY <3>2, DivMod
    <3> QED BY <3>2, <3>3 DEF Counted, Ranks
  <2> DEFINE c == Counted(r)
  <2>2. c \in Ranks /\ y = [after EXCEPT !.count = c]
    BY <2>1
  <2> HIDE DEF c, y
  <2>3. y \in BarRecs /\ y.wait_mask = after.wait_mask /\ y.events = after.events /\ y.count = c
    BY <1>5, <2>2 DEF BarRecs
  <2>4. c = (x.count + 1) % CtaSize
    BY <1>4 DEF c, Counted
  <2> QED BY <1>5, <2>3, <2>4
<1> HIDE DEF y
<1>7. /\ bars' \in [Wids -> [Bars -> BarRecs]] /\ bars'[s][b] = y
      /\ \A t \in Wids, c \in Bars : ~(t = s /\ c = b) => bars'[t][c] = bars[t][c]
  <2>1. bars' = BarsWith(s, b, y)
    BY <1>1 DEF BarsWith
  <2> QED BY <1>3, <1>6, <2>1, BarSet
<1>8. \A v \in x.wait_mask : Held(v)
  BY <1>2, <1>3 DEF Waiters, x
<1>9. m \subseteq active \cap stalled_next
  BY <1>8 DEF Held, MayWait
<1>10. woken \subseteq m /\ (Completes(r) => woken = m) /\ (~Completes(r) => woken = {})
  BY <1>4
<1> HIDE DEF woken, m
<1>11. ~failed' /\ failed' \in BOOLEAN
  BY <1>1, <1>2, <1>9, <1>10 DEF ResumeFails
<1>12. ASSUME NEW v \in stalled_next, v \notin stalled_next' PROVE Held(v) \/ v \in ws
  BY <1>1, <1>8, <1>10, <1>12 DEF m
<1>13. ASSUME NEW t \in Wids, NEW c \in Bars
       PROVE  /\ bars'[t][c].events = bars[t][c].events
              /\ \A v \in bars'[t][c].wait_mask :
                   /\ v \in stalled_next'
                   /\ v \in bars[t][c].wait_mask \/ (v \in ws /\ t = s /\ c = b)
  <2>1. CASE t = s /\ c = b
    <3>1. bars'[t][c].events = bars[t][c].events
      BY <1>6, <1>7, <2>1 DEF x
    <3>2. ASSUME NEW v \in bars'[t][c].wait_mask
          PROVE  v \in stalled_next' /\ (v \in bars[t][c].wait_mask \/ v \in ws)
      <4>1. ~Completes(r) /\ v \in m
        BY <1>6, <1>7, <2>1
      <4>2. v \in stalled_next'
        BY <1>1, <1>9, <1>10, <4>1
      <4> QED BY <2>1, <4>1, <4>2 DEF m, x
    <3> QED BY <2>1, <3>1, <3>2
  <2>2. CASE ~(t = s /\ c = b)
    <3>1. bars'[t][c] = bars[t][c]
      BY <1>7, <2>2
    <3>2. ASSUME NEW v \in bars[t][c].wait_mask PROVE v \in stalled_next'
      <4>1. Held(v)
        BY <1>2 DEF Waiters
      <4>2. v \notin x.wait_mask
        BY <1>2, <1>3, <2>2 DEF Waiters, x
      <4>3. v \notin m
        BY <4>2 DEF m, MayWait
      <4> QED BY <1>1, <1>10, <4>1, <4>3 DEF Held
    <3> QED BY <3>1, <3>2
  <2> QED BY <2>1, <2>2
<1>14. /\ bars'[s][b].count = (bars[s][b].count + 1) % CtaSize
       /\ bars'[s][b].wait_mask = IF Completes(bars[s][b]) THEN {} ELSE bars[s][b].wait_mask \cup ws
  BY <1>4, <1>6, <1>7 DEF m, x
<1>15. OneMore(s, b, ws)
  BY <1>7, <1>14 DEF OneMore
<1> QED BY <1>1, <1>7, <1>11, <1>12, <1>13, <1>15 DEF s, b


(* The unit is done with an instruction that does not stall.               *)
LEMMA UnitGoesOn ==
  ASSUME IInv, NEW w \in Wids, NEW op \in NonStalling, Processes(w, op),
         fetched' = fetched, active' = active, out' = out,
         warp'[w].pc = warp[w].pc, warp'[w].tmask = warp[w].tmask,
         warp'[w].stack = warp[w].stack, warp'[w].sp = warp[w].sp, warp'[w].rank = warp[w].rank,
         (w \in stalled_next' <=> w \in stalled_next) \/ Held(w)
  PROVE  /\ pipe[w] # <<>> /\ Head(pipe[w]) \in Pcs /\ Program[Head(pipe[w])].op = op
         /\ w \in active /\ warp[w] \in Warps
         /\ pipe' \in [Wids -> Seq(Pcs)] /\ lane' = lane
         /\ \A v \in Wids : v # w => pipe'[v] = pipe[v]
         /\ Blocked(pipe'[w]) <=> Blocked(pipe[w])
         /\ Flow(w)'
<1> DEFINE i == Head(pipe[w])
           p == Tail(pipe[w])
<1>1. /\ pipe[w] # <<>> /\ Program[i].op = op /\ pipe' = [pipe EXCEPT ![w] = p] /\ lane' = lane
  BY DEF Processes
<1>2. ~Stalls(i)
  BY <1>1 DEF Stalls
<1>3. /\ i \in Pcs /\ p \in Seq(Pcs) /\ InOrder(p) /\ w \in active /\ warp[w] \in Warps
      /\ Blocked(p) <=> Blocked(pipe[w])
      /\ Blocked(pipe[w]) => p[Len(p)] = pipe[w][Len(pipe[w])]
  BY <1>1, <1>2, InUnit
<1>4. pipe \in [Wids -> Seq(Pcs)] /\ Flow(w)
  BY DEF IInv, Types, Flows
<1> HIDE DEF p
<1>5. pipe' \in [Wids -> Seq(Pcs)] /\ pipe'[w] = p /\ \A v \in Wids : v # w => pipe'[v] = pipe[v]
  BY <1>1, <1>3, <1>4
<1>6. WarpOK(warp[w], Pos(pipe[w], warp[w].pc), lane[w]) /\ (Blocked(pipe[w]) \/ warp[w].pc \in Pcs)
  BY <1>3, <1>4 DEF Flow
<1>7. Pos(p, warp'[w].pc) = Pos(pipe[w], warp[w].pc)
  BY <1>3 DEF Pos
<1>8. WarpOK(warp'[w], Pos(pipe'[w], warp'[w].pc), lane'[w])
  <2>1. WarpOK(warp'[w], Pos(pipe[w], warp[w].pc), lane[w])
    BY <1>6, SameWarp
  <2> QED BY <1>1, <1>5, <1>7, <2>1
<1>9. Flow(w)'
  <2>1. Blocked(pipe'[w]) => /\ w \in stalled_next' /\ w \notin out'
                             /\ warp'[w].pc = pipe'[w][Len(pipe'[w])] + 1
    BY <1>3, <1>4, <1>5 DEF Flow, Held
  <2>2. fetched'[w] # 0 => /\ w \in active' /\ w \in stalled_next' /\ w \notin out'
                           /\ fetched'[w] = warp'[w].pc /\ ~Blocked(pipe'[w])
    BY <1>3, <1>4, <1>5 DEF Flow, Held
  <2>3. w \in out' => w \in active' /\ w \in stalled_next'
    BY <1>3, <1>4 DEF Flow, Held
  <2>4. InOrder(pipe'[w]) /\ w \in active' /\ (Blocked(pipe'[w]) \/ warp'[w].pc \in Pcs)
    BY <1>3, <1>5, <1>6
  <2> QED BY <1>8, <2>1, <2>2, <2>3, <2>4 DEF Flow
<1> QED BY <1>1, <1>3, <1>5, <1>9

(* The token of an arrival.                                                *)
LEMMA BarArriveOK ==
  ASSUME IInv, NEW w \in Wids, BarArrive(w)
  PROVE  IInv'
<1> DEFINE i == Head(pipe[w])
           b == Program[i].bar
           tok == bars[warp[w].slot][b].phase % 2
           r2 == [warp[w] EXCEPT !.token[b] = tok]
<1>1. Types /\ Sizes /\ ~failed /\ Flows /\ Waiters /\ Events
  BY DEF IInv
<1>2. /\ Processes(w, "arrive") /\ Arrive(w, i, FALSE)
      /\ warp' = [warp EXCEPT ![w].token[b] = tok]
      /\ kmu' = kmu /\ disp' = disp /\ active' = active /\ stalled' = stalled
      /\ fetched' = fetched /\ out' = out /\ tx' = tx
  BY DEF BarArrive
<1>3. pipe[w] # <<>> /\ Program[i].op = "arrive"
  BY <1>2 DEF Processes
<1>4. i \in Pcs /\ b \in Bars /\ warp[w] \in Warps /\ i # Len(Program)
  <2>1. i \in Pcs /\ warp[w] \in Warps
    BY <1>3, InUnit
  <2> QED BY <1>3, <2>1, ProgramFacts, NotLast
<1>5. /\ bars' \in [Wids -> [Bars -> BarRecs]] /\ ~failed' /\ failed' \in BOOLEAN
      /\ Reached(w, i) /\ stalled_next' \subseteq stalled_next
      /\ \A v \in stalled_next : v \notin stalled_next' => Held(v)
      /\ \A t \in Wids, c \in Bars :
           /\ bars'[t][c].events = bars[t][c].events
           /\ \A v \in bars'[t][c].wait_mask : v \in stalled_next' /\ v \in bars[t][c].wait_mask
  <2>1. ArriveBy(w, i, {}) /\ i \in Pcs /\ {} \in SUBSET {w} /\ \A v \in {} : MayWait(v)
    BY <1>2, <1>4 DEF Arrive, ArriveBy
  <2> HIDE DEF i
  <2> QED BY <2>1, ArriveFacts
<1>6. arrived' \in [Blocks -> [Pcs -> SUBSET Ranks]] /\ Fin' = Fin
  BY <1>4, <1>5, ReachedFacts
<1>7. /\ r2 \in Warps /\ r2.pc = warp[w].pc /\ r2.tmask = warp[w].tmask
      /\ r2.stack = warp[w].stack /\ r2.sp = warp[w].sp /\ r2.rank = warp[w].rank
      /\ r2.block = warp[w].block /\ r2.slot = warp[w].slot /\ r2.tid = warp[w].tid
  <2>1. tok \in Nat
    <3>1. bars[warp[w].slot][b].phase \in Nat
      <4>1. warp[w].slot \in Wids
        BY <1>4 DEF Warps
      <4>2. bars[warp[w].slot][b] \in BarRecs
        BY <1>1, <1>4, <4>1 DEF Types
      <4> QED BY <4>2 DEF BarRecs
    <3> QED BY <3>1
  <2> HIDE DEF tok, b
  <2> QED BY <1>4, <2>1 DEF Warps
<1>8. warp' = [warp EXCEPT ![w] = r2] /\ warp \in [Wids -> Warps]
  BY <1>1, <1>2 DEF Types
<1> HIDE DEF r2
<1>9. warp' \in [Wids -> Warps] /\ warp'[w] = r2 /\ \A v \in Wids : v # w => warp'[v] = warp[v]
  BY <1>7, <1>8
<1>10. \A v \in Wids : (v \in stalled_next' <=> v \in stalled_next) \/ Held(v)
  BY <1>5
<1>11. /\ pipe' \in [Wids -> Seq(Pcs)] /\ lane' = lane /\ Flow(w)'
       /\ \A v \in Wids : v # w => pipe'[v] = pipe[v]
       /\ Blocked(pipe'[w]) <=> Blocked(pipe[w])
  <2>1. "arrive" \in NonStalling
    BY DEF NonStalling
  <2> QED BY <1>2, <1>7, <1>9, <1>10, <2>1, UnitGoesOn
<1>12. Types'
  <2>1. /\ active' \subseteq Wids /\ stalled' \subseteq Wids /\ stalled_next' \subseteq Wids
        /\ out' \subseteq Wids /\ fetched' \in [Wids -> 0..Len(Program)]
        /\ tx' \subseteq Transfers /\ IsFiniteSet(tx') /\ lane' \in [Wids -> [Threads -> Nat]]
    BY <1>1, <1>2, <1>5, <1>11 DEF Types
  <2> QED BY <1>5, <1>6, <1>9, <1>11, <2>1 DEF Types
<1>13. Sizes'
  BY <1>1, <1>7, <1>9 DEF Sizes
<1>14. DispOK(kmu, disp, active, warp, Fin)'
  <2>1. \A v \in Wids : /\ warp'[v].block = warp[v].block /\ warp'[v].rank = warp[v].rank
                        /\ warp'[v].slot = warp[v].slot /\ warp'[v].tid = warp[v].tid
    BY <1>7, <1>9
  <2> QED BY <1>2, <1>6, <2>1, DispKeep
<1>15. ASSUME NEW v \in Wids PROVE Flow(v)'
  <2>1. CASE v # w
    <3>1. Flow(v)
      BY <1>1 DEF Flows
    <3> QED BY <1>2, <1>9, <1>10, <1>11, <2>1, <3>1, FlowSame
  <2> QED BY <1>11, <2>1
<1>16. Flows'
  BY <1>1, <1>2, <1>5, <1>15 DEF Flows
<1>17. Waiters'
  <2>1. ASSUME NEW t \in Wids, NEW c \in Bars, NEW v \in bars'[t][c].wait_mask PROVE Held(v)'
    <3>1. Held(v) /\ v \in Wids /\ v \in stalled_next'
      BY <1>1, <1>5 DEF Waiters, Types, BarRecs
    <3>2. ~Blocked(pipe'[v])
      BY <1>11, <3>1 DEF Held
    <3> QED BY <1>2, <3>1, <3>2 DEF Held
  <2>2. \A t \in Wids, c \in Bars : bars'[t][c].wait_mask \subseteq bars[t][c].wait_mask
    BY <1>5
  <2> QED BY <1>1, <2>1, <2>2, WaitersKeep
<1>18. Events'
  BY <1>1, <1>2, <1>5, EventsKeep
<1> QED BY <1>5, <1>12, <1>13, <1>14, <1>16, <1>17, <1>18 DEF IInv

(* A stalled warp w that stays at a barrier, or is let past it.            *)
LEMMA StalledUnit ==
  ASSUME IInv, NEW w \in Wids, NEW op, op \notin NonStalling \cup {"exit", "split", "join"},
         Processes(w, op), fetched' = fetched, active' = active, warp' = warp,
         w \in out' => w \in stalled_next'
  PROVE  /\ Head(pipe[w]) \in Pcs /\ Program[Head(pipe[w])].op = op
         /\ w \in active /\ fetched[w] = 0 /\ w \in stalled_next /\ w \notin out
         /\ pipe' \in [Wids -> Seq(Pcs)] /\ lane' \in [Wids -> [Threads -> Nat]]
         /\ \A v \in Wids : v # w => pipe'[v] = pipe[v] /\ lane'[v] = lane[v]
         /\ ~Blocked(pipe'[w]) /\ Flow(w)'
         /\ \A s \in Wids, b \in Bars : w \notin bars[s][b].wait_mask
<1> DEFINE i == Head(pipe[w])
<1>1. /\ pipe[w] # <<>> /\ Program[i].op = op /\ pipe' = [pipe EXCEPT ![w] = Tail(@)] /\ Ran(w, i)
  BY DEF Processes
<1>2. Stalls(i)
  BY <1>1 DEF Stalls
<1>3. /\ i \in Pcs /\ Tail(pipe[w]) = <<>> /\ fetched[w] = 0 /\ w \in stalled_next /\ w \notin out
      /\ w \in active /\ warp[w] \in Warps /\ warp[w].pc = i + 1 /\ WarpOK(warp[w], i, lane[w])
      /\ \A s \in Wids, b \in Bars : w \notin bars[s][b].wait_mask
  BY <1>1, <1>2, InUnit
<1>4. Types
  BY DEF IInv
<1>5. /\ pipe' \in [Wids -> Seq(Pcs)] /\ pipe'[w] = <<>> /\ \A v \in Wids : v # w => pipe'[v] = pipe[v]
  BY <1>1, <1>3, <1>4 DEF Types
<1>6. /\ lane' \in [Wids -> [Threads -> Nat]] /\ \A v \in Wids : v # w => lane'[v] = lane[v]
      /\ lane'[w] = RanTo(warp[w], i + 1, lane[w])
  BY <1>1, <1>3, <1>4, RanFacts
<1>7. i + 1 \in Pcs /\ Program[i].op \notin {"split", "join"}
  BY <1>1, <1>3, NotLast
<1>8. WarpOK(warp[w], i + 1, lane'[w])
  <2>1. WarpOK(warp[w], i + 1, RanTo(warp[w], i + 1, lane[w]))
    BY <1>3, <1>7, RunStraight
  <2> QED BY <1>6, <2>1
<1>9. ~Blocked(pipe'[w]) /\ InOrder(pipe'[w])
  <2>1. InOrder(<<>>) /\ ~Blocked(<<>>)
    BY DEF InOrder, Blocked
  <2> QED BY <1>5, <2>1
<1>10. Flow(w)'
  <2>1. WarpOK(warp'[w], warp'[w].pc, lane'[w]) /\ warp'[w].pc \in Pcs
    BY <1>3, <1>7, <1>8
  <2> QED BY <1>3, <1>5, <1>9, <2>1 DEF Flow, Pos
<1> QED BY <1>1, <1>3, <1>5, <1>6, <1>9, <1>10


(* A warp comes to a barrier, and waits there or opens it.                 *)
LEMMA BarSyncOK ==
  ASSUME IInv, NEW w \in Wids, BarSync(w)
  PROVE  IInv'
<1> DEFINE i == Head(pipe[w])
<1>1. Types /\ Sizes /\ ~failed /\ Flows /\ Waiters /\ Events
  BY DEF IInv
<1>2. /\ Processes(w, "sync") /\ Arrive(w, i, TRUE)
      /\ kmu' = kmu /\ disp' = disp /\ active' = active /\ stalled' = stalled /\ warp' = warp
      /\ fetched' = fetched /\ out' = out /\ tx' = tx
  BY DEF BarSync
<1>3. /\ i \in Pcs /\ Program[i].op = "sync"
      /\ w \in active /\ fetched[w] = 0 /\ w \in stalled_next /\ w \notin out
      /\ pipe' \in [Wids -> Seq(Pcs)] /\ lane' \in [Wids -> [Threads -> Nat]]
      /\ \A v \in Wids : v # w => pipe'[v] = pipe[v] /\ lane'[v] = lane[v]
      /\ ~Blocked(pipe'[w]) /\ Flow(w)'
      /\ \A s \in Wids, b \in Bars : w \notin bars[s][b].wait_mask
  <2>1. "sync" \notin NonStalling \cup {"exit", "split", "join"}
    BY DEF NonStalling
  <2>2. pipe[w] # <<>> /\ Stalls(i)
    BY <1>2 DEF Processes, Stalls, NonStalling
  <2>3. w \notin out
    BY <2>2, InUnit
  <2>4. w \in out' => w \in stalled_next'
    BY <1>2, <2>3
  <2> QED BY <1>2, <2>1, <2>4, StalledUnit
<1>4. /\ bars' \in [Wids -> [Bars -> BarRecs]] /\ ~failed' /\ failed' \in BOOLEAN
      /\ Reached(w, i) /\ stalled_next' \subseteq stalled_next
      /\ \A v \in stalled_next : v \notin stalled_next' => Held(v) \/ v = w
      /\ \A t \in Wids, c \in Bars :
           /\ bars'[t][c].events = bars[t][c].events
           /\ \A v \in bars'[t][c].wait_mask :
                /\ v \in stalled_next'
                /\ v \in bars[t][c].wait_mask \/ (v = w /\ t = warp[w].slot /\ c = Program[i].bar)
  <2>1. MayWait(w)
    BY <1>3 DEF MayWait
  <2>2. ArriveBy(w, i, {w}) /\ i \in Pcs /\ {w} \in SUBSET {w} /\ \A v \in {w} : MayWait(v)
    BY <1>2, <1>3, <2>1 DEF Arrive, ArriveBy
  <2> HIDE DEF i
  <2> QED BY <2>2, ArriveFacts
<1>5. arrived' \in [Blocks -> [Pcs -> SUBSET Ranks]] /\ Fin' = Fin
  <2>1. i # Len(Program)
    BY <1>3, NotLast
  <2> QED BY <1>3, <1>4, <2>1, ReachedFacts
<1>6. Types'
  <2>1. /\ active' \subseteq Wids /\ stalled' \subseteq Wids /\ stalled_next' \subseteq Wids
        /\ out' \subseteq Wids /\ fetched' \in [Wids -> 0..Len(Program)] /\ warp' \in [Wids -> Warps]
        /\ tx' \subseteq Transfers /\ IsFiniteSet(tx')
    BY <1>1, <1>2, <1>4 DEF Types
  <2> QED BY <1>3, <1>4, <1>5, <2>1 DEF Types
<1>7. Sizes'
  BY <1>1, <1>2 DEF Sizes
<1>8. DispOK(kmu, disp, active, warp, Fin)'
  BY <1>2, <1>5, DispKeep
<1>9. ASSUME NEW v \in Wids PROVE Flow(v)'
  <2>1. CASE v # w
    <3>1. Flow(v) /\ ((v \in stalled_next' <=> v \in stalled_next) \/ Held(v))
      BY <1>1, <1>4, <2>1 DEF Flows
    <3> QED BY <1>2, <1>3, <2>1, <3>1, FlowSame
  <2> QED BY <1>3, <2>1
<1>10. Flows'
  BY <1>1, <1>2, <1>4, <1>9 DEF Flows
<1>11. Waiters'
  <2>1. ASSUME NEW t \in Wids, NEW c \in Bars, NEW v \in bars'[t][c].wait_mask PROVE Held(v)'
    <3>1. v \in stalled_next'
      BY <1>4
    <3>2. CASE v = w
      BY <1>2, <1>3, <3>1, <3>2 DEF Held
    <3>3. CASE v # w
      <4>1. v \in bars[t][c].wait_mask
        BY <1>4, <3>3
      <4>2. Held(v) /\ v \in Wids
        BY <1>1, <4>1 DEF Waiters, Types, BarRecs
      <4> QED BY <1>2, <1>3, <3>1, <3>3, <4>2 DEF Held
    <3> QED BY <3>2, <3>3
  <2>2. ASSUME NEW s \in Wids, NEW t \in Wids, NEW b \in Bars, NEW c \in Bars,
               NEW v \in bars'[s][b].wait_mask, v \in bars'[t][c].wait_mask
        PROVE  s = t /\ b = c
    <3>1. CASE v = w
      <4>1. \A u \in Wids, d \in Bars :
              w \in bars'[u][d].wait_mask => u = warp[w].slot /\ d = Program[i].bar
        BY <1>3, <1>4
      <4> QED BY <2>2, <3>1, <4>1
    <3>2. CASE v # w
      <4>1. v \in bars[s][b].wait_mask /\ v \in bars[t][c].wait_mask
        BY <1>4, <2>2, <3>2
      <4> QED BY <1>1, <4>1 DEF Waiters
    <3> QED BY <3>1, <3>2
  <2> QED BY <2>1, <2>2 DEF Waiters
<1>12. Events'
  BY <1>1, <1>2, <1>4, EventsKeep
<1> QED BY <1>4, <1>6, <1>7, <1>8, <1>10, <1>11, <1>12 DEF IInv

(* A warp waits for a phase, or goes on at once.                           *)
LEMMA BarWaitOK ==
  ASSUME IInv, NEW w \in Wids, BarWait(w)
  PROVE  IInv'
<1> DEFINE i == Head(pipe[w])
           s == warp[w].slot
           b == Program[i].bar
           x == bars[s][b]
           y == [x EXCEPT !.wait_mask = @ \cup {w}]
<1>1. Types /\ Sizes /\ ~failed /\ Flows /\ Waiters /\ Events
  BY DEF IInv
<1>2. /\ Processes(w, "wait")
      /\ \/ bars' = [bars EXCEPT ![s][b].wait_mask = @ \cup {w}] /\ out' = out
         \/ out' = out \cup {w} /\ bars' = bars
      /\ kmu' = kmu /\ disp' = disp /\ active' = active /\ stalled' = stalled /\ warp' = warp
      /\ stalled_next' = stalled_next /\ fetched' = fetched /\ tx' = tx /\ failed' = failed
      /\ arrived' = arrived
  BY DEF BarWait, Release
<1>3. /\ i \in Pcs /\ Program[i].op = "wait"
      /\ w \in active /\ fetched[w] = 0 /\ w \in stalled_next /\ w \notin out
      /\ pipe' \in [Wids -> Seq(Pcs)] /\ lane' \in [Wids -> [Threads -> Nat]]
      /\ \A v \in Wids : v # w => pipe'[v] = pipe[v] /\ lane'[v] = lane[v]
      /\ ~Blocked(pipe'[w]) /\ Flow(w)'
      /\ \A t \in Wids, c \in Bars : w \notin bars[t][c].wait_mask
  <2>1. "wait" \notin NonStalling \cup {"exit", "split", "join"}
    BY DEF NonStalling
  <2>2. pipe[w] # <<>> /\ Stalls(i)
    BY <1>2 DEF Processes, Stalls, NonStalling
  <2>3. w \in stalled_next
    BY <2>2, InUnit
  <2>4. w \in out' => w \in stalled_next'
    BY <1>2, <2>3
  <2> QED BY <1>2, <2>1, <2>4, StalledUnit
<1>4. s \in Wids /\ b \in Bars /\ x \in BarRecs
  <2>1. s \in Wids
    BY <1>1 DEF Types, Warps
  <2>2. b \in Bars
    BY <1>3, ProgramFacts
  <2> QED BY <1>1, <2>1, <2>2 DEF Types
<1>5. y \in BarRecs /\ y.wait_mask = x.wait_mask \cup {w} /\ y.events = x.events
  <2> HIDE DEF x
  <2> QED BY <1>4 DEF BarRecs
<1>6. bars' = [bars EXCEPT ![s][b] = y] \/ bars' = bars
  BY <1>2
<1>7. /\ bars' \in [Wids -> [Bars -> BarRecs]]
      /\ \A t \in Wids, c \in Bars :
           /\ bars'[t][c].events = bars[t][c].events
           /\ \A v \in bars'[t][c].wait_mask :
                v \in bars[t][c].wait_mask \/ (v = w /\ t = s /\ c = b)
      /\ w \in out' => bars' = bars
  <2>1. CASE bars' = bars
    BY <1>1, <2>1 DEF Types
  <2>2. CASE bars' # bars
    <3>1. bars' = [bars EXCEPT ![s][b] = y] /\ w \notin out'
      BY <1>2, <1>3, <1>6, <2>2
    <3> HIDE DEF s, b, x, y
    <3>2. /\ bars' \in [Wids -> [Bars -> BarRecs]] /\ bars'[s][b] = y
          /\ \A t \in Wids, c \in Bars : ~(t = s /\ c = b) => bars'[t][c] = bars[t][c]
      <4>1. bars' = BarsWith(s, b, y)
        BY <3>1 DEF BarsWith
      <4> QED BY <1>4, <1>5, <4>1, BarSet
    <3>3. ASSUME NEW t \in Wids, NEW c \in Bars
          PROVE  /\ bars'[t][c].events = bars[t][c].events
                 /\ \A v \in bars'[t][c].wait_mask :
                      v \in bars[t][c].wait_mask \/ (v = w /\ t = s /\ c = b)
      <4>1. CASE t = s /\ c = b
        BY <1>5, <3>2, <4>1 DEF x
      <4>2. CASE ~(t = s /\ c = b)
        BY <3>2, <4>2
      <4> QED BY <4>1, <4>2
    <3> QED BY <3>1, <3>2, <3>3 DEF s, b
  <2> QED BY <2>1, <2>2
<1> HIDE DEF s, b, y, x
<1>8. Types'
  <2>1. /\ active' \subseteq Wids /\ stalled' \subseteq Wids /\ stalled_next' \subseteq Wids
        /\ out' \subseteq Wids /\ fetched' \in [Wids -> 0..Len(Program)] /\ warp' \in [Wids -> Warps]
        /\ tx' \subseteq Transfers /\ IsFiniteSet(tx')
    BY <1>1, <1>2 DEF Types
  <2>2. arrived' \in [Blocks -> [Pcs -> SUBSET Ranks]] /\ failed' \in BOOLEAN
    BY <1>1, <1>2 DEF Types
  <2> QED BY <1>3, <1>7, <2>1, <2>2 DEF Types
<1>9. Sizes'
  BY <1>1, <1>2 DEF Sizes
<1>10. DispOK(kmu, disp, active, warp, Fin)'
  <2>1. Fin' = Fin
    BY <1>2 DEF Fin
  <2> QED BY <1>2, <2>1, DispKeep
<1>11. ASSUME NEW v \in Wids PROVE Flow(v)'
  <2>1. CASE v # w
    <3>1. Flow(v) /\ (v \in out' <=> v \in out)
      BY <1>1, <1>2, <2>1 DEF Flows
    <3> QED BY <1>2, <1>3, <2>1, <3>1, FlowSame
  <2> QED BY <1>3, <2>1
<1>12. Flows'
  BY <1>1, <1>2, <1>11 DEF Flows
<1>13. Waiters'
  <2>1. ASSUME NEW t \in Wids, NEW c \in Bars, NEW v \in bars'[t][c].wait_mask PROVE Held(v)'
    <3>1. CASE v = w
      <4>1. w \notin out'
        BY <1>3, <1>7, <3>1
      <4> QED BY <1>2, <1>3, <3>1, <4>1 DEF Held
    <3>2. CASE v # w
      <4>1. v \in bars[t][c].wait_mask
        BY <1>7, <3>2
      <4>2. Held(v) /\ v \in Wids
        BY <1>1, <4>1 DEF Waiters, Types, BarRecs
      <4> QED BY <1>2, <1>3, <3>2, <4>2 DEF Held
    <3> QED BY <3>1, <3>2
  <2>2. ASSUME NEW t \in Wids, NEW u \in Wids, NEW c \in Bars, NEW d \in Bars,
               NEW v \in bars'[t][c].wait_mask, v \in bars'[u][d].wait_mask
        PROVE  t = u /\ c = d
    <3>1. CASE v = w
      <4>1. \A e \in Wids, f \in Bars : w \in bars'[e][f].wait_mask => e = s /\ f = b
        BY <1>3, <1>7
      <4> QED BY <2>2, <3>1, <4>1
    <3>2. CASE v # w
      <4>1. v \in bars[t][c].wait_mask /\ v \in bars[u][d].wait_mask
        BY <1>7, <2>2, <3>2
      <4> QED BY <1>1, <4>1 DEF Waiters
    <3> QED BY <3>1, <3>2
  <2> QED BY <2>1, <2>2 DEF Waiters
<1>14. Events'
  BY <1>1, <1>2, <1>7, EventsKeep
<1> QED BY <1>1, <1>2, <1>8, <1>9, <1>10, <1>12, <1>13, <1>14 DEF IInv


(* Transfers are finitely many.                                            *)
LEMMA TxFacts ==
  ASSUME NEW X, X \subseteq Transfers, IsFiniteSet(X), NEW s, NEW b
  PROVE  IsFiniteSet(TxOf(X, s, b)) /\ Cardinality(TxOf(X, s, b)) \in Nat
<1>1. TxOf(X, s, b) \subseteq X
  BY DEF TxOf
<1> QED BY <1>1, FS_Subset, FS_CardinalityType

(* A transfer is expected.                                                 *)
LEMMA BarExpectOK ==
  ASSUME IInv, NEW w \in Wids, BarExpect(w)
  PROVE  IInv'
<1> DEFINE i == Head(pipe[w])
           s == warp[w].slot
           b == Program[i].bar
           x == bars[s][b]
           y == [x EXCEPT !.events = @ + 1]
           e == [slot |-> s, bar |-> b, pc |-> i]
<1>1. Types /\ Sizes /\ ~failed /\ Flows /\ Waiters /\ Events
  BY DEF IInv
<1>2. /\ Processes(w, "expect") /\ bars' = [bars EXCEPT ![s][b].events = @ + 1]
      /\ tx' = tx \cup {e}
      /\ kmu' = kmu /\ disp' = disp /\ active' = active /\ stalled' = stalled /\ warp' = warp
      /\ stalled_next' = stalled_next /\ fetched' = fetched /\ out' = out /\ failed' = failed
      /\ arrived' = arrived
  BY DEF BarExpect
<1>3. /\ i \in Pcs /\ warp[w] \in Warps
      /\ pipe' \in [Wids -> Seq(Pcs)] /\ lane' = lane /\ Flow(w)'
      /\ \A v \in Wids : v # w => pipe'[v] = pipe[v]
      /\ Blocked(pipe'[w]) <=> Blocked(pipe[w])
  <2>1. "expect" \in NonStalling
    BY DEF NonStalling
  <2> QED BY <1>2, <2>1, UnitGoesOn
<1>4. s \in Wids /\ b \in Bars /\ x \in BarRecs /\ x.events \in Nat
  <2>1. s \in Wids
    BY <1>3 DEF Warps
  <2>2. b \in Bars
    BY <1>3, ProgramFacts
  <2>3. x \in BarRecs
    BY <1>1, <2>1, <2>2 DEF Types
  <2> QED BY <2>1, <2>2, <2>3 DEF BarRecs
<1>5. e \in Transfers /\ e.slot = s /\ e.bar = b
  BY <1>3, <1>4 DEF Transfers
<1>6. y \in BarRecs /\ y.wait_mask = x.wait_mask /\ y.events = x.events + 1
  <2> DEFINE n == x.events + 1
  <2>1. n \in Nat /\ y = [x EXCEPT !.events = n]
    BY <1>4
  <2> HIDE DEF n, y, x
  <2>2. y \in BarRecs /\ y.wait_mask = x.wait_mask /\ y.events = n
    BY <1>4, <2>1 DEF BarRecs
  <2> QED BY <2>2 DEF n
<1>7. bars' = [bars EXCEPT ![s][b] = y]
  BY <1>2
<1> HIDE DEF s, b, x, y, e
<1>8. /\ bars' \in [Wids -> [Bars -> BarRecs]] /\ bars'[s][b] = y
      /\ \A t \in Wids, c \in Bars : ~(t = s /\ c = b) => bars'[t][c] = bars[t][c]
  <2>1. bars' = BarsWith(s, b, y)
    BY <1>7 DEF BarsWith
  <2> QED BY <1>4, <1>6, <2>1, BarSet
<1>9. \A t \in Wids, c \in Bars : bars'[t][c].wait_mask = bars[t][c].wait_mask
  BY <1>6, <1>8 DEF x
<1>10. Types'
  <2>1. /\ active' \subseteq Wids /\ stalled' \subseteq Wids /\ stalled_next' \subseteq Wids
        /\ out' \subseteq Wids /\ fetched' \in [Wids -> 0..Len(Program)] /\ warp' \in [Wids -> Warps]
        /\ lane' \in [Wids -> [Threads -> Nat]]
    BY <1>1, <1>2, <1>3 DEF Types
  <2>2. arrived' \in [Blocks -> [Pcs -> SUBSET Ranks]] /\ failed' \in BOOLEAN
    BY <1>1, <1>2 DEF Types
  <2>3. tx' \subseteq Transfers /\ IsFiniteSet(tx')
    BY <1>1, <1>2, <1>5, FS_AddElement DEF Types
  <2> QED BY <1>3, <1>8, <2>1, <2>2, <2>3 DEF Types
<1>11. Sizes'
  BY <1>1, <1>2 DEF Sizes
<1>12. DispOK(kmu, disp, active, warp, Fin)'
  <2>1. Fin' = Fin
    BY <1>2 DEF Fin
  <2> QED BY <1>2, <2>1, DispKeep
<1>13. ASSUME NEW v \in Wids PROVE Flow(v)'
  <2>1. CASE v # w
    <3>1. Flow(v)
      BY <1>1 DEF Flows
    <3> QED BY <1>2, <1>3, <2>1, <3>1, FlowSame
  <2> QED BY <1>3, <2>1
<1>14. Flows'
  BY <1>1, <1>2, <1>13 DEF Flows
<1>15. Waiters'
  <2>1. ASSUME NEW t \in Wids, NEW c \in Bars, NEW v \in bars'[t][c].wait_mask PROVE Held(v)'
    <3>1. Held(v) /\ v \in Wids
      BY <1>1, <1>9 DEF Waiters, Types, BarRecs
    <3>2. ~Blocked(pipe'[v])
      BY <1>3, <3>1 DEF Held
    <3> QED BY <1>2, <3>1, <3>2 DEF Held
  <2>2. \A t \in Wids, c \in Bars : bars'[t][c].wait_mask \subseteq bars[t][c].wait_mask
    BY <1>9
  <2> QED BY <1>1, <2>1, <2>2, WaitersKeep
<1>16. Events'
  <2> SUFFICES ASSUME NEW t \in Wids, NEW c \in Bars
               PROVE  Cardinality(TxOf(tx', t, c)) <= bars'[t][c].events
    BY DEF Events
  <2>1. Cardinality(TxOf(tx, t, c)) <= bars[t][c].events
    BY <1>1 DEF Events
  <2>2. IsFiniteSet(TxOf(tx, t, c)) /\ Cardinality(TxOf(tx, t, c)) \in Nat
    BY <1>1, TxFacts DEF Types
  <2>3. CASE t = s /\ c = b
    <3>1. TxOf(tx', t, c) = TxOf(tx, t, c) \cup {e}
      BY <1>2, <1>5, <2>3 DEF TxOf
    <3>2. Cardinality(TxOf(tx', t, c)) \in Nat
          /\ Cardinality(TxOf(tx', t, c)) <= Cardinality(TxOf(tx, t, c)) + 1
      BY <2>2, <3>1, FS_AddElement
    <3>3. bars'[t][c].events = bars[t][c].events + 1 /\ bars[t][c].events \in Nat
      BY <1>4, <1>6, <1>8, <2>3 DEF x
    <3> QED BY <2>1, <2>2, <3>2, <3>3
  <2>4. CASE ~(t = s /\ c = b)
    <3>1. TxOf(tx', t, c) = TxOf(tx, t, c)
      BY <1>2, <1>5, <2>4 DEF TxOf
    <3> QED BY <1>8, <2>1, <2>4, <3>1
  <2> QED BY <2>3, <2>4
<1> QED BY <1>1, <1>2, <1>10, <1>11, <1>12, <1>14, <1>15, <1>16 DEF IInv

(* A transfer is complete.                                                 *)
LEMMA EventReleaseOK ==
  ASSUME IInv, NEW e \in tx, EventRelease(e)
  PROVE  IInv'
<1> DEFINE s == e.slot
           b == e.bar
           x == bars[s][b]
           woken == IF EventOpens(x) THEN x.wait_mask ELSE {}
           after == IF EventOpens(x) THEN Opened(x) ELSE x
           y == [after EXCEPT !.events = @ - 1]
<1>1. Types /\ Sizes /\ ~failed /\ Flows /\ Waiters /\ Events
  BY DEF IInv
<1>2. /\ tx' = tx \ {e} /\ bars' = [bars EXCEPT ![s][b] = y]
      /\ stalled_next' = stalled_next \ woken
      /\ failed' = (failed \/ ResumeFails(woken) \/ x.events = 0)
      /\ kmu' = kmu /\ disp' = disp /\ active' = active /\ stalled' = stalled /\ warp' = warp
      /\ fetched' = fetched /\ pipe' = pipe /\ out' = out /\ lane' = lane /\ arrived' = arrived
  BY DEF EventRelease
<1>3. s \in Wids /\ b \in Bars /\ x \in BarRecs /\ x.events \in Nat /\ x.phase \in Nat
  <2>1. e \in Transfers
    BY <1>1 DEF Types
  <2>2. s \in Wids /\ b \in Bars
    BY <2>1 DEF Transfers
  <2>3. x \in BarRecs
    BY <1>1, <2>2 DEF Types
  <2> QED BY <2>2, <2>3 DEF BarRecs
<1>4. /\ IsFiniteSet(TxOf(tx, s, b)) /\ Cardinality(TxOf(tx, s, b)) \in Nat
      /\ Cardinality(TxOf(tx, s, b)) <= x.events /\ e \in TxOf(tx, s, b)
  <2>1. e \in TxOf(tx, s, b)
    BY DEF TxOf
  <2>2. Cardinality(TxOf(tx, s, b)) <= x.events
    BY <1>1, <1>3 DEF Events
  <2> QED BY <1>1, <2>1, <2>2, TxFacts DEF Types
<1>5. x.events >= 1
  <2>1. Cardinality(TxOf(tx, s, b)) # 0
    BY <1>4, FS_EmptySet
  <2> HIDE DEF x
  <2> QED BY <1>3, <1>4, <2>1
<1> HIDE DEF s, b, x
<1>6. after \in BarRecs /\ after.events = x.events
      /\ after.wait_mask = IF EventOpens(x) THEN {} ELSE x.wait_mask
  <2>1. CASE EventOpens(x)
    <3> DEFINE p == x.phase + 1
    <3>1. p \in Nat /\ Opened(x) = [x EXCEPT !.wait_mask = {}, !.phase = p]
      BY <1>3 DEF Opened
    <3> HIDE DEF p
    <3>2. Opened(x) \in BarRecs /\ Opened(x).wait_mask = {} /\ Opened(x).events = x.events
      BY <1>3, <3>1 DEF BarRecs
    <3> QED BY <2>1, <3>2
  <2>2. CASE ~EventOpens(x)
    BY <1>3, <2>2
  <2> QED BY <2>1, <2>2
<1> HIDE DEF after
<1>7. y \in BarRecs /\ y.events = x.events - 1
      /\ y.wait_mask = IF EventOpens(x) THEN {} ELSE x.wait_mask
  <2> DEFINE n == x.events - 1
  <2>1. n \in Nat
    BY <1>3, <1>5
  <2>2. y = [after EXCEPT !.events = n]
    BY <1>6
  <2> HIDE DEF n, y
  <2>3. y \in BarRecs /\ y.events = n /\ y.wait_mask = after.wait_mask
    BY <1>6, <2>1, <2>2 DEF BarRecs
  <2> QED BY <1>6, <2>3 DEF n
<1> HIDE DEF y
<1>8. /\ bars' \in [Wids -> [Bars -> BarRecs]] /\ bars'[s][b] = y
      /\ \A t \in Wids, c \in Bars : ~(t = s /\ c = b) => bars'[t][c] = bars[t][c]
  <2>1. bars' = BarsWith(s, b, y)
    BY <1>2 DEF BarsWith
  <2> QED BY <1>3, <1>7, <2>1, BarSet
<1>9. \A v \in x.wait_mask : Held(v)
  BY <1>1, <1>3 DEF Waiters, x
<1>10. woken \subseteq x.wait_mask /\ (~EventOpens(x) => woken = {})
  OBVIOUS
<1> HIDE DEF woken
<1>11. ~failed' /\ failed' \in BOOLEAN
  <2>1. ~ResumeFails(woken)
    BY <1>9, <1>10 DEF ResumeFails, Held
  <2>2. x.events # 0
    BY <1>3, <1>5
  <2> QED BY <1>1, <1>2, <2>1, <2>2
<1>12. \A v \in Wids : (v \in stalled_next' <=> v \in stalled_next) \/ Held(v)
  BY <1>2, <1>9, <1>10
<1>13. ASSUME NEW t \in Wids, NEW c \in Bars, NEW v \in bars'[t][c].wait_mask
       PROVE  v \in bars[t][c].wait_mask /\ v \in stalled_next'
  <2>1. CASE t = s /\ c = b
    <3>1. ~EventOpens(x) /\ v \in x.wait_mask
      BY <1>7, <1>8, <2>1
    <3>2. Held(v)
      BY <1>9, <3>1
    <3> QED BY <1>2, <1>10, <2>1, <3>1, <3>2 DEF Held, x
  <2>2. CASE ~(t = s /\ c = b)
    <3>1. v \in bars[t][c].wait_mask
      BY <1>8, <2>2
    <3>2. Held(v) /\ v \notin x.wait_mask
      BY <1>1, <1>3, <2>2, <3>1 DEF Waiters, x
    <3> QED BY <1>2, <1>10, <3>1, <3>2 DEF Held
  <2> QED BY <2>1, <2>2
<1>14. Types'
  <2>1. /\ active' \subseteq Wids /\ stalled' \subseteq Wids /\ stalled_next' \subseteq Wids
        /\ out' \subseteq Wids /\ fetched' \in [Wids -> 0..Len(Program)] /\ warp' \in [Wids -> Warps]
        /\ lane' \in [Wids -> [Threads -> Nat]] /\ pipe' \in [Wids -> Seq(Pcs)]
        /\ arrived' \in [Blocks -> [Pcs -> SUBSET Ranks]]
    BY <1>1, <1>2 DEF Types
  <2>2. tx' \subseteq Transfers /\ IsFiniteSet(tx')
    BY <1>1, <1>2, FS_RemoveElement DEF Types
  <2> QED BY <1>8, <1>11, <2>1, <2>2 DEF Types
<1>15. Sizes'
  BY <1>1, <1>2 DEF Sizes
<1>16. DispOK(kmu, disp, active, warp, Fin)'
  <2>1. Fin' = Fin
    BY <1>2 DEF Fin
  <2> QED BY <1>2, <2>1, DispKeep
<1>17. ASSUME NEW v \in Wids PROVE Flow(v)'
  <2>1. Flow(v)
    BY <1>1 DEF Flows
  <2> QED BY <1>2, <1>12, <2>1, FlowSame
<1>18. Flows'
  BY <1>1, <1>2, <1>17 DEF Flows
<1>19. Waiters'
  <2>1. ASSUME NEW t \in Wids, NEW c \in Bars, NEW v \in bars'[t][c].wait_mask PROVE Held(v)'
    <3>1. Held(v) /\ v \in stalled_next'
      BY <1>1, <1>13 DEF Waiters
    <3> QED BY <1>2, <3>1 DEF Held
  <2>2. \A t \in Wids, c \in Bars : bars'[t][c].wait_mask \subseteq bars[t][c].wait_mask
    BY <1>13
  <2> QED BY <1>1, <2>1, <2>2, WaitersKeep
<1>20. Events'
  <2> SUFFICES ASSUME NEW t \in Wids, NEW c \in Bars
               PROVE  Cardinality(TxOf(tx', t, c)) <= bars'[t][c].events
    BY DEF Events
  <2>1. CASE t = s /\ c = b
    <3>1. TxOf(tx', t, c) = TxOf(tx, s, b) \ {e}
      BY <1>2, <2>1 DEF TxOf
    <3>2. Cardinality(TxOf(tx', t, c)) = Cardinality(TxOf(tx, s, b)) - 1
      BY <1>4, <3>1, FS_RemoveElement
    <3>3. bars'[t][c].events = x.events - 1
      BY <1>7, <1>8, <2>1
    <3> QED BY <1>3, <1>4, <3>2, <3>3
  <2>2. CASE ~(t = s /\ c = b)
    <3>1. e \notin TxOf(tx, t, c)
      BY <2>2 DEF TxOf, s, b
    <3>2. TxOf(tx', t, c) = TxOf(tx, t, c)
      BY <1>2, <3>1 DEF TxOf
    <3> QED BY <1>1, <1>8, <2>2, <3>2 DEF Events
  <2> QED BY <2>1, <2>2
<1> QED BY <1>11, <1>14, <1>15, <1>16, <1>18, <1>19, <1>20 DEF IInv

-----------------------------------------------------------------------------
(***************************************************************************)
(* A cycle of the scheduler.                                               *)
(***************************************************************************)
(* The least element of a nonempty set of warps.                           *)
LEMMA LeastWarp ==
  ASSUME NEW S \in SUBSET Wids, S # {}
  PROVE  Min(S) \in S
<1> DEFINE R == {ss \in Nat \X Nat : ss[1] < ss[2]}
<1>1. S \subseteq Nat
  BY SizeFacts
<1>2. IsWellFoundedOn(R, Nat)
  BY NatLessThanWellFounded, Zenon DEF OpToRel
<1>3. PICK x \in S : \A y \in S : ~(<<y, x>> \in R)
  <2> HIDE DEF R
  <2> QED BY <1>1, <1>2, WFMin
<1>4. \A u, v \in Nat : u < v => <<u, v>> \in R
  OBVIOUS
<1> HIDE DEF R
<1>5. \A y \in S : ~(y < x) /\ y \in Nat /\ x \in Nat
  BY <1>1, <1>3, <1>4
<1>6. \A y \in S : x <= y
  BY <1>5
<1> QED BY <1>1, <1>6, MinIs

(* The dispatcher's part: it starts the warps of new, one or none.         *)
LEMMA StartFacts ==
  ASSUME IInv, NEW new, new = IF Starts(active) THEN {StartedWid(active)} ELSE {}
  PROVE  /\ new \subseteq Wids /\ new \cap active = {}
         /\ new # {} => /\ Activated \in Warps /\ Activated.pc = 1 /\ Activated.stack = <<>>
                        /\ WarpOK(Activated, 1, NoLanes)
         /\ \A V : (\A w \in active : V[w] = warp[w]) /\ (\A w \in new : V[w] = Activated)
                   => DispOK(KmuAfter, Started(active), active \cup new, V, Fin)
<1>1. active \in SUBSET Wids /\ DispOK(kmu, disp, active, warp, Fin)
  BY DEF IInv, Types
<1> DEFINE d == Loaded
           q == KmuAfter
<1>2. DispOK(q, d, active, warp, Fin)
  BY <1>1, LoadOK
<1>3. CASE ~Starts(active)
  <2>1. new = {} /\ Started(active) = d /\ active \cup new = active
    BY <1>3 DEF Started
  <2>2. ASSUME NEW V, \A w \in active : V[w] = warp[w] PROVE DispOK(q, d, active, V, Fin)
    BY <1>2, <2>2, DispSame
  <2> QED BY <2>1, <2>2
<1>4. CASE Starts(active)
  <2> DEFINE w == StartedWid(active)
             m == StartedMask
             r == Activated
  <2>1. d.has_cta /\ w \in Wids /\ w \notin active /\ new = {w}
    <3>1. d.has_cta /\ active # Wids /\ new = {w}
      BY <1>4 DEF Starts
    <3>2. Wids \ active # {} /\ Wids \ active \in SUBSET Wids
      BY <1>1, <3>1
    <3>3. w \in Wids \ active
      BY <3>2, LeastWarp DEF StartedWid
    <3> QED BY <3>1, <3>3
  <2>2. d \in Disps /\ Begins(d)
    BY <1>2 DEF DispOK
  <2>3. m = {t \in Threads : t < d.rem}
    BY DEF StartedMask
  <2>4. m = Whole(d.rank) /\ m # {} /\ m \subseteq Threads
    BY <2>1, <2>2, <2>3, MaskFacts
  <2>5. Started(active) = AfterStart(d, w, m)
    BY <1>4 DEF Started, AfterStart
  <2>6. d.block \in Blocks /\ d.rank \in Ranks /\ d.slot \in Wids /\ d.tid \in [Axes -> Nat]
    <3>1. /\ d.block \in Blocks /\ d.rank \in 0..CtaSize /\ d.slot \in 0..(UsableSlots - 1)
          /\ d.tid \in [Axes -> Nat] /\ d.rank < CtaSize
      BY <2>1, <2>2 DEF Disps, Begins
    <3> QED BY <3>1, CtaFacts, SlotFacts, SizeFacts DEF Ranks, Wids
  <2>7. r = [Retired EXCEPT !.tmask = m, !.block = d.block, !.rank = d.rank, !.slot = d.slot,
                            !.tid = d.tid]
    BY DEF Activated
  <2> HIDE DEF w, m, r, d, q
  <2>8. /\ r \in Warps /\ r.pc = 1 /\ r.stack = <<>> /\ r.tmask = m
        /\ r.block = d.block /\ r.rank = d.rank /\ r.slot = d.slot /\ r.tid = d.tid
    BY <2>4, <2>6, <2>7, FreshWarps DEF Warps
  <2>9. WarpOK(r, 1, NoLanes)
    <3>1. Len(r.stack) = 0
      BY <2>8
    <3>2. 1..Len(r.stack) = {} /\ 1..(Len(r.stack) + 1) = {1} /\ \A k \in 1..(Len(r.stack) + 1) : k = 1
      BY <3>1
    <3>3. Mask(r, 1) = Whole(r.rank)
      BY <2>4, <2>8, <3>1 DEF Mask
    <3>4. Nested(r)
      BY <2>4, <2>8, <3>2, <3>3 DEF Nested
    <3>5. Encl(1) = {}
      BY FreshWarps, DepthStep, EnclOutside
    <3>6. Scoped(r, 1)
      BY <3>2, <3>5 DEF Scoped
    <3>7. LanesAt(r, 1, NoLanes)
      <4>1. \A t \in r.tmask : NoLanes[t] = 1
        BY <2>4, <2>8 DEF NoLanes
      <4> QED BY <3>2, <4>1 DEF LanesAt
    <3> QED BY <3>4, <3>6, <3>7 DEF WarpOK
  <2>10. ASSUME NEW V, \A v \in active : V[v] = warp[v], \A v \in new : V[v] = r
         PROVE  DispOK(q, Started(active), active \cup new, V, Fin)
    <3>1. V[w].block = d.block /\ V[w].rank = d.rank /\ V[w].slot = d.slot /\ V[w].tid = d.tid
      BY <2>1, <2>8, <2>10
    <3>2. active \cup new \in SUBSET Wids /\ \A v \in Wids : v \in active \cup new <=> v \in active \/ v = w
      BY <1>1, <2>1
    <3> DEFINE act2 == active \cup new
    <3> HIDE DEF act2
    <3>3. DispOK(q, Started(active), act2, V, Fin)
      BY <1>1, <1>2, <2>1, <2>3, <2>5, <2>10, <3>1, <3>2, StartOK DEF act2
    <3> QED BY <3>3 DEF act2
  <2> QED BY <1>1, <2>1, <2>8, <2>9, <2>10 DEF q, r
<1> QED BY <1>3, <1>4


(* A cycle of the scheduler.                                               *)
LEMMA ScheduleOK ==
  ASSUME IInv, Schedule
  PROVE  IInv'
<1> DEFINE new == IF Starts(active) THEN {StartedWid(active)} ELSE {}
           act == active \cup new
           ready == act \ (stalled \ new)
           pick == IF ready = {} THEN {} ELSE {Min(ready)}
           ws == [w \in Wids |-> IF w \in new THEN Activated ELSE warp[w]]
           ls == [w \in Wids |-> IF w \in new THEN NoLanes ELSE lane[w]]
           fs == [w \in Wids |-> IF w \in pick THEN ws[w].pc ELSE fetched[w]]
           n == Len(Program)
<1>1. Types /\ Sizes /\ ~failed /\ Flows /\ Waiters /\ Events
  BY DEF IInv
<1>2. /\ kmu' = KmuAfter /\ disp' = Started(active) /\ active' = act /\ warp' = ws /\ lane' = ls
      /\ fetched' = fs /\ stalled_next' = (stalled_next \ new) \cup pick
      /\ stalled' = stalled_next'
      /\ failed' = (failed \/ \E w \in pick : ws[w].tmask = {} \/ w \in stalled_next \ new)
      /\ pipe' = pipe /\ out' = out /\ bars' = bars /\ tx' = tx /\ arrived' = arrived
  BY DEF Schedule
<1>3. /\ new \subseteq Wids /\ new \cap active = {}
      /\ new # {} => /\ Activated \in Warps /\ Activated.pc = 1 /\ Activated.stack = <<>>
                     /\ WarpOK(Activated, 1, NoLanes)
      /\ \A V : (\A w \in active : V[w] = warp[w]) /\ (\A w \in new : V[w] = Activated)
                => DispOK(KmuAfter, Started(active), active \cup new, V, Fin)
  BY StartFacts
<1> HIDE DEF new
<1>4. /\ active \subseteq Wids /\ stalled \subseteq Wids /\ stalled_next \subseteq Wids
      /\ warp \in [Wids -> Warps] /\ fetched \in [Wids -> 0..n] /\ lane \in [Wids -> [Threads -> Nat]]
      /\ n \in Nat /\ stalled_next \subseteq stalled /\ \A v \in Wids : Flow(v)
  BY <1>1, ProgramFacts DEF Types, Flows
<1>5. pick \subseteq ready /\ act \subseteq Wids /\ pick \subseteq Wids
  <2>1. ready \in SUBSET Wids /\ act \subseteq Wids
    BY <1>3, <1>4
  <2>2. ready # {} => Min(ready) \in ready
    BY <2>1, LeastWarp
  <2> HIDE DEF ready
  <2> QED BY <2>1, <2>2
<1> HIDE DEF pick, n
<1>6. \A v \in Wids : v \in new =>
        /\ v \notin active /\ fetched[v] = 0 /\ pipe[v] = <<>> /\ v \notin out
  BY <1>3, <1>4 DEF Flow
<1>7. \A v \in Wids : v \in pick /\ v \notin new =>
        v \in active /\ v \notin stalled /\ v \notin stalled_next
  BY <1>4, <1>5
<1>8. \A v \in Wids : v \in pick /\ v \notin new =>
        /\ fetched[v] = 0 /\ ~Blocked(pipe[v]) /\ v \notin out
        /\ warp[v].pc \in Pcs /\ WarpOK(warp[v], warp[v].pc, lane[v])
  BY <1>4, <1>7 DEF Flow, Pos
<1>9. \A v \in Wids : v \notin new => warp'[v] = warp[v] /\ lane'[v] = lane[v]
  BY <1>2
<1>10. \A v \in Wids : v \in new => warp'[v] = Activated /\ lane'[v] = NoLanes
  BY <1>2
<1>11. \A v \in Wids : /\ v \in pick => fetched'[v] = warp'[v].pc
                       /\ v \notin pick => fetched'[v] = fetched[v]
  BY <1>2
<1>12. \A v \in Wids : /\ v \in active' <=> v \in active \/ v \in new
                       /\ v \in stalled_next' <=> (v \in stalled_next /\ v \notin new) \/ v \in pick
  BY <1>2
<1>13. \A v \in Wids : v \in pick => warp'[v].pc \in Pcs /\ warp'[v].tmask # {}
  <2>1. \A v \in Wids : v \in new => Activated.pc = 1 /\ Activated.tmask # {}
    BY <1>3 DEF WarpOK, Nested
  <2>2. \A v \in Wids : v \in pick /\ v \notin new => warp[v].pc \in Pcs /\ warp[v].tmask # {}
    BY <1>8 DEF WarpOK, Nested
  <2> QED BY <1>9, <1>10, <2>1, <2>2, FreshWarps
<1>14. ~failed'
  BY <1>1, <1>2, <1>5, <1>7, <1>13
<1>15. Types'
  <2>1. warp' \in [Wids -> Warps]
    <3>1. \A v \in Wids : ws[v] \in Warps
      BY <1>3, <1>4
    <3> HIDE DEF act
    <3> QED BY <1>2, <3>1
  <2>2. lane' \in [Wids -> [Threads -> Nat]]
    <3>1. \A v \in Wids : ls[v] \in [Threads -> Nat]
      BY <1>4, FreshWarps
    <3> QED BY <1>2, <3>1
  <2>3. fetched' \in [Wids -> 0..n]
    <3>1. \A v \in Wids : fetched'[v] \in 0..n
      <4>1. Pcs \subseteq 0..n
        BY <1>4 DEF Pcs, n
      <4> QED BY <1>4, <1>11, <1>13, <4>1
    <3> QED BY <1>2, <3>1
  <2>4. active' \subseteq Wids /\ stalled_next' \subseteq Wids /\ stalled' \subseteq Wids
    BY <1>2, <1>4, <1>5
  <2>5. /\ out' \subseteq Wids /\ pipe' \in [Wids -> Seq(Pcs)] /\ bars' \in [Wids -> [Bars -> BarRecs]]
        /\ tx' \subseteq Transfers /\ IsFiniteSet(tx') /\ arrived' \in [Blocks -> [Pcs -> SUBSET Ranks]]
    BY <1>1, <1>2 DEF Types
  <2>6. failed' \in BOOLEAN
    BY <1>14, <1>2
  <2> QED BY <2>1, <2>2, <2>3, <2>4, <2>5, <2>6 DEF Types, n
<1>16. Sizes'
  <2> SUFFICES ASSUME NEW v \in Wids
               PROVE  warp'[v].pc \in 1..(Len(Program) + 1) /\ Len(warp'[v].stack) <= NumThreads - 1
    BY DEF Sizes
  <2>1. CASE v \notin new
    BY <1>1, <1>9, <2>1 DEF Sizes
  <2>2. CASE v \in new
    <3>1. warp'[v].pc = 1 /\ Len(warp'[v].stack) = 0
      BY <1>3, <1>10, <2>2
    <3> QED BY <3>1, SizeFacts, ProgramFacts
  <2> QED BY <2>1, <2>2
<1>17. DispOK(kmu, disp, active, warp, Fin)'
  <2>1. Fin' = Fin
    BY <1>2 DEF Fin
  <2>2. \A v \in active : warp'[v] = warp[v]
    BY <1>3, <1>4, <1>9
  <2>3. \A v \in new : warp'[v] = Activated
    BY <1>3, <1>10
  <2>4. DispOK(KmuAfter, Started(active), active \cup new, warp', Fin)
    BY <1>3, <2>2, <2>3
  <2> QED BY <1>2, <2>1, <2>4
<1>18. Flows'
  <2>1. ASSUME NEW v \in Wids PROVE Flow(v)'
    <3>1. CASE v \in new
      <4>1. /\ pipe'[v] = <<>> /\ v \notin out' /\ v \in active' /\ fetched[v] = 0
            /\ warp'[v] = Activated /\ lane'[v] = NoLanes /\ Activated.pc = 1
            /\ WarpOK(Activated, 1, NoLanes)
        BY <1>2, <1>3, <1>6, <1>10, <1>12, <3>1
      <4>2. InOrder(pipe'[v]) /\ ~Blocked(pipe'[v])
        BY <4>1 DEF InOrder, Blocked
      <4>3. Pos(pipe'[v], warp'[v].pc) = 1 /\ 1 \in Pcs
        BY <4>1, <4>2, FreshWarps DEF Pos
      <4>4. fetched'[v] # 0 => v \in stalled_next' /\ fetched'[v] = warp'[v].pc
        BY <1>11, <1>12, <4>1
      <4> QED BY <4>1, <4>2, <4>3, <4>4 DEF Flow
    <3>2. CASE v \in pick /\ v \notin new
      <4>1. /\ pipe'[v] = pipe[v] /\ v \notin out' /\ v \in active' /\ v \in stalled_next'
            /\ warp'[v] = warp[v] /\ lane'[v] = lane[v] /\ ~Blocked(pipe[v]) /\ InOrder(pipe[v])
            /\ fetched'[v] = warp'[v].pc
        BY <1>2, <1>4, <1>7, <1>8, <1>9, <1>11, <1>12, <3>2 DEF Flow
      <4>2. warp[v].pc \in Pcs /\ WarpOK(warp[v], warp[v].pc, lane[v])
        BY <1>8, <3>2
      <4>3. Pos(pipe'[v], warp'[v].pc) = warp[v].pc
        BY <4>1 DEF Pos
      <4> QED BY <4>1, <4>2, <4>3 DEF Flow
    <3>3. CASE v \notin pick /\ v \notin new
      <4>1. /\ fetched'[v] = fetched[v] /\ pipe'[v] = pipe[v] /\ warp'[v] = warp[v] /\ lane'[v] = lane[v]
            /\ v \in active' <=> v \in active
        BY <1>2, <1>9, <1>11, <1>12, <3>3
      <4>2. (v \in out' <=> v \in out) /\ (v \in stalled_next' <=> v \in stalled_next)
        BY <1>2, <1>12, <3>3
      <4> QED BY <1>4, <4>1, <4>2, FlowSame
    <3> QED BY <3>1, <3>2, <3>3
  <2> QED BY <1>2, <2>1 DEF Flows
<1>19. Waiters'
  <2>1. ASSUME NEW s \in Wids, NEW b \in Bars, NEW w \in bars[s][b].wait_mask PROVE Held(w)'
    <3>1. Held(w)
      BY <1>1 DEF Waiters
    <3>2. w \in Wids /\ w \in active /\ w \in stalled_next /\ w \in stalled
      BY <1>4, <3>1 DEF Held
    <3>3. w \notin new /\ w \notin pick
      BY <1>3, <1>7, <3>2
    <3> QED BY <1>2, <1>11, <1>12, <3>1, <3>2, <3>3 DEF Held
  <2>2. bars' = bars
    BY <1>2
  <2> QED BY <1>1, <2>1, <2>2 DEF Waiters
<1>20. Events'
  BY <1>1, <1>2, EventsKeep
<1> QED BY <1>14, <1>15, <1>16, <1>17, <1>18, <1>19, <1>20 DEF IInv


(* The core starts with nothing under way.                                 *)
LEMMA InitOK == Init => IInv
<1> SUFFICES ASSUME Init PROVE IInv
  OBVIOUS
<1>1. /\ active = {} /\ stalled = {} /\ stalled_next = {} /\ out = {} /\ tx = {} /\ failed = FALSE
      /\ warp = [w \in Wids |-> Retired] /\ fetched = [w \in Wids |-> 0]
      /\ pipe = [w \in Wids |-> <<>>] /\ lane = [w \in Wids |-> NoLanes]
      /\ bars = [s \in Wids |-> [b \in Bars |-> Quiet]]
      /\ arrived = [k \in Blocks |-> [i \in Pcs |-> {}]]
  BY DEF Init
<1>2. Quiet \in BarRecs /\ Quiet.wait_mask = {} /\ Quiet.events = 0
  <2>1. 0 \in Ranks
    BY CtaFacts DEF Ranks
  <2> QED BY <2>1 DEF Quiet, BarRecs
<1>3. Types
  <2>1. 0 \in 0..Len(Program) /\ <<>> \in Seq(Pcs)
    BY ProgramFacts
  <2>2. /\ warp \in [Wids -> Warps] /\ lane \in [Wids -> [Threads -> Nat]]
    BY <1>1, FreshWarps
  <2>3. fetched \in [Wids -> 0..Len(Program)] /\ pipe \in [Wids -> Seq(Pcs)]
    BY <1>1, <2>1
  <2>4. bars \in [Wids -> [Bars -> BarRecs]]
    BY <1>1, <1>2
  <2>5. arrived \in [Blocks -> [Pcs -> SUBSET Ranks]]
    BY <1>1
  <2>6. tx \subseteq Transfers /\ IsFiniteSet(tx) /\ failed \in BOOLEAN
    BY <1>1, FS_EmptySet
  <2> QED BY <1>1, <2>2, <2>3, <2>4, <2>5, <2>6 DEF Types
<1>4. Sizes
  <2>1. \A w \in Wids : warp[w].pc = 1 /\ Len(warp[w].stack) = 0
    BY <1>1, FreshWarps
  <2> QED BY <2>1, SizeFacts, ProgramFacts DEF Sizes
<1>5. DispOK(kmu, disp, active, warp, Fin)
  <2>1. KmuOK(kmu) /\ \A k \in Blocks : Ahead(kmu, k)
    BY AheadAtFirst DEF Init, DispatchInit
  <2>2. /\ disp.pending = None /\ disp.has_cta = FALSE
        /\ disp.slot_rem = [s \in Wids |-> 0]
    BY DEF Init, DispatchInit
  <2>3. disp \in Disps
    <3>1. None \in Requests /\ Origin \in Blocks /\ Origin \in [Axes -> Nat]
      BY BlockFacts DEF None, Requests
    <3>2. 0 \in 0..(UsableSlots - 1) /\ 0 \in 0..CtaSize /\ 0 \in 0..BlockSize
          /\ NumWarps \in 0..NumWarps
      BY SlotFacts, CtaFacts, SizeFacts
    <3>3. /\ [s \in Wids |-> 0] \in [Wids -> 0..CtaSize]
          /\ [w \in Wids |-> NumWarps] \in [Wids -> 0..NumWarps]
      BY <3>2
    <3> QED BY <3>1, <3>2, <3>3 DEF Init, DispatchInit, Disps
  <2>4. SlotCounts(disp, active)
    <3> SUFFICES ASSUME NEW s \in Wids
                 PROVE  disp.slot_rem[s] = Cardinality(In(disp, active, s)) + ToStart(disp, s)
      BY DEF SlotCounts
    <3>1. In(disp, active, s) = {} /\ ToStart(disp, s) = 0 /\ disp.slot_rem[s] = 0
      BY <1>1, <2>2 DEF In, ToStart
    <3>2. Cardinality(In(disp, active, s)) = 0
      BY <3>1, FS_EmptySet
    <3> QED BY <3>1, <3>2
  <2>5. Begins(disp)
    BY <2>2 DEF Begins
  <2>6. Owners(disp, active, warp)
    BY <1>1, <2>2 DEF Owners
  <2>7. ~disp.pending.has
    BY <2>2 DEF None
  <2>8. Pends(kmu, disp)
    BY <2>7 DEF Pends
  <2>9. ASSUME NEW k \in Blocks, NEW r \in Ranks PROVE Stage(kmu, disp, active, warp, Fin, k, r)
    <3>1. Waiting(kmu, disp, k) /\ ~Loading(disp, k, r)
      BY <2>1, <2>2 DEF Waiting, Loading
    <3>2. r \notin Fin[k]
      BY <1>1, ProgramFacts DEF Fin
    <3> QED BY <1>1, <3>1, <3>2 DEF Stage
  <2> QED BY <2>1, <2>3, <2>4, <2>5, <2>6, <2>8, <2>9 DEF DispOK
<1>6. Flows
  <2>1. \A w \in Wids : fetched[w] = 0 /\ pipe[w] = <<>>
    BY <1>1
  <2>2. InOrder(<<>>) /\ ~Blocked(<<>>)
    BY DEF InOrder, Blocked
  <2> QED BY <1>1, <2>1, <2>2 DEF Flows, Flow
<1>7. Waiters
  <2>1. \A s \in Wids, b \in Bars : bars[s][b].wait_mask = {}
    BY <1>1, <1>2
  <2> QED BY <2>1 DEF Waiters
<1>8. Events
  <2>1. \A s \in Wids, b \in Bars : TxOf(tx, s, b) = {} /\ bars[s][b].events = 0
    BY <1>1, <1>2 DEF TxOf
  <2>2. \A S : S = {} => Cardinality(S) <= 0
    BY FS_EmptySet
  <2> QED BY <2>1, <2>2 DEF Events
<1> QED BY <1>1, <1>3, <1>4, <1>5, <1>6, <1>7, <1>8 DEF IInv

(* Every step keeps the invariant.                                         *)
LEMMA NextOK == IInv /\ [Next]_vars => IInv'
<1> SUFFICES ASSUME IInv, [Next]_vars PROVE IInv'
  OBVIOUS
<1>1. CASE Schedule
  BY <1>1, ScheduleOK
<1>2. ASSUME NEW w \in Wids, Decode(w) PROVE IInv'
  BY <1>2, DecodeOK
<1>3. ASSUME NEW w \in Wids, Commit(w) PROVE IInv'
  BY <1>3, CommitOK
<1>4. ASSUME NEW w \in Wids, Process(w) PROVE IInv'
  <2>1. CASE Exit(w)
    BY <2>1, ExitOK
  <2>2. CASE Split(w)
    BY <2>2, SplitOK
  <2>3. CASE Join(w)
    BY <2>3, JoinOK
  <2>4. CASE BarSync(w)
    BY <2>4, BarSyncOK
  <2>5. CASE BarArrive(w)
    BY <2>5, BarArriveOK
  <2>6. CASE BarWait(w)
    BY <2>6, BarWaitOK
  <2>7. CASE BarExpect(w)
    BY <2>7, BarExpectOK
  <2> QED BY <1>4, <2>1, <2>2, <2>3, <2>4, <2>5, <2>6, <2>7, Zenon DEF Process
<1>5. ASSUME NEW t \in tx, EventRelease(t) PROVE IInv'
  BY <1>5, EventReleaseOK
<1>6. CASE UNCHANGED vars
  <2>1. /\ kmu' = kmu /\ disp' = disp /\ active' = active /\ stalled' = stalled
        /\ stalled_next' = stalled_next /\ warp' = warp /\ fetched' = fetched /\ pipe' = pipe
        /\ out' = out /\ bars' = bars /\ tx' = tx /\ failed' = failed /\ lane' = lane
        /\ arrived' = arrived
    BY <1>6 DEF vars
  <2>2. Fin' = Fin
    BY <2>1 DEF Fin
  <2>3. Types' /\ Sizes' /\ ~failed' /\ Events'
    BY <2>1 DEF IInv, Types, Sizes, Events
  <2>4. DispOK(kmu, disp, active, warp, Fin)'
    BY <2>1, <2>2 DEF IInv
  <2>5. Flows' /\ Waiters'
    BY <2>1 DEF IInv, Flows, Flow, Waiters, Held
  <2> QED BY <2>3, <2>4, <2>5 DEF IInv
<1> QED BY <1>1, <1>2, <1>3, <1>4, <1>5, <1>6, Zenon DEF Next

(* It holds of every state of the core.                                    *)
LEMMA Invariance == Spec => []IInv
BY InitOK, NextOK, PTL DEF Spec
-----------------------------------------------------------------------------
(***************************************************************************)
(* The theorems.                                                           *)
(***************************************************************************)
(* The registers of the KMU, the dispatcher, the scheduler, the unit and   *)
(* the barriers keep their ranges, for every shape of the launch and every *)
(* program: the divergence stack of a warp never has more than             *)
(* NumThreads - 1 entries (WctlUnit, "stack overflow"), and no count of a  *)
(* slot or of a barrier leaves its range.                                  *)
THEOREM TypeCorrect == Spec => []TypeOK
<1>1. ASSUME IInv PROVE TypeOK
  <2>1. Types /\ Sizes /\ DispOK(kmu, disp, active, warp, Fin)
    BY <1>1 DEF IInv
  <2>2. DispatchTypeOK
    <3>1. KmuOK(kmu) /\ disp \in Disps
      BY <2>1 DEF DispOK
    <3>2. kmu.running \in BOOLEAN
      BY <3>1 DEF KmuOK, Kmus
    <3>3. \A a \in Axes : /\ kmu.intra[a] \in 0..ClusterDim[a] - 1
                          /\ kmu.origin[a] \in 0..GridDim[a] - 1
      <4>1. kmu.intra \in [Axes -> Nat] /\ kmu.origin \in [Axes -> Nat]
        BY <3>1 DEF KmuOK, Kmus
      <4>2. \A a \in Axes : /\ kmu.intra[a] \in Nat /\ kmu.origin[a] \in Nat
                            /\ kmu.intra[a] < ClusterDim[a] /\ kmu.origin[a] < GridDim[a]
        BY <3>1, <4>1 DEF KmuOK
      <4>3. \A a \in Axes : ClusterDim[a] \in Nat /\ GridDim[a] \in Nat
        BY ShapesAssumption
      <4> QED BY <4>2, <4>3
    <3>4. /\ disp.slot \in 0..UsableSlots - 1 /\ disp.tail \in 0..UsableSlots - 1
          /\ disp.rank \in 0..CtaSize /\ disp.rem \in 0..BlockSize
          /\ disp.slot_rem \in [Wids -> 0..CtaSize] /\ disp.slot_of \in [Wids -> 0..NumWarps]
          /\ disp.has_cta \in BOOLEAN /\ disp.block \in Blocks
          /\ disp.tid \in [Axes -> Nat] /\ disp.pending \in Requests
      BY <3>1 DEF Disps
    <3>5. disp.pending.has \in BOOLEAN /\ disp.pending.block \in Blocks
      BY <3>4 DEF Requests
    <3> QED BY <3>2, <3>3, <3>4, <3>5 DEF DispatchTypeOK
  <2>3. /\ active \subseteq Wids /\ stalled \subseteq Wids /\ stalled_next \subseteq Wids
        /\ out \subseteq Wids /\ failed \in BOOLEAN
    BY <2>1 DEF Types
  <2>4. \A w \in Wids : /\ warp[w].pc \in 1..Len(Program) + 1
                        /\ Len(warp[w].stack) =< NumThreads - 1
    BY <2>1 DEF Sizes
  <2>5. \A w \in Wids : /\ warp[w].tmask \subseteq Threads
                        /\ warp[w].rank \in Ranks /\ warp[w].slot \in Wids
    BY <2>1 DEF Types, Warps
  <2>6. \A w \in Wids : fetched[w] \in 0..Len(Program) /\ pipe[w] \in Seq(Pcs)
    BY <2>1 DEF Types
  <2>7. \A s \in Wids, b \in Bars : /\ bars[s][b].wait_mask \subseteq Wids
                                    /\ bars[s][b].count \in Ranks
                                    /\ bars[s][b].events \in Nat
                                    /\ bars[s][b].phase \in Nat
    <3>1. \A s \in Wids, b \in Bars : bars[s][b] \in BarRecs
      BY <2>1 DEF Types
    <3> QED BY <3>1 DEF BarRecs
  <2>8. \A t \in tx : t.slot \in Wids /\ t.bar \in Bars /\ t.pc \in Pcs
    BY <2>1 DEF Types, Transfers
  <2> QED BY <2>2, <2>3, <2>4, <2>5, <2>6, <2>7, <2>8 DEF TypeOK
<1> QED BY <1>1, Invariance, PTL

(* No assertion or abort of the simulator is ever hit: whatever the order  *)
(* in which decode, commit, the barriers and finished transfers release    *)
(* warps, each release finds its warp active and stalled, no warp without  *)
(* lanes is fetched, no divergence stack overflows or runs empty, and no   *)
(* slot is given back more often than it was taken.                        *)
THEOREM NeverAborts == Spec => []NoAbort
<1>1. IInv => NoAbort
  BY DEF IInv, NoAbort
<1> QED BY <1>1, Invariance, PTL

(* A warp runs every lane through every instruction once and in order,     *)
(* whatever way its lanes part at the splits, and outside of all splits it *)
(* has again every lane of its rank.                                       *)
THEOREM LanesCorrect == Spec => []EveryLaneOnce
<1>1. ASSUME IInv PROVE EveryLaneOnce
  <2> SUFFICES ASSUME NEW w \in active, fetched[w] = 0, pipe[w] = <<>>
               PROVE  /\ warp[w].tid = LaneAt(warp[w].rank * NumThreads, BlockDim)
                      /\ \A t \in warp[w].tmask : lane[w][t] = warp[w].pc
                      /\ warp[w].pc \in Pcs /\ Depth[warp[w].pc] = 0 =>
                           warp[w].tmask = {t \in Threads : warp[w].rank * NumThreads + t < BlockSize}
    BY DEF EveryLaneOnce
  <2>1. w \in Wids /\ Flow(w) /\ warp[w] \in Warps
    BY <1>1 DEF IInv, Types, Flows
  <2>2. ~Blocked(pipe[w])
    BY DEF Blocked
  <2>3. Pos(pipe[w], warp[w].pc) = warp[w].pc
    BY <2>2 DEF Pos
  <2>4. WarpOK(warp[w], warp[w].pc, lane[w])
    BY <2>1, <2>3 DEF Flow
  <2>5. warp[w].tid = LaneAt(warp[w].rank * NumThreads, BlockDim)
    BY <1>1 DEF IInv, DispOK, Owners
  <2>6. \A t \in warp[w].tmask : lane[w][t] = warp[w].pc
    BY <2>4 DEF WarpOK, LanesAt
  <2>7. ASSUME warp[w].pc \in Pcs, Depth[warp[w].pc] = 0
        PROVE  warp[w].tmask = {t \in Threads : warp[w].rank * NumThreads + t < BlockSize}
    <3>1. Encl(warp[w].pc) = {}
      BY <2>7, EnclOutside
    <3>2. \A k \in 1..Len(warp[w].stack) : FALSE
      BY <2>4, <3>1 DEF WarpOK, Scoped
    <3>3. warp[w].stack \in Seq(Entries)
      BY <2>1 DEF Warps
    <3>4. Len(warp[w].stack) \in Nat
      BY <3>3
    <3>5. 1 > Len(warp[w].stack)
      BY <3>2, <3>4
    <3>6. Mask(warp[w], 1) = warp[w].tmask
      BY <3>5 DEF Mask
    <3> QED BY <2>4, <3>6 DEF WarpOK, Nested, Whole
  <2> QED BY <2>5, <2>6, <2>7
<1> QED BY <1>1, Invariance, PTL

(* A slot, with its local memory and its barriers, belongs to one block    *)
(* until the last warp of that block has ended, and no rank of a block     *)
(* runs twice, neither at a time nor one after the other.                  *)
THEOREM SlotsCorrect == Spec => []SlotOwned
<1>1. ASSUME IInv PROVE SlotOwned
  <2>1. /\ Owners(disp, active, warp)
        /\ \A k \in Blocks, r \in Ranks : Stage(kmu, disp, active, warp, Fin, k, r)
    BY <1>1 DEF IInv, DispOK
  <2>2. \A w \in active : warp[w].block \in Blocks /\ warp[w].rank \in Ranks
    BY <1>1 DEF IInv, Types, Warps
  <2>3. \A v, w \in active : warp[v].slot = warp[w].slot => warp[v].block = warp[w].block
    BY <2>1 DEF Owners
  <2>4. ASSUME NEW v \in active, NEW w \in active, warp[v].block = warp[w].block,
               warp[v].rank = warp[w].rank
        PROVE  v = w
    BY <2>1, <2>2, <2>4 DEF Stage, Runs
  <2>5. ASSUME NEW w \in active PROVE warp[w].rank \notin arrived[warp[w].block][Len(Program)]
    <3>1. warp[w].rank \notin Fin[warp[w].block]
      BY <2>1, <2>2 DEF Stage, Runs
    <3> QED BY <2>2, <3>1 DEF Fin
  <2> QED BY <2>3, <2>4, <2>5 DEF SlotOwned
<1> QED BY <1>1, Invariance, PTL

(* When the core reports itself idle, every warp of every block of the     *)
(* grid has run to its end: no block is lost between the KMU, the pending  *)
(* request and the slots, for every grid, cluster and block shape.         *)
THEOREM IdleCorrect == Spec => []IdleMeansDone
<1>1. ASSUME IInv PROVE IdleMeansDone
  <2> SUFFICES ASSUME ~Running, NEW k \in Blocks PROVE arrived[k][Len(Program)] = Ranks
    BY DEF IdleMeansDone, Finished
  <2>1. active = {} /\ ~disp.has_cta /\ ~disp.pending.has /\ ~kmu.running
    BY DEF Running, DispatcherRunning
  <2>2. ~Waiting(kmu, disp, k) /\ \A r : ~Loading(disp, k, r)
    BY <2>1 DEF Waiting, Ahead, Loading
  <2>3. \A r \in Ranks : r \in Fin[k]
    BY <1>1, <2>1, <2>2 DEF IInv, DispOK, Stage
  <2>4. arrived[k][Len(Program)] \subseteq Ranks
    BY <1>1, ProgramFacts DEF IInv, Types
  <2> QED BY <2>3, <2>4 DEF Fin
<1> QED BY <1>1, Invariance, PTL

-----------------------------------------------------------------------------
(***************************************************************************)
(* Where the blocks of a cluster are put.                                  *)
(***************************************************************************)
(* A digit in front of a number.                                           *)
LEMMA Digit ==
  ASSUME NEW a \in Nat, NEW m \in Nat, NEW D \in Nat, NEW E \in Nat, a < D, m < E
  PROVE  /\ a + D * m \in Nat /\ D * E \in Nat /\ a + D * m < D * E
         /\ a + D * m = 0 <=> a = 0 /\ m = 0
         /\ a + D * m + 1 = D * E <=> a + 1 = D /\ m + 1 = E
<1> DEFINE p == D * m
           e == D * E
<1>1. p \in Nat /\ e \in Nat
  OBVIOUS
<1>2. p + D <= e
  <2>1. D * (m + 1) <= D * E
    OBVIOUS
  <2>2. D * (m + 1) = p + D
    OBVIOUS
  <2> QED BY <2>1, <2>2
<1>3. m + 1 = E => p + D = e
  OBVIOUS
<1>4. m + 1 # E => p + D + D <= e
  <2>1. m + 1 # E => D * (m + 2) <= D * E
    OBVIOUS
  <2>2. D * (m + 2) = p + D + D
    OBVIOUS
  <2> QED BY <2>1, <2>2
<1>5. p = 0 <=> m = 0
  OBVIOUS
<1> HIDE DEF p, e
<1>6. a + p < e /\ (a + p = 0 <=> a = 0 /\ m = 0)
  BY <1>1, <1>2, <1>5
<1>7. a + p + 1 = e <=> a + 1 = D /\ m + 1 = E
  BY <1>1, <1>2, <1>3, <1>4
<1> QED BY <1>1, <1>6, <1>7 DEF p, e

(* The place in the cluster as a number.                                   *)
Lin(x) == x[1] + ClusterDim[1] * (x[2] + ClusterDim[2] * x[3])

(* It counts from 0, at the origin, up to the size of the cluster.         *)
LEMMA LinFacts ==
  ASSUME NEW x \in [Axes -> Nat], \A a \in Axes : x[a] < ClusterDim[a]
  PROVE  /\ ClusterSize \in Nat /\ Lin(x) \in Nat /\ Lin(x) < ClusterSize
         /\ Lin(x) = 0 <=> Same(x, Origin)
         /\ Lin(x) + 1 = ClusterSize <=> \A a \in Axes : x[a] + 1 = ClusterDim[a]
<1> DEFINE A == ClusterDim[1]
           B == ClusterDim[2]
           C == ClusterDim[3]
           m == x[2] + B * x[3]
<1>1. /\ A \in Nat /\ B \in Nat /\ C \in Nat /\ Axes = {1, 2, 3}
      /\ x[1] \in Nat /\ x[2] \in Nat /\ x[3] \in Nat /\ x[1] < A /\ x[2] < B /\ x[3] < C
  BY ShapeFacts
<1>2. /\ m \in Nat /\ B * C \in Nat /\ m < B * C
      /\ m = 0 <=> x[2] = 0 /\ x[3] = 0
      /\ m + 1 = B * C <=> x[2] + 1 = B /\ x[3] + 1 = C
  <2> DEFINE y == x[2]
             z == x[3]
  <2>1. y \in Nat /\ z \in Nat /\ B \in Nat /\ C \in Nat /\ y < B /\ z < C /\ m = y + B * z
    BY <1>1
  <2> HIDE DEF A, B, C, y, z, m
  <2>2. /\ y + B * z \in Nat /\ B * C \in Nat /\ y + B * z < B * C
        /\ y + B * z = 0 <=> y = 0 /\ z = 0
        /\ y + B * z + 1 = B * C <=> y + 1 = B /\ z + 1 = C
    BY <2>1, Digit
  <2> QED BY <2>1, <2>2 DEF y, z
<1> DEFINE E == B * C
<1>3. ClusterSize = A * E
  <2>1. ClusterSize = A * B * C
    BY DEF ClusterSize, Volume
  <2> HIDE DEF A, B, C
  <2> QED BY <1>1, <2>1
<1>4. Lin(x) = x[1] + A * m
  BY DEF Lin
<1> HIDE DEF A, B, C, m, E
<1>5. /\ Lin(x) \in Nat /\ A * E \in Nat /\ Lin(x) < A * E
      /\ Lin(x) = 0 <=> x[1] = 0 /\ m = 0
      /\ Lin(x) + 1 = A * E <=> x[1] + 1 = A /\ m + 1 = E
  BY <1>1, <1>2, <1>4, Digit DEF E
<1>6. Same(x, Origin) <=> x[1] = 0 /\ x[2] = 0 /\ x[3] = 0
  BY <1>1 DEF Same, Origin
<1>7. (\A a \in Axes : x[a] + 1 = ClusterDim[a]) <=> x[1] + 1 = A /\ x[2] + 1 = B /\ x[3] + 1 = C
  BY <1>1 DEF A, B, C
<1> QED BY <1>2, <1>3, <1>5, <1>6, <1>7 DEF E

(* Every step of the KMU counts one further, and it leaves the cluster     *)
(* after the last place only.                                              *)
LEMMA LinStep ==
  ASSUME NEW q, KmuOK(q), NEW q2, q2 = KmuStep(q)
  PROVE  /\ Lin(q2.intra) = IF Lin(q.intra) + 1 = ClusterSize THEN 0 ELSE Lin(q.intra) + 1
         /\ Lin(q.intra) + 1 # ClusterSize => q2.origin = q.origin /\ q2.running
<1> DEFINE in == Odometer(q.intra, Unit, ClusterDim)
           A == ClusterDim[1]
           B == ClusterDim[2]
           x == q.intra
           y == q2.intra
<1>1. Moves(q.intra, Unit, ClusterDim, in)
  BY OdometerIs
<1>2. q.intra \in [Axes -> Nat] /\ \A a \in Axes : q.intra[a] < ClusterDim[a]
  BY DEF KmuOK, Kmus
<1>3. /\ q2.intra = in.pos /\ (~in.wrapped => q2.running /\ q2.origin = q.origin)
  BY DEF KmuStep
<1>4. /\ Unit[1] = 1 /\ Unit[2] = 1 /\ Unit[3] = 1 /\ Axes = {1, 2, 3}
      /\ \A a \in Axes : Unit[a] = 1
  BY DEF Unit, Axes
<1>5. Lin(x) + 1 = ClusterSize <=> \A a \in Axes : x[a] + 1 = ClusterDim[a]
  BY <1>2, LinFacts
<1>6. in.wrapped <=> \A a \in Axes : x[a] + 1 = ClusterDim[a]
  BY <1>1, <1>4 DEF Moves
<1>7. /\ x[1] \in Nat /\ x[2] \in Nat /\ x[3] \in Nat /\ A \in Nat /\ B \in Nat
  BY <1>2, <1>4, ShapeFacts
<1>8. CASE in.wrapped
  <2>1. y[1] = 0 /\ y[2] = 0 /\ y[3] = 0
    BY <1>1, <1>3, <1>4, <1>6, <1>8 DEF Moves
  <2>2. Lin(y) = 0
    BY <1>7, <2>1 DEF Lin
  <2> QED BY <1>5, <1>6, <1>8, <2>2
<1>9. CASE ~in.wrapped
  <2>1. Lin(y) = Lin(x) + 1
    <3>1. CASE x[1] + 1 # A
      <4>1. y[1] = x[1] + 1 /\ y[2] = x[2] /\ y[3] = x[3]
        BY <1>1, <1>3, <1>4, <3>1 DEF Moves
      <4> DEFINE p == A * (x[2] + B * x[3])
      <4>2. p \in Nat /\ Lin(x) = x[1] + p /\ Lin(y) = y[1] + p
        BY <1>7, <4>1 DEF Lin
      <4> HIDE DEF p
      <4> QED BY <1>7, <4>1, <4>2
    <3>2. CASE x[1] + 1 = A /\ x[2] + 1 # B
      <4>1. y[1] = 0 /\ y[2] = x[2] + 1 /\ y[3] = x[3]
        BY <1>1, <1>3, <1>4, <3>2 DEF Moves
      <4> DEFINE p == B * x[3]
      <4>2. p \in Nat /\ Lin(x) = x[1] + A * (x[2] + p) /\ Lin(y) = 0 + A * (x[2] + 1 + p)
        BY <1>7, <4>1 DEF Lin
      <4> HIDE DEF p
      <4>3. A * (x[2] + 1 + p) = A * (x[2] + p) + A /\ A * (x[2] + p) \in Nat
        BY <1>7, <4>2
      <4> QED BY <1>7, <3>2, <4>2, <4>3
    <3>3. CASE x[1] + 1 = A /\ x[2] + 1 = B
      <4>1. x[3] + 1 # ClusterDim[3]
        BY <1>4, <1>6, <1>9, <3>3
      <4>2. y[1] = 0 /\ y[2] = 0 /\ y[3] = x[3] + 1
        BY <1>1, <1>3, <1>4, <3>3, <4>1 DEF Moves
      <4> DEFINE p == B * x[3]
      <4>3. p \in Nat /\ Lin(x) = x[1] + A * (x[2] + p) /\ Lin(y) = 0 + A * (0 + B * (x[3] + 1))
        BY <1>7, <4>2 DEF Lin
      <4>4. B * (x[3] + 1) = p + B
        BY <1>7
      <4> HIDE DEF p
      <4>5. A * (p + B) = A * (x[2] + p) + A /\ A * (x[2] + p) \in Nat
        <5>1. p + B = (x[2] + p) + 1
          BY <1>7, <3>3, <4>3
        <5> QED BY <1>7, <4>3, <5>1
      <4>6. Lin(y) = A * (p + B)
        BY <1>7, <4>3, <4>4
      <4> QED BY <1>7, <3>3, <4>3, <4>5, <4>6
    <3> QED BY <3>1, <3>2, <3>3
  <2> QED BY <1>3, <1>5, <1>6, <1>9, <2>1
<1> QED BY <1>8, <1>9


(* The place of a block, and that of the one that comes next.              *)
LEMMA RankFacts ==
  ASSUME NEW k \in Blocks
  PROVE  /\ RankInCluster(k) = Lin(IntraOf(k)) /\ RankInCluster(k) \in Nat
         /\ RankInCluster(k) < ClusterSize /\ ClusterSize \in Nat
<1>1. RankInCluster(k) = Lin(IntraOf(k))
  BY DEF RankInCluster, Lin, IntraOf, Axes
<1>2. IntraOf(k) \in [Axes -> Nat] /\ \A a \in Axes : IntraOf(k)[a] < ClusterDim[a]
  BY PlaceFacts
<1> QED BY <1>1, <1>2, LinFacts

(* The next block is the pending one, else the one the KMU is at.          *)
NextRank(q, d) == IF d.pending.has THEN RankInCluster(d.pending.block) ELSE Lin(q.intra)
NextIn(q, d, b) == \/ d.pending.has /\ Same(OriginOf(d.pending.block), OriginOf(b))
                   \/ ~d.pending.has /\ q.running /\ Same(q.origin, OriginOf(b))

(* Block b is in slot s, started or being started.                         *)
PlacedAt(d, act, W, b, s) == \/ d.has_cta /\ d.block = b /\ d.slot = s
                             \/ \E w \in act : W[w].block = b /\ W[w].slot = s

(* A block is at its place in a window of the cluster's size; so are the   *)
(* others of its cluster, in the same window; and the tail is where the    *)
(* next block belongs.                                                     *)
Homed(q, d, b, s) ==
  /\ (s % ClusterSize) = RankInCluster(b)
  /\ NextIn(q, d, b) => /\ RankInCluster(b) < NextRank(q, d)
                        /\ s + NextRank(q, d) = d.tail + RankInCluster(b)
Together(d, act, W) ==
  \A b, c \in Blocks, s, t \in Wids :
    /\ PlacedAt(d, act, W, b, s) /\ PlacedAt(d, act, W, c, t)
    /\ Same(OriginOf(b), OriginOf(c))
    => s + RankInCluster(c) = t + RankInCluster(b)
TailAt(q, d) ==
  /\ (d.tail % ClusterSize) = NextRank(q, d)
  /\ NextRank(q, d) # 0 => d.tail + ClusterSize <= UsableSlots + NextRank(q, d)
Follows(q, d) ==
  d.pending.has =>
    /\ d.pending.first <=> NextRank(q, d) = 0
    /\ Lin(q.intra) = IF NextRank(q, d) + 1 = ClusterSize THEN 0 ELSE NextRank(q, d) + 1
    /\ NextRank(q, d) + 1 # ClusterSize =>
         q.running /\ Same(q.origin, OriginOf(d.pending.block))
Place(q, d, act, W) ==
  /\ \A b \in Blocks, s \in Wids : PlacedAt(d, act, W, b, s) => Homed(q, d, b, s)
  /\ Together(d, act, W) /\ TailAt(q, d) /\ Follows(q, d)

(* Nothing new is placed.                                                  *)
Fewer(d, act, W, e, act2, V) ==
  \A b \in Blocks, s \in Wids : PlacedAt(e, act2, V, b, s) => PlacedAt(d, act, W, b, s)

(* Blocks may go away.                                                     *)
LEMMA PlaceFewer ==
  ASSUME NEW q, NEW d, NEW act, NEW W, Place(q, d, act, W),
         NEW e, NEW act2, NEW V, Fewer(d, act, W, e, act2, V),
         e.tail = d.tail, e.pending = d.pending
  PROVE  Place(q, e, act2, V)
<1>1. NextRank(q, e) = NextRank(q, d)
  BY DEF NextRank
<1>2. \A b : NextIn(q, e, b) <=> NextIn(q, d, b)
  BY DEF NextIn
<1>3. \A b, s : Homed(q, e, b, s) <=> Homed(q, d, b, s)
  BY <1>1, <1>2 DEF Homed
<1>4. Together(e, act2, V)
  BY Zenon DEF Place, Together, Fewer
<1>5. TailAt(q, e) /\ Follows(q, e)
  BY <1>1 DEF Place, TailAt, Follows
<1>6. \A b \in Blocks, s \in Wids : PlacedAt(e, act2, V, b, s) => Homed(q, e, b, s)
  BY <1>3, Zenon DEF Place, Fewer
<1> QED BY <1>4, <1>5, <1>6 DEF Place

(* The dispatcher with the request it has pending after that of the KMU.   *)
Requested == [disp EXCEPT !.pending = Pending]

(* A block is taken from the KMU.                                          *)
LEMMA TakePlace ==
  ASSUME NEW act \in SUBSET Wids, NEW W, NEW f, DispOK(kmu, disp, act, W, f),
         Place(kmu, disp, act, W), NEW d, d = Requested
  PROVE  Place(KmuAfter, d, act, W)
<1>1. disp \in Disps /\ KmuOK(kmu)
  BY DEF DispOK
<1>2. CASE ~Takes
  <2>1. KmuAfter = kmu /\ Pending = disp.pending
    BY <1>2 DEF KmuAfter, Pending
  <2>2. d = disp
    BY <1>1, <2>1 DEF Disps, Requested
  <2> QED BY <2>1, <2>2
<1>3. CASE Takes
  <2> DEFINE q2 == KmuStep(kmu)
             k == KmuRequest(kmu).block
             n == Lin(kmu.intra)
  <2>1. /\ KmuAfter = q2 /\ Pending = KmuRequest(kmu) /\ ~disp.pending.has /\ kmu.running
    BY <1>3 DEF KmuAfter, Pending, Takes
  <2>2. k \in Blocks /\ Same(kmu.origin, OriginOf(k)) /\ Same(kmu.intra, IntraOf(k))
    BY <1>1, KmuBlock
  <2>3. /\ Pending.has /\ Pending.block = k /\ (Pending.first <=> kmu.intra = Origin)
    BY <2>1 DEF KmuRequest
  <2>4. /\ d.pending = Pending /\ d.tail = disp.tail /\ d.has_cta = disp.has_cta
        /\ d.block = disp.block /\ d.slot = disp.slot
    BY <1>1 DEF Disps, Requested
  <2> HIDE DEF k
  <2>5. RankInCluster(k) = n
    <3>1. 1 \in Axes /\ 2 \in Axes /\ 3 \in Axes
      BY DEF Axes
    <3>2. RankInCluster(k) = Lin(IntraOf(k))
      BY <2>2, RankFacts
    <3> QED BY <2>2, <3>1, <3>2 DEF Lin, Same
  <2>6. NextRank(kmu, disp) = n /\ NextRank(q2, d) = n
    BY <2>1, <2>3, <2>4, <2>5 DEF NextRank
  <2>7. \A b : NextIn(q2, d, b) <=> NextIn(kmu, disp, b)
    <3>1. \A b : NextIn(q2, d, b) <=> Same(OriginOf(k), OriginOf(b))
      BY <2>3, <2>4 DEF NextIn
    <3>2. \A b : NextIn(kmu, disp, b) <=> Same(kmu.origin, OriginOf(b))
      BY <2>1 DEF NextIn
    <3> QED BY <2>2, <3>1, <3>2 DEF Same
  <2>8. \A b, s : Homed(q2, d, b, s) <=> Homed(kmu, disp, b, s)
    BY <2>4, <2>6, <2>7 DEF Homed
  <2>9. \A b, s : PlacedAt(d, act, W, b, s) <=> PlacedAt(disp, act, W, b, s)
    BY <2>4 DEF PlacedAt
  <2>10. TailAt(q2, d)
    BY <2>4, <2>6 DEF Place, TailAt
  <2>11. Together(d, act, W)
    BY <2>9, Zenon DEF Place, Together
  <2>12. Follows(q2, d)
    <3>1. /\ Lin(q2.intra) = IF n + 1 = ClusterSize THEN 0 ELSE n + 1
          /\ n + 1 # ClusterSize => q2.origin = kmu.origin /\ q2.running
      BY <1>1, LinStep
    <3>2. Pending.first <=> n = 0
      <4>1. kmu.intra \in [Axes -> Nat] /\ \A a \in Axes : kmu.intra[a] < ClusterDim[a]
        BY <1>1 DEF KmuOK, Kmus
      <4>2. n = 0 <=> Same(kmu.intra, Origin)
        BY <4>1, LinFacts
      <4>3. Same(kmu.intra, Origin) <=> kmu.intra = Origin
        BY <4>1, BlockFacts DEF Same
      <4> QED BY <2>3, <4>2, <4>3
    <3> HIDE DEF n, q2
    <3> QED BY <2>2, <2>3, <2>4, <2>6, <3>1, <3>2 DEF Follows
  <2> HIDE DEF q2
  <2>13. \A b \in Blocks, s \in Wids : PlacedAt(d, act, W, b, s) => Homed(q2, d, b, s)
    BY <2>8, <2>9, Zenon DEF Place
  <2> QED BY <2>1, <2>10, <2>11, <2>12, <2>13 DEF Place
<1> QED BY <1>2, <1>3


(* Blocks of a cluster the KMU is at the beginning of are all before it.   *)
LEMMA ClusterAhead ==
  ASSUME NEW q, KmuOK(q), q.running, Lin(q.intra) = 0, NEW b \in Blocks,
         Same(q.origin, OriginOf(b))
  PROVE  Ahead(q, b)
<1>1. q.intra \in [Axes -> Nat] /\ \A a \in Axes : q.intra[a] < ClusterDim[a]
  BY DEF KmuOK, Kmus
<1>2. Same(q.intra, Origin)
  BY <1>1, LinFacts
<1>3. q.intra[1] = 0 /\ q.intra[2] = 0 /\ q.intra[3] = 0 /\ Axes = {1, 2, 3}
  BY <1>2, BlockFacts, ShapeFacts DEF Same
<1>4. IntraOf(b)[1] \in Nat /\ IntraOf(b)[2] \in Nat /\ IntraOf(b)[3] \in Nat
  BY <1>3, PlaceFacts
<1>5. Same(q.intra, IntraOf(b)) \/ Lt(q.intra, IntraOf(b))
  <2> DEFINE x == IntraOf(b)
  <2> HIDE DEF x
  <2>1. x[1] \in Nat /\ x[2] \in Nat /\ x[3] \in Nat
    BY <1>4 DEF x
  <2>2. x[3] > 0 \/ x[3] = 0
    BY <2>1
  <2>3. x[2] > 0 \/ x[2] = 0
    BY <2>1
  <2>4. x[1] > 0 \/ x[1] = 0
    BY <2>1
  <2>5. Same(q.intra, x) \/ Lt(q.intra, x)
    BY <1>3, <2>2, <2>3, <2>4 DEF Same, Lt
  <2> QED BY <2>5 DEF x
<1> QED BY <1>5 DEF Ahead

(* A block that is placed is not before the KMU.                           *)
LEMMA PlacedPast ==
  ASSUME NEW q, NEW d, NEW act, NEW W, NEW f, DispOK(q, d, act, W, f),
         \A w \in act : W[w].rank \in Ranks,
         NEW b \in Blocks, NEW s, PlacedAt(d, act, W, b, s)
  PROVE  ~Ahead(q, b)
<1>1. \A r \in Ranks : Stage(q, d, act, W, f, b, r)
  BY DEF DispOK
<1>2. CASE d.has_cta /\ d.block = b
  <2>1. d.rank \in Nat /\ d.rank < CtaSize
    <3>1. d \in Disps /\ Begins(d)
      BY DEF DispOK
    <3>2. d.rank \in 0..CtaSize
      BY <3>1 DEF Disps
    <3> QED BY <1>2, <3>1, <3>2, CtaFacts DEF Begins
  <2>2. d.rank \in Ranks
    BY <2>1, CtaFacts DEF Ranks
  <2>3. Loading(d, b, d.rank)
    BY <1>2, <2>1 DEF Loading
  <2> QED BY <1>1, <2>2, <2>3 DEF Stage, Waiting
<1>3. ASSUME NEW w \in act, W[w].block = b PROVE ~Ahead(q, b)
  <2>1. Runs(act, W, w, b, W[w].rank)
    BY <1>3 DEF Runs
  <2> QED BY <1>1, <1>3, <2>1 DEF Stage, Waiting
<1> QED BY <1>2, <1>3 DEF PlacedAt

Rem(a, b) == a % b

(* The slot after that of a block.                                         *)
LEMMA SlotAfter ==
  ASSUME NEW C \in Nat, NEW U \in Nat, NEW n \in Nat, NEW b \in Nat, n < C, b < U,
         Rem(b, C) = n, b + C <= U + n, NEW t, t = Rem(b + 1, U),
         NEW m, n + 1 = C => m = 0, n + 1 # C => m = n + 1
  PROVE  /\ Rem(t, C) = m /\ t \in Nat
         /\ m # 0 => m = n + 1 /\ t = b + 1 /\ t + C <= U + m
<1> USE DEF Rem
<1> DEFINE i == b \div C
<1>1. i \in Nat /\ b = C * i + n
  BY DivMod
<1> HIDE DEF i
<1>2. C * i \in Nat
  BY <1>1
<1>3. CASE b + 1 = U
  <2>1. t = 0
    BY <1>3, DivUnique
  <2>2. n + 1 = C
    BY <1>3
  <2>3. (0 % C) = 0
    OBVIOUS
  <2> QED BY <2>1, <2>2, <2>3
<1>4. CASE b + 1 # U
  <2>1. t = b + 1
    <3>1. b + 1 < U /\ b + 1 \in Nat /\ U >= 1
      BY <1>4
    <3>2. b + 1 = U * 0 + (b + 1)
      BY <3>1
    <3> QED BY <3>1, <3>2, DivUnique
  <2>2. CASE n + 1 = C
    <3>1. b + 1 = C * (i + 1) + 0 /\ i + 1 \in Nat /\ b + 1 \in Nat /\ C >= 1
      <4>1. C * (i + 1) = C * i + C
        BY <1>1
      <4> QED BY <1>1, <1>2, <2>2, <4>1
    <3>2. ((b + 1) % C) = 0
      BY <3>1, DivUnique
    <3> QED BY <2>1, <2>2, <3>1, <3>2
  <2>3. CASE n + 1 # C
    <3>1. b + 1 = C * i + (n + 1) /\ n + 1 < C /\ n + 1 \in Nat /\ b + 1 \in Nat /\ C >= 1
      BY <1>1, <1>2, <2>3
    <3>2. ((b + 1) % C) = n + 1
      BY <1>1, <3>1, DivUnique
    <3> QED BY <2>1, <2>3, <3>1, <3>2
  <2> QED BY <2>2, <2>3
<1> QED BY <1>3, <1>4


(* The pending block is put where its cluster belongs.                     *)
LEMMA LoadPlace ==
  ASSUME ClusterSize <= UsableSlots,
         NEW act \in SUBSET Wids, NEW W, NEW f, DispOK(kmu, disp, act, W, f),
         Place(kmu, disp, act, W), \A w \in act : W[w].rank \in Ranks
  PROVE  Place(KmuAfter, Loaded, act, W)
<1> DEFINE q == KmuAfter
           d == Requested
           e == Admitted
           b0 == Base(Pending)
           k0 == Pending.block
           n == RankInCluster(k0)
           m == Lin(q.intra)
           C == ClusterSize
           U == UsableSlots
<1>1. disp \in Disps /\ DispOK(q, d, act, W, f) /\ DispOK(q, Loaded, act, W, f)
  BY TakeOK, LoadOK DEF DispOK, Requested
<1>2. Place(q, d, act, W)
  BY TakePlace
<1>3. CASE ~Admits
  BY <1>2, <1>3 DEF Loaded, Requested
<1>4. CASE Admits
  <2>1. /\ b0 \in 0..(U - 1) /\ b0 \in Wids /\ ~disp.has_cta /\ Pending.has
    BY <1>1, <1>4, BaseFacts
  <2>2. Loaded = e
    BY <1>4 DEF Loaded
  <2>3. d.pending = Pending /\ d.tail = disp.tail /\ d.has_cta = disp.has_cta
    BY <1>1 DEF Disps, Requested
  <2>4. /\ e.pending = None /\ e.has_cta = TRUE /\ e.block = k0 /\ e.slot = b0
        /\ e.tail = (b0 + 1) % U
    <3> DEFINE t == (b0 + 1) % U
    <3>1. e = [disp EXCEPT !.pending = None, !.has_cta = TRUE,
                 !.block = k0, !.slot = b0, !.rank = 0, !.rem = BlockSize, !.tid = Origin,
                 !.tail = t, !.slot_rem[b0] = CtaSize]
      BY DEF Admitted
    <3> HIDE DEF t, b0, k0, e
    <3>2. e.pending = None /\ e.has_cta = TRUE /\ e.block = k0 /\ e.slot = b0 /\ e.tail = t
      BY <1>1, <3>1 DEF Disps
    <3> QED BY <3>2 DEF t
  <2>5. KmuOK(q) /\ k0 \in Blocks
    <3>1. d \in Disps
      BY <1>1 DEF DispOK
    <3>2. Pending \in Requests
      BY <2>3, <3>1 DEF Disps
    <3> QED BY <1>1, <3>2 DEF DispOK, Requests
  <2>6. /\ n \in Nat /\ n < C /\ C \in Nat /\ U \in Nat /\ U >= 1 /\ disp.tail \in 0..(U - 1)
        /\ TailSlot = disp.tail
    <3>1. disp.tail \in 0..(U - 1) /\ U \in Nat
      BY <1>1, SlotFacts DEF Disps
    <3> QED BY <2>5, <3>1, RankFacts, SlotFacts DEF TailSlot
  <2>7. NextRank(q, d) = n /\ NextRank(q, e) = m
    BY <2>1, <2>3, <2>4 DEF NextRank, None
  <2>8. /\ \A b : NextIn(q, d, b) <=> Same(OriginOf(k0), OriginOf(b))
        /\ \A b : NextIn(q, e, b) <=> q.running /\ Same(q.origin, OriginOf(b))
    BY <2>1, <2>3, <2>4 DEF NextIn, None
  <2>9. /\ (disp.tail % C) = n /\ (n # 0 => disp.tail + C <= U + n)
    BY <1>2, <2>3, <2>7 DEF Place, TailAt
  <2>10. /\ Pending.first <=> n = 0
         /\ m = IF n + 1 = C THEN 0 ELSE n + 1
         /\ n + 1 # C => Same(q.origin, OriginOf(k0))
    <3>1. Follows(q, d)
      BY <1>2 DEF Place
    <3> HIDE DEF q, d, n, k0, C
    <3> QED BY <2>1, <2>3, <2>7, <3>1 DEF Follows, m, k0, C
  <2>11. b0 = IF n = 0 /\ disp.tail + C > U THEN 0 ELSE disp.tail
    BY <2>6, <2>10 DEF Base
  <2> HIDE DEF q, d, e, b0, k0, n, m, C, U
  <2>12. (b0 % C) = n /\ b0 + C <= U + n /\ (n # 0 => b0 = disp.tail)
    <3>1. C <= U /\ (0 % C) = 0
      BY <2>6 DEF C, U
    <3> QED BY <2>6, <2>9, <2>11, <3>1
  <2>13. b0 \in Nat /\ b0 < U
    BY <2>1, <2>6
  <2> DEFINE t == e.tail
  <2>14. /\ (t % C) = m /\ t \in Nat
         /\ m # 0 => m = n + 1 /\ t = b0 + 1 /\ t + C <= U + m
    <3>1. t = Rem(b0 + 1, U) /\ Rem(b0, C) = n /\ Rem(t, C) = t % C
      BY <2>4, <2>12 DEF Rem
    <3>2. (n + 1 = C => m = 0) /\ (n + 1 # C => m = n + 1)
      BY <2>10
    <3> HIDE DEF t
    <3>3. /\ Rem(t, C) = m /\ t \in Nat
          /\ m # 0 => m = n + 1 /\ t = b0 + 1 /\ t + C <= U + m
      BY <2>6, <2>12, <2>13, <3>1, <3>2, SlotAfter
    <3> QED BY <3>1, <3>3
  <2> HIDE DEF t
  <2>15. \A b, s : PlacedAt(e, act, W, b, s) =>
           (b = k0 /\ s = b0) \/ PlacedAt(d, act, W, b, s)
    BY <2>1, <2>4 DEF PlacedAt
  <2>16. \A b \in Blocks, s \in Wids : PlacedAt(d, act, W, b, s) =>
           /\ (s % C) = RankInCluster(b)
           /\ Same(OriginOf(k0), OriginOf(b)) =>
                RankInCluster(b) < n /\ s + n = disp.tail + RankInCluster(b)
    BY <1>2, <2>3, <2>7, <2>8 DEF Place, Homed, C
  <2>17. \A b \in Blocks, s \in Wids : PlacedAt(d, act, W, b, s) /\ Same(OriginOf(k0), OriginOf(b)) =>
           RankInCluster(b) < n /\ s + n = b0 + RankInCluster(b)
    <3> SUFFICES ASSUME NEW b \in Blocks, NEW s \in Wids, PlacedAt(d, act, W, b, s),
                        Same(OriginOf(k0), OriginOf(b))
                 PROVE  RankInCluster(b) < n /\ s + n = b0 + RankInCluster(b)
      OBVIOUS
    <3>1. RankInCluster(b) < n /\ s + n = disp.tail + RankInCluster(b) /\ RankInCluster(b) \in Nat
      BY <2>16, RankFacts
    <3>2. b0 = disp.tail
      BY <2>6, <2>12, <3>1
    <3> QED BY <3>1, <3>2
  <2>18. ASSUME NEW b \in Blocks, NEW s \in Wids, PlacedAt(e, act, W, b, s)
         PROVE  Homed(q, e, b, s)
    <3>1. (s % C) = RankInCluster(b)
      BY <2>12, <2>15, <2>16, <2>18 DEF n
    <3>2. ASSUME NextIn(q, e, b) PROVE RankInCluster(b) < m /\ s + m = t + RankInCluster(b)
      <4>1. q.running /\ Same(q.origin, OriginOf(b))
        BY <2>8, <3>2
      <4>2. m # 0
        <5>1. ~Ahead(q, b)
          BY <1>1, <2>2, <2>18, PlacedPast DEF q, e
        <5> QED BY <2>5, <4>1, <5>1, ClusterAhead DEF m
      <4>3. m = n + 1 /\ t = b0 + 1 /\ n + 1 # C
        BY <2>10, <2>14, <4>2
      <4>4. Same(OriginOf(k0), OriginOf(b))
        BY <2>10, <4>1, <4>3 DEF Same
      <4>5. CASE b = k0 /\ s = b0
        BY <2>6, <2>13, <4>3, <4>5 DEF n
      <4>6. CASE PlacedAt(d, act, W, b, s)
        <5>1. RankInCluster(b) < n /\ s + n = b0 + RankInCluster(b) /\ RankInCluster(b) \in Nat
              /\ s \in Nat
          BY <2>17, <4>4, <4>6, RankFacts, SizeFacts
        <5> QED BY <2>6, <2>13, <4>3, <5>1
      <4> QED BY <2>15, <2>18, <4>5, <4>6
    <3> QED BY <2>7, <3>1, <3>2 DEF Homed, C, t
  <2>19. Together(e, act, W)
    <3> SUFFICES ASSUME NEW b \in Blocks, NEW c \in Blocks, NEW s \in Wids, NEW u \in Wids,
                        PlacedAt(e, act, W, b, s), PlacedAt(e, act, W, c, u),
                        Same(OriginOf(b), OriginOf(c))
                 PROVE  s + RankInCluster(c) = u + RankInCluster(b)
      BY Zenon DEF Together
    <3>1. s \in Nat /\ u \in Nat /\ RankInCluster(b) \in Nat /\ RankInCluster(c) \in Nat
      BY RankFacts, SizeFacts
    <3>2. Same(OriginOf(c), OriginOf(b))
      BY DEF Same
    <3>3. CASE b = k0 /\ s = b0 /\ c = k0 /\ u = b0
      BY <3>3
    <3>4. CASE b = k0 /\ s = b0 /\ PlacedAt(d, act, W, c, u)
      <4>1. u + n = b0 + RankInCluster(c)
        BY <2>17, <3>4
      <4> QED BY <3>4, <4>1 DEF n
    <3>5. CASE PlacedAt(d, act, W, b, s) /\ c = k0 /\ u = b0
      <4>1. s + n = b0 + RankInCluster(b)
        BY <2>17, <3>2, <3>5
      <4> QED BY <3>5, <4>1 DEF n
    <3>6. CASE PlacedAt(d, act, W, b, s) /\ PlacedAt(d, act, W, c, u)
      BY <1>2, <3>6, Zenon DEF Place, Together
    <3> QED BY <2>15, <3>3, <3>4, <3>5, <3>6
  <2>20. TailAt(q, e)
    BY <2>7, <2>14 DEF TailAt, t, C, U
  <2>21. Follows(q, e)
    BY <2>4 DEF Follows, None
  <2>22. Place(q, e, act, W)
    BY <2>18, <2>19, <2>20, <2>21 DEF Place
  <2> QED BY <2>2, <2>22 DEF q
<1> QED BY <1>3, <1>4


(* A cycle of the scheduler puts blocks where they belong.                 *)
LEMMA SchedulePlace ==
  ASSUME ClusterSize <= UsableSlots, IInv, Place(kmu, disp, active, warp), Schedule
  PROVE  Place(kmu, disp, active, warp)'
<1> DEFINE new == IF Starts(active) THEN {StartedWid(active)} ELSE {}
           d == Loaded
           e == Started(active)
           q == KmuAfter
<1>1. /\ active \in SUBSET Wids /\ DispOK(kmu, disp, active, warp, Fin)
      /\ \A w \in active : warp[w].rank \in Ranks
  BY DEF IInv, Types, Warps
<1>2. Place(q, d, active, warp) /\ d \in Disps
  BY <1>1, LoadPlace, LoadOK DEF DispOK
<1>3. new \subseteq Wids /\ new \cap active = {}
  BY StartFacts
<1>4. /\ kmu' = q /\ disp' = e /\ active' = active \cup new
      /\ warp' = [w \in Wids |-> IF w \in new THEN Activated ELSE warp[w]]
  BY DEF Schedule
<1>5. /\ e.tail = d.tail /\ e.pending = d.pending /\ e.block = d.block /\ e.slot = d.slot
      /\ e.has_cta => d.has_cta
      /\ new # {} => d.has_cta
  <2>1. CASE ~Starts(active)
    BY <2>1 DEF Started
  <2>2. CASE Starts(active)
    <3> DEFINE m == StartedMask
               w == StartedWid(active)
    <3>1. e = AfterStart(d, w, m) /\ d.has_cta
      BY <2>2 DEF Started, AfterStart, Starts
    <3> HIDE DEF m, w, d, e
    <3> QED BY <1>2, <3>1 DEF AfterStart, Disps
  <2> QED BY <2>1, <2>2
<1>6. Activated.block = d.block /\ Activated.slot = d.slot
  <2> HIDE DEF d
  <2>1. Activated = [Retired EXCEPT !.tmask = StartedMask, !.block = d.block,
                       !.rank = d.rank, !.slot = d.slot, !.tid = d.tid]
    BY DEF Activated, d
  <2> QED BY <2>1, FreshWarps DEF Warps
<1> HIDE DEF new, d, e, q
<1>7. /\ \A w \in active : warp'[w] = warp[w]
      /\ \A w \in new : warp'[w] = Activated
  BY <1>1, <1>3, <1>4
<1>8. Fewer(d, active, warp, e, active', warp')
  <2> SUFFICES ASSUME NEW b \in Blocks, NEW s \in Wids, PlacedAt(e, active', warp', b, s)
               PROVE  PlacedAt(d, active, warp, b, s)
    BY DEF Fewer
  <2>1. CASE e.has_cta /\ e.block = b /\ e.slot = s
    BY <1>5, <2>1 DEF PlacedAt
  <2>2. ASSUME NEW w \in active', warp'[w].block = b, warp'[w].slot = s
        PROVE  PlacedAt(d, active, warp, b, s)
    <3>1. CASE w \in active
      BY <1>7, <2>2, <3>1 DEF PlacedAt
    <3>2. CASE w \in new
      BY <1>5, <1>6, <1>7, <2>2, <3>2 DEF PlacedAt
    <3> QED BY <1>4, <3>1, <3>2
  <2> QED BY <2>1, <2>2 DEF PlacedAt
<1>9. Place(q, e, active', warp')
  BY <1>2, <1>5, <1>8, PlaceFewer
<1> QED BY <1>4, <1>9

(* A step that starts no warp moves none.                                  *)
LEMMA KeepPlace ==
  ASSUME Place(kmu, disp, active, warp), kmu' = kmu, active' \subseteq active,
         disp'.tail = disp.tail, disp'.pending = disp.pending, disp'.has_cta = disp.has_cta,
         disp'.block = disp.block, disp'.slot = disp.slot,
         \A w \in active' : warp'[w].block = warp[w].block /\ warp'[w].slot = warp[w].slot
  PROVE  Place(kmu, disp, active, warp)'
<1>1. Fewer(disp, active, warp, disp', active', warp')
  BY DEF Fewer, PlacedAt
<1>2. Place(kmu, disp', active', warp')
  BY <1>1, PlaceFewer
<1> QED BY <1>2

(* Every step keeps blocks where they belong.                              *)
LEMMA StepPlace ==
  ASSUME ClusterSize <= UsableSlots
  PROVE  IInv /\ Place(kmu, disp, active, warp) /\ [Next]_vars
           => Place(kmu, disp, active, warp)'
<1> SUFFICES ASSUME IInv, Place(kmu, disp, active, warp), [Next]_vars
             PROVE  Place(kmu, disp, active, warp)'
  OBVIOUS
<1>1. warp \in [Wids -> Warps] /\ active \subseteq Wids /\ disp \in Disps
  BY DEF IInv, Types, DispOK
<1>2. ASSUME kmu' = kmu, disp' = disp, active' = active,
             \A w \in Wids : warp'[w].block = warp[w].block /\ warp'[w].slot = warp[w].slot
      PROVE  Place(kmu, disp, active, warp)'
  BY <1>1, <1>2, KeepPlace
<1>3. ASSUME NEW w \in Wids, NEW r, warp' = [warp EXCEPT ![w] = r],
             r.block = warp[w].block, r.slot = warp[w].slot
      PROVE  \A v \in Wids : warp'[v].block = warp[v].block /\ warp'[v].slot = warp[v].slot
  BY <1>1, <1>3
<1>4. CASE Schedule
  BY <1>4, SchedulePlace
<1>5. ASSUME NEW w \in Wids, Decode(w) PROVE Place(kmu, disp, active, warp)'
  <2> DEFINE i == fetched[w] + 1
             r == [warp[w] EXCEPT !.pc = i]
  <2>1. kmu' = kmu /\ disp' = disp /\ active' = active /\ warp' = [warp EXCEPT ![w] = r]
    BY <1>1, <1>5 DEF Decode
  <2> HIDE DEF i
  <2>2. r.block = warp[w].block /\ r.slot = warp[w].slot
    BY <1>1 DEF Warps
  <2> HIDE DEF r
  <2> QED BY <1>2, <1>3, <2>1, <2>2
<1>6. ASSUME NEW w \in Wids, Exit(w) PROVE Place(kmu, disp, active, warp)'
  <2>1. /\ kmu' = kmu /\ disp' = WarpDone(disp, w) /\ active' = active \ {w}
        /\ warp' = [warp EXCEPT ![w] = Retired]
    BY <1>6 DEF Exit
  <2>2. /\ disp'.tail = disp.tail /\ disp'.pending = disp.pending
        /\ disp'.has_cta = disp.has_cta /\ disp'.block = disp.block /\ disp'.slot = disp.slot
    <3> DEFINE n == disp.slot_rem[disp.slot_of[w]] - 1
    <3>1. disp' = [disp EXCEPT !.slot_of[w] = NumWarps, !.slot_rem[disp.slot_of[w]] = n]
      BY <2>1 DEF WarpDone
    <3> HIDE DEF n
    <3> QED BY <1>1, <3>1, Zenon DEF Disps
  <2>3. \A v \in active' : warp'[v] = warp[v]
    BY <1>1, <2>1
  <2> QED BY <2>1, <2>2, <2>3, KeepPlace
<1>7. ASSUME NEW w \in Wids, Split(w) PROVE Place(kmu, disp, active, warp)'
  <2>1. kmu' = kmu /\ disp' = disp /\ active' = active
    BY <1>7 DEF Split
  <2>2. \A v \in Wids : warp'[v].block = warp[v].block /\ warp'[v].slot = warp[v].slot
    <3> DEFINE n == Len(warp[w].stack)
               j == Head(pipe[w])
    <3>1. \/ warp' = [warp EXCEPT ![w].sp[j] = n]
          \/ \E t, x : warp' = [warp EXCEPT ![w].tmask = t, ![w].sp[j] = n,
                                             ![w].stack = Append(@, x)]
      BY <1>7, Zenon DEF Split
    <3> HIDE DEF n, j
    <3>2. CASE warp' = [warp EXCEPT ![w].sp[j] = n]
      <4> DEFINE r == [warp[w] EXCEPT !.sp[j] = n]
      <4>1. r.block = warp[w].block /\ r.slot = warp[w].slot
        BY <1>1 DEF Warps
      <4>2. warp' = [warp EXCEPT ![w] = r]
        BY <1>1, <3>2
      <4> HIDE DEF r
      <4> QED BY <1>3, <4>1, <4>2
    <3>3. CASE ~(warp' = [warp EXCEPT ![w].sp[j] = n])
      <4>1. PICK t, x : warp' = [warp EXCEPT ![w].tmask = t, ![w].sp[j] = n,
                                             ![w].stack = Append(@, x)]
        BY <3>1, <3>3, Zenon
      <4> DEFINE r == [warp[w] EXCEPT !.tmask = t, !.sp[j] = n, !.stack = Append(@, x)]
      <4>2. r.block = warp[w].block /\ r.slot = warp[w].slot
        BY <1>1 DEF Warps
      <4>3. warp' = [warp EXCEPT ![w] = r]
        BY <1>1, <4>1
      <4> HIDE DEF r
      <4> QED BY <1>3, <4>2, <4>3
    <3> QED BY <3>2, <3>3
  <2> QED BY <1>2, <2>1, <2>2
<1>8. ASSUME NEW w \in Wids, Join(w) PROVE Place(kmu, disp, active, warp)'
  <2> DEFINE r == warp[w]
  <2>1. kmu' = kmu /\ disp' = disp /\ active' = active
    BY <1>8 DEF Join
  <2>2. \/ warp' = warp \/ warp' = [warp EXCEPT ![w] = Reconverged(r)]
        \/ warp' = [warp EXCEPT ![w] = OtherSide(r)]
    BY <1>8 DEF Join
  <2>3. Reconverged(r).block = r.block /\ Reconverged(r).slot = r.slot
    <3> DEFINE t == r.stack[Len(r.stack)].orig_tmask
               u == SubSeq(r.stack, 1, Len(r.stack) - 1)
    <3>1. Reconverged(r) = [r EXCEPT !.tmask = t, !.stack = u]
      BY DEF Reconverged
    <3>2. r \in Warps
      BY <1>1
    <3> HIDE DEF t, u, r
    <3> QED BY <3>1, <3>2 DEF Warps
  <2>4. OtherSide(r).block = r.block /\ OtherSide(r).slot = r.slot
    <3> DEFINE n == Len(r.stack)
               t == r.stack[n].orig_tmask \ r.tmask
               u == r.stack[n].else_PC
    <3>1. OtherSide(r) = [r EXCEPT !.tmask = t, !.pc = u, !.stack[n].fallthrough = TRUE]
      BY DEF OtherSide
    <3>2. r \in Warps
      BY <1>1
    <3> HIDE DEF n, t, u, r
    <3> QED BY <3>1, <3>2 DEF Warps
  <2>5. \A v \in Wids : warp'[v].block = warp[v].block /\ warp'[v].slot = warp[v].slot
    BY <1>3, <2>2, <2>3, <2>4
  <2> QED BY <1>2, <2>1, <2>5
<1>9. ASSUME NEW w \in Wids, BarArrive(w) PROVE Place(kmu, disp, active, warp)'
  <2> DEFINE b == Program[Head(pipe[w])].bar
             t == bars[warp[w].slot][b].phase % 2
             r == [warp[w] EXCEPT !.token[b] = t]
  <2>1. kmu' = kmu /\ disp' = disp /\ active' = active /\ warp' = [warp EXCEPT ![w] = r]
    <3>1. warp' = [warp EXCEPT ![w].token[b] = t]
      BY <1>9 DEF BarArrive
    <3> HIDE DEF b, t
    <3> QED BY <1>1, <1>9, <3>1 DEF BarArrive
  <2> HIDE DEF b, t
  <2>2. r.block = warp[w].block /\ r.slot = warp[w].slot
    BY <1>1 DEF Warps
  <2> HIDE DEF r
  <2> QED BY <1>2, <1>3, <2>1, <2>2
<1>10. ASSUME NEW w \in Wids, BarSync(w) \/ BarWait(w) \/ BarExpect(w) \/ Commit(w)
       PROVE  Place(kmu, disp, active, warp)'
  <2>1. kmu' = kmu /\ disp' = disp /\ active' = active /\ warp' = warp
    BY <1>10 DEF BarSync, BarWait, BarExpect, Commit
  <2> QED BY <1>2, <2>1
<1>11. ASSUME NEW t \in tx, EventRelease(t) PROVE Place(kmu, disp, active, warp)'
  <2>1. kmu' = kmu /\ disp' = disp /\ active' = active /\ warp' = warp
    BY <1>11 DEF EventRelease
  <2> QED BY <1>2, <2>1
<1>12. CASE UNCHANGED vars
  <2>1. kmu' = kmu /\ disp' = disp /\ active' = active /\ warp' = warp
    BY <1>12 DEF vars
  <2> QED BY <1>2, <2>1
<1> QED BY <1>4, <1>5, <1>6, <1>7, <1>8, <1>9, <1>10, <1>11, <1>12, Zenon DEF Next, Process

(* The blocks of a cluster sit side by side, each in the slot whose number *)
(* gives its rank in the cluster, for every grid and cluster shape whose   *)
(* clusters fit in the usable slots (otherwise CtaDispatcher::step clamps  *)
(* the window, and the blocks of a cluster are not resident together).     *)
THEOREM ClustersCorrect == ClusterSize <= UsableSlots => (Spec => []ClusterPlaced)
<1> SUFFICES ASSUME ClusterSize <= UsableSlots PROVE Spec => []ClusterPlaced
  OBVIOUS
<1>1. Init => Place(kmu, disp, active, warp)
  <2> SUFFICES ASSUME Init PROVE Place(kmu, disp, active, warp)
    OBVIOUS
  <2>1. /\ active = {} /\ disp.pending = None /\ disp.has_cta = FALSE /\ disp.tail = 0
        /\ kmu.intra = Origin
    BY DEF Init, DispatchInit
  <2>2. \A b, s : ~PlacedAt(disp, active, warp, b, s)
    BY <2>1 DEF PlacedAt
  <2>3. Origin \in Blocks /\ Origin \in [Axes -> Nat] /\ \A a \in Axes : Origin[a] < ClusterDim[a]
    BY BlockFacts, ShapeFacts
  <2>4. Lin(Origin) = 0 /\ ClusterSize \in Nat /\ 0 < ClusterSize
    BY <2>3, LinFacts DEF Same
  <2>5. NextRank(kmu, disp) = 0
    BY <2>1, <2>4 DEF NextRank, None
  <2>6. TailAt(kmu, disp)
    BY <2>1, <2>4, <2>5 DEF TailAt
  <2>7. Follows(kmu, disp)
    BY <2>1 DEF Follows, None
  <2> QED BY <2>2, <2>6, <2>7 DEF Place, Together
<1>2. IInv /\ Place(kmu, disp, active, warp) /\ [Next]_vars => Place(kmu, disp, active, warp)'
  BY StepPlace
<1>3. ASSUME IInv, Place(kmu, disp, active, warp) PROVE ClusterPlaced
  <2>1. \A w \in active : /\ warp[w].block \in Blocks /\ warp[w].slot \in Wids
                          /\ PlacedAt(disp, active, warp, warp[w].block, warp[w].slot)
    BY <1>3 DEF IInv, Types, Warps, PlacedAt
  <2>2. \A w \in active : warp[w].slot % ClusterSize = RankInCluster(warp[w].block)
    BY <1>3, <2>1 DEF Place, Homed
  <2>3. ASSUME NEW v \in active, NEW w \in active,
               \A a \in Axes : warp[v].block[a] \div ClusterDim[a] = warp[w].block[a] \div ClusterDim[a]
        PROVE  warp[w].slot + RankInCluster(warp[v].block)
               = warp[v].slot + RankInCluster(warp[w].block)
    <3>1. Same(OriginOf(warp[w].block), OriginOf(warp[v].block))
      BY <2>3 DEF Same, OriginOf
    <3>2. Together(disp, active, warp)
      BY <1>3 DEF Place
    <3> QED BY <2>1, <3>1, <3>2, Zenon DEF Together
  <2> QED BY <2>2, <2>3 DEF ClusterPlaced
<1> QED BY <1>1, <1>2, <1>3, Invariance, PTL DEF Spec

-----------------------------------------------------------------------------
(***************************************************************************)
(* What a barrier means to a block, in programs that are Disciplined.      *)
(***************************************************************************)
(* The instructions at which a warp of this rank meets others; they are    *)
(* outside of all splits, so that a warp runs each of them once.           *)
Meets == At("sync") \cup At("arrive")
Once(rank) == Meets \cup {i \in At("expect") : rank = 0}

(* What the unit holds of a warp it holds in program order, and nothing    *)
(* the warp has passed is missing.                                         *)
After(p, pc, k) == IF k < Len(p) THEN p[k + 1] ELSE pc
Sorted(p, pc, rank) ==
  \A k \in 1..Len(p) : /\ p[k] < After(p, pc, k) /\ p[k] < pc
                       /\ \A i \in Once(rank) : ~(p[k] < i /\ i < After(p, pc, k))
                       /\ Program[p[k]].op = "expect" => rank = 0

(* The first instruction of a warp the unit has not processed.             *)
Front(p, pc) == IF p = <<>> THEN pc ELSE Head(p)
Met(w, i) == i < Front(pipe[w], warp[w].pc)

(* Warp w is held at sync i, or has been let go.                           *)
HeldAt(w, i) == warp[w].pc = i + 1 /\ w \in bars[warp[w].slot][Program[i].bar].wait_mask
Cleared(w, i) == Met(w, i) /\ ~HeldAt(w, i)

(* The arrivals of block k at barrier b: instruction and rank.             *)
MetBy(k, b) == {m \in Meets \X Ranks : Program[m[1]].bar = b /\ m[2] \in arrived[k][m[1]]}

Lines == \A w \in active : Sorted(pipe[w], warp[w].pc, warp[w].rank)

(* Who has arrived where: a warp that runs at what it met, one that has    *)
(* ended everywhere, and then everyone at every sync; nobody else.         *)
Tracked == \A w \in active, i \in Meets : warp[w].rank \in arrived[warp[w].block][i] <=> Met(w, i)
Gone == \A k \in Blocks : \A r \in arrived[k][Len(Program)] :
          /\ \A i \in Meets : r \in arrived[k][i]
          /\ \A i \in At("sync") : arrived[k][i] = Ranks
Here == \A k \in Blocks, i \in Meets : \A r \in arrived[k][i] :
          r \in arrived[k][Len(Program)] \/ \E w \in active : Runs(active, warp, w, k, r)

(* A block is in one slot, and the counts of the slot's barriers are its   *)
(* arrivals; a slot without a block has its barriers at rest.              *)
OneSlot == \A k \in Blocks, s, t \in Wids :
  PlacedAt(disp, active, warp, k, s) /\ PlacedAt(disp, active, warp, k, t) => s = t
Counts == \A k \in Blocks, s \in Wids, b \in Bars :
  PlacedAt(disp, active, warp, k, s) => bars[s][b].count = Rem(Cardinality(MetBy(k, b)), CtaSize)
Rests == \A s \in Wids, b \in Bars : disp.slot_rem[s] = 0 =>
  bars[s][b].wait_mask = {} /\ bars[s][b].count = 0 /\ bars[s][b].events = 0

(* A warp that is past a sync.                                             *)
Clears == \A w \in active, i \in At("sync") : Cleared(w, i) =>
  /\ arrived[warp[w].block][i] = Ranks
  /\ \A t \in TxOf(tx, warp[w].slot, Program[i].bar) : t.pc > i

(* The events of a barrier are its transfers, each expected by the warp of *)
(* rank 0 of the block in that slot; who waits is of the slot's block.     *)
Exact == \A s \in Wids, b \in Bars : bars[s][b].events = Cardinality(TxOf(tx, s, b))
Expects == \A t \in tx :
  /\ t.pc \in At("expect") /\ Program[t.pc].bar = t.bar
  /\ \A w \in active : warp[w].slot = t.slot /\ warp[w].rank = 0 => Met(w, t.pc)
  /\ disp.has_cta /\ disp.rank = 0 => t.slot # disp.slot
InSlot == \A s \in Wids, b \in Bars : \A w \in bars[s][b].wait_mask :
  warp[w].slot = s /\ pipe[w] = <<>>

SyncInv == /\ Lines /\ Tracked /\ Gone /\ Here /\ OneSlot /\ Counts /\ Rests
           /\ Clears /\ Exact /\ Expects /\ InSlot

(* The meeting points are instructions of depth 0 before the exit.         *)
LEMMA MeetFacts ==
  /\ \A rank : Meets \subseteq Once(rank) /\ Once(rank) \subseteq Pcs /\ Once(rank) \subseteq Nat
  /\ \A rank : \A i \in Once(rank) : Depth[i] = 0 /\ i < Len(Program)
  /\ \A i \in At("sync") : i \in Meets /\ i \in Pcs /\ Program[i].op = "sync" /\ Program[i].bar \in Bars
  /\ IsFiniteSet(Meets) /\ IsFiniteSet(Ranks) /\ Cardinality(Ranks) = CtaSize
  /\ Len(Program) \notin Meets
<1>1. \A rank : Meets \subseteq Once(rank) /\ Once(rank) \subseteq Pcs /\ Once(rank) \subseteq Nat
  BY ProgramFacts DEF Once, Meets, At
<1>2. ASSUME NEW rank, NEW i \in Once(rank) PROVE Depth[i] = 0 /\ i < Len(Program)
  <2>1. i \in At("sync") \cup At("arrive") \cup At("expect")
    BY DEF Once, Meets
  <2>2. i \in Pcs /\ Program[i].op # "exit"
    BY <2>1 DEF At
  <2>3. Depth[i] = 0
    BY <2>1, ProgramAssumption, Zenon
  <2>4. i # Len(Program) /\ i \in 1..Len(Program) /\ Len(Program) \in Nat
    BY <2>2, ProgramFacts DEF Pcs
  <2> QED BY <2>3, <2>4
<1>3. \A i \in At("sync") : i \in Meets /\ i \in Pcs /\ Program[i].op = "sync" /\ Program[i].bar \in Bars
  BY ProgramFacts DEF At, Meets
<1>4. IsFiniteSet(Meets)
  <2>1. IsFiniteSet(Pcs)
    BY ProgramFacts, FS_Interval DEF Pcs
  <2> QED BY <1>1, <2>1, FS_Subset
<1>5. IsFiniteSet(Ranks) /\ Cardinality(Ranks) = CtaSize
  <2>1. CtaSize \in Nat /\ CtaSize >= 1
    BY CtaFacts
  <2>2. IsFiniteSet(0..(CtaSize - 1)) /\ Cardinality(0..(CtaSize - 1)) = CtaSize
    BY <2>1, FS_Interval
  <2> QED BY <2>2 DEF Ranks
<1>6. Len(Program) \notin Meets
  BY ProgramFacts DEF Meets, At
<1> QED BY <1>1, <1>2, <1>3, <1>4, <1>5, <1>6

(* Decoding appends to the line, or passes what does not belong there.     *)
LEMMA LineAppend ==
  ASSUME NEW p \in Seq(Pcs), NEW pc \in Pcs, NEW rank, Sorted(p, pc, rank),
         Program[pc].op = "expect" => rank = 0
  PROVE  /\ Sorted(Append(p, pc), pc + 1, rank)
         /\ Front(Append(p, pc), pc + 1) = Front(p, pc)
<1> DEFINE q == Append(p, pc)
           n == Len(p)
<1>1. /\ q \in Seq(Pcs) /\ n \in Nat /\ Len(q) = n + 1 /\ q[n + 1] = pc /\ pc \in Nat
      /\ \A k \in 1..n : q[k] = p[k] /\ p[k] \in Nat
  <2>1. /\ q \in Seq(Pcs) /\ n \in Nat /\ Len(q) = n + 1 /\ q[n + 1] = pc
        /\ \A k \in 1..n : q[k] = p[k] /\ p[k] \in Pcs
    OBVIOUS
  <2> HIDE DEF q, n
  <2> QED BY <2>1, ProgramFacts
<1>2. Head(q) = IF p = <<>> THEN pc ELSE Head(p)
  <2>1. p # <<>> => n >= 1 /\ Head(p) = p[1]
    OBVIOUS
  <2>2. p = <<>> => n = 0
    OBVIOUS
  <2>3. Head(q) = q[1]
    BY <1>1
  <2> HIDE DEF q, n
  <2>4. p # <<>> => 1 \in 1..n
    BY <1>1, <2>1
  <2> QED BY <1>1, <2>1, <2>2, <2>3, <2>4
<1>3. q # <<>>
  BY <1>1
<1> HIDE DEF q, n
<1>4. \A k \in 1..n : /\ p[k] < After(p, pc, k) /\ p[k] < pc
                      /\ \A i \in Once(rank) : ~(p[k] < i /\ i < After(p, pc, k))
                      /\ Program[p[k]].op = "expect" => rank = 0
  BY DEF Sorted, n
<1>5. \A k \in 1..n : After(q, pc + 1, k) = After(p, pc, k)
  <2> SUFFICES ASSUME NEW k \in 1..n PROVE After(q, pc + 1, k) = After(p, pc, k)
    OBVIOUS
  <2>1. After(q, pc + 1, k) = q[k + 1]
    BY <1>1 DEF After
  <2>2. CASE k < n
    <3>1. k + 1 \in 1..n
      BY <1>1, <2>2
    <3> QED BY <1>1, <2>1, <2>2, <3>1 DEF After, n
  <2>3. CASE k = n
    BY <1>1, <2>1, <2>3 DEF After, n
  <2> QED BY <1>1, <2>2, <2>3
<1>6. After(q, pc + 1, n + 1) = pc + 1
  BY <1>1 DEF After
<1>7. ASSUME NEW k \in 1..Len(q)
      PROVE  /\ q[k] < After(q, pc + 1, k) /\ q[k] < pc + 1
             /\ \A i \in Once(rank) : ~(q[k] < i /\ i < After(q, pc + 1, k))
             /\ Program[q[k]].op = "expect" => rank = 0
  <2>1. CASE k \in 1..n
    <3>1. q[k] < pc + 1
      BY <1>1, <1>4, <2>1
    <3> QED BY <1>1, <1>4, <1>5, <2>1, <3>1
  <2>2. CASE k = n + 1
    <3>1. \A i \in Nat : ~(pc < i /\ i < pc + 1)
      BY <1>1
    <3>2. pc < pc + 1
      BY <1>1
    <3> QED BY <1>1, <1>6, <2>2, <3>1, <3>2, MeetFacts
  <2> QED BY <1>1, <2>1, <2>2
<1>8. Sorted(q, pc + 1, rank)
  BY <1>7 DEF Sorted
<1> QED BY <1>2, <1>3, <1>8 DEF q, Front

(* An instruction that does not enter the unit is none of them.            *)
LEMMA LineSkip ==
  ASSUME NEW p \in Seq(Pcs), NEW pc \in Pcs, NEW rank, Sorted(p, pc, rank), pc \notin Once(rank)
  PROVE  /\ Sorted(p, pc + 1, rank)
         /\ \A i \in Once(rank) : i < Front(p, pc + 1) <=> i < Front(p, pc)
<1>1. pc \in Nat /\ \A k \in 1..Len(p) : p[k] \in Nat
  BY ProgramFacts
<1>2. \A i \in Once(rank) : i \in Nat /\ (i < pc + 1 <=> i < pc)
  BY <1>1, MeetFacts
<1>3. ASSUME NEW k \in 1..Len(p)
      PROVE  /\ p[k] < After(p, pc + 1, k) /\ p[k] < pc + 1
             /\ \A i \in Once(rank) : ~(p[k] < i /\ i < After(p, pc + 1, k))
             /\ Program[p[k]].op = "expect" => rank = 0
  <2>1. /\ p[k] < After(p, pc, k) /\ p[k] < pc
        /\ \A i \in Once(rank) : ~(p[k] < i /\ i < After(p, pc, k))
        /\ Program[p[k]].op = "expect" => rank = 0
    BY DEF Sorted
  <2>2. p[k] < pc + 1
    BY <1>1, <2>1
  <2>3. CASE k < Len(p)
    BY <2>1, <2>2, <2>3 DEF After
  <2>4. CASE ~(k < Len(p))
    BY <1>2, <2>1, <2>2, <2>4 DEF After
  <2> QED BY <2>3, <2>4
<1>4. Sorted(p, pc + 1, rank)
  BY <1>3 DEF Sorted
<1> QED BY <1>2, <1>4 DEF Front

(* The unit takes the first of the line: that one is met, and no other.    *)
LEMMA LineTail ==
  ASSUME NEW p \in Seq(Pcs), NEW pc \in Nat, NEW rank, Sorted(p, pc, rank), p # <<>>
  PROVE  /\ Sorted(Tail(p), pc, rank) /\ Front(p, pc) = Head(p) /\ Head(p) \in Pcs
         /\ Head(p) < Front(Tail(p), pc) /\ Front(Tail(p), pc) \in Nat
         /\ \A i \in Once(rank) : i < Front(Tail(p), pc) <=> i < Head(p) \/ i = Head(p)
         /\ Program[Head(p)].op = "expect" => rank = 0
<1> DEFINE q == Tail(p)
           n == Len(p)
<1>1. /\ n \in Nat /\ n >= 1 /\ Head(p) = p[1] /\ q \in Seq(Pcs) /\ Len(q) = n - 1
      /\ \A k \in 1..(n - 1) : q[k] = p[k + 1]
      /\ \A k \in 1..n : p[k] \in Pcs
  OBVIOUS
<1>2. q = <<>> <=> n = 1
  <2>1. \A s \in Seq(Pcs) : Len(s) = 0 <=> s = <<>>
    OBVIOUS
  <2> HIDE DEF q, n
  <2>2. n = 1 <=> Len(q) = 0
    BY <1>1
  <2> QED BY <1>1, <2>1, <2>2
<1>3. q # <<>> => Head(q) = q[1]
  OBVIOUS
<1> HIDE DEF q, n
<1>4. \A k \in 1..n : /\ p[k] < After(p, pc, k) /\ p[k] < pc
                      /\ \A i \in Once(rank) : ~(p[k] < i /\ i < After(p, pc, k))
                      /\ Program[p[k]].op = "expect" => rank = 0
  BY DEF Sorted, n
<1>5. \A k \in 1..(n - 1) : After(q, pc, k) = After(p, pc, k + 1)
  <2> SUFFICES ASSUME NEW k \in 1..(n - 1) PROVE After(q, pc, k) = After(p, pc, k + 1)
    OBVIOUS
  <2>1. CASE k + 1 < n
    <3>1. k < Len(q) /\ k + 1 \in 1..(n - 1)
      BY <1>1, <2>1
    <3> QED BY <1>1, <2>1, <3>1 DEF After, n
  <2>2. CASE ~(k + 1 < n)
    <3>1. ~(k < Len(q))
      BY <1>1, <2>2
    <3> QED BY <2>2, <3>1 DEF After, n
  <2> QED BY <2>1, <2>2
<1>6. Sorted(q, pc, rank)
  <2> SUFFICES ASSUME NEW k \in 1..Len(q)
               PROVE  /\ q[k] < After(q, pc, k) /\ q[k] < pc
                      /\ \A i \in Once(rank) : ~(q[k] < i /\ i < After(q, pc, k))
                      /\ Program[q[k]].op = "expect" => rank = 0
    BY DEF Sorted
  <2>1. k \in 1..(n - 1) /\ k + 1 \in 1..n
    BY <1>1
  <2> QED BY <1>1, <1>4, <1>5, <2>1
<1>7. 1 \in 1..n
  BY <1>1
<1>8. Front(q, pc) = After(p, pc, 1) /\ Front(q, pc) \in Nat
  <2>1. CASE n = 1
    BY <1>2, <2>1 DEF Front, After, n
  <2>2. CASE n # 1
    <3>1. 1 < n /\ 1 \in 1..(n - 1) /\ 1 + 1 \in 1..n
      BY <1>1, <2>2
    <3>2. q[1] = p[1 + 1] /\ p[1 + 1] \in Nat
      BY <1>1, <3>1, ProgramFacts
    <3> QED BY <1>2, <1>3, <2>2, <3>1, <3>2 DEF Front, After, n
  <2> QED BY <2>1, <2>2
<1>9. p[1] \in Nat /\ p[1] \in Pcs
  BY <1>1, <1>7, ProgramFacts
<1>10. ASSUME NEW i \in Once(rank) PROVE i < After(p, pc, 1) <=> i < p[1] \/ i = p[1]
  <2>1. i \in Nat
    BY MeetFacts
  <2>2. p[1] < After(p, pc, 1) /\ ~(p[1] < i /\ i < After(p, pc, 1))
    BY <1>4, <1>7
  <2>3. After(p, pc, 1) \in Nat
    BY <1>8
  <2> QED BY <1>9, <2>1, <2>2, <2>3
<1> QED BY <1>1, <1>4, <1>6, <1>7, <1>8, <1>9, <1>10 DEF q, Front

(* The line of a warp that has just been started.                          *)
LEMMA LineNew ==
  ASSUME NEW pc \in Nat, NEW rank
  PROVE  Sorted(<<>>, pc, rank) /\ Front(<<>>, pc) = pc
<1>1. Len(<<>>) = 0
  OBVIOUS
<1>2. \A k \in 1..Len(<<>>) : FALSE
  BY <1>1
<1> QED BY <1>2 DEF Sorted, Front

(* The first of the line is not after the pc.                              *)
LEMMA FrontBound ==
  ASSUME NEW p \in Seq(Pcs), NEW pc \in Nat, NEW rank, Sorted(p, pc, rank)
  PROVE  Front(p, pc) \in Nat /\ Front(p, pc) <= pc
<1>1. CASE p = <<>>
  BY <1>1 DEF Front
<1>2. CASE p # <<>>
  <2>1. 1 \in 1..Len(p) /\ Head(p) = p[1] /\ p[1] \in Pcs
    BY <1>2
  <2>2. p[1] < pc /\ p[1] \in Nat
    BY <2>1, ProgramFacts DEF Sorted
  <2> QED BY <1>2, <2>1, <2>2 DEF Front
<1> QED BY <1>1, <1>2

-----------------------------------------------------------------------------
(* A block of a warp, and the slot that goes with it.                      *)
LEMMA WarpFacts ==
  ASSUME IInv, NEW w \in active
  PROVE  /\ w \in Wids /\ warp[w] \in Warps /\ warp[w].block \in Blocks /\ warp[w].rank \in Ranks
         /\ warp[w].slot \in Wids /\ warp[w].pc \in Nat /\ pipe[w] \in Seq(Pcs) /\ Flow(w)
         /\ PlacedAt(disp, active, warp, warp[w].block, warp[w].slot)
         /\ Runs(active, warp, w, warp[w].block, warp[w].rank)
<1>1. w \in Wids /\ warp[w] \in Warps /\ pipe[w] \in Seq(Pcs) /\ Flow(w)
  BY DEF IInv, Types, Flows
<1>2. /\ warp[w].block \in Blocks /\ warp[w].rank \in Ranks
      /\ warp[w].slot \in Wids /\ warp[w].pc \in Nat
  BY <1>1 DEF Warps
<1> QED BY <1>1, <1>2 DEF PlacedAt, Runs

(* Whoever waits is active, and neither in the unit nor fetched.           *)
LEMMA WaiterFacts ==
  ASSUME IInv, NEW s \in Wids, NEW b \in Bars, NEW v \in bars[s][b].wait_mask
  PROVE  v \in Wids /\ Held(v) /\ v \in active
<1>1. bars[s][b] \in BarRecs
  BY DEF IInv, Types
<1>2. v \in Wids
  BY <1>1 DEF BarRecs
<1> QED BY <1>2 DEF IInv, Waiters, Held

(* A step that leaves counts, transfers and history alone, moves no warp   *)
(* past a meeting point and lets none go that is held at a sync.           *)
LEMMA SyncMoves ==
  ASSUME IInv, SyncInv, active' = active, tx' = tx, arrived' = arrived, disp' = disp,
         \A v \in active :
           /\ warp'[v].block = warp[v].block /\ warp'[v].rank = warp[v].rank
           /\ warp'[v].slot = warp[v].slot
           /\ Sorted(pipe'[v], warp'[v].pc, warp[v].rank)
           /\ \A i \in Once(warp[v].rank) :
                i < Front(pipe'[v], warp'[v].pc) <=> i < Front(pipe[v], warp[v].pc),
         \A s \in Wids, b \in Bars : /\ bars'[s][b].count = bars[s][b].count
                                      /\ bars'[s][b].events = bars[s][b].events,
         \A v \in active, i \in At("sync") : HeldAt(v, i)' <=> HeldAt(v, i),
         Rests', InSlot'
  PROVE  SyncInv'
<1>1. \A v \in active : v \in Wids /\ warp[v].rank \in Ranks /\ warp[v].slot \in Wids
  BY WarpFacts
<1>2. ASSUME NEW v \in active, NEW i \in Once(warp[v].rank) PROVE Met(v, i)' <=> Met(v, i)
  BY DEF Met
<1>3. \A k, s : PlacedAt(disp, active, warp, k, s)' <=> PlacedAt(disp, active, warp, k, s)
  BY DEF PlacedAt
<1>4. \A v \in active : \A k, r : Runs(active, warp, v, k, r)' <=> Runs(active, warp, v, k, r)
  BY DEF Runs
<1>5. \A k, b : MetBy(k, b)' = MetBy(k, b)
  BY DEF MetBy
<1>6. \A v \in active : Meets \subseteq Once(warp[v].rank)
  BY MeetFacts
<1>7. Lines'
  BY DEF Lines
<1>8. Tracked'
  <2> SUFFICES ASSUME NEW w \in active, NEW i \in Meets
               PROVE  (warp[w].rank)' \in arrived[(warp[w].block)'][i] <=> Met(w, i)'
    BY DEF Tracked
  <2>1. warp[w].rank \in arrived[warp[w].block][i] <=> Met(w, i)
    BY DEF SyncInv, Tracked
  <2> QED BY <1>2, <1>6, <2>1
<1>9. Gone'
  BY DEF SyncInv, Gone
<1>10. Here'
  BY <1>4 DEF SyncInv, Here
<1>11. OneSlot'
  BY <1>3 DEF SyncInv, OneSlot
<1>12. Counts'
  BY <1>3, <1>5 DEF SyncInv, Counts
<1>13. Clears'
  <2> SUFFICES ASSUME NEW w \in active, NEW i \in At("sync"), Cleared(w, i)'
               PROVE  /\ arrived[(warp[w].block)'][i] = Ranks
                      /\ \A t \in TxOf(tx, (warp[w].slot)', Program[i].bar) : t.pc > i
    BY DEF Clears
  <2>1. i \in Once(warp[w].rank)
    BY <1>6, MeetFacts
  <2>2. Cleared(w, i)
    BY <1>2, <2>1 DEF Cleared
  <2> QED BY <2>2 DEF SyncInv, Clears
<1>14. Exact'
  BY DEF SyncInv, Exact
<1>15. Expects'
  <2> SUFFICES ASSUME NEW t \in tx
               PROVE  /\ t.pc \in At("expect") /\ Program[t.pc].bar = t.bar
                      /\ \A w \in active : (warp[w].slot)' = t.slot /\ (warp[w].rank)' = 0 => Met(w, t.pc)'
                      /\ disp.has_cta /\ disp.rank = 0 => t.slot # disp.slot
    BY DEF Expects
  <2>1. /\ t.pc \in At("expect") /\ Program[t.pc].bar = t.bar
        /\ \A w \in active : warp[w].slot = t.slot /\ warp[w].rank = 0 => Met(w, t.pc)
        /\ disp.has_cta /\ disp.rank = 0 => t.slot # disp.slot
    BY DEF SyncInv, Expects
  <2>2. t.pc \in Once(0)
    BY <2>1 DEF Once
  <2> QED BY <1>2, <2>1, <2>2
<1> QED BY <1>7, <1>8, <1>9, <1>10, <1>11, <1>12, <1>13, <1>14, <1>15 DEF SyncInv

(* The same, if the barriers are as before and nobody who waits moves.     *)
LEMMA SyncStill ==
  ASSUME IInv, SyncInv, active' = active, bars' = bars, tx' = tx, arrived' = arrived,
         disp' = disp,
         \A v \in active :
           /\ warp'[v].block = warp[v].block /\ warp'[v].rank = warp[v].rank
           /\ warp'[v].slot = warp[v].slot
           /\ Sorted(pipe'[v], warp'[v].pc, warp[v].rank)
           /\ \A i \in Once(warp[v].rank) :
                i < Front(pipe'[v], warp'[v].pc) <=> i < Front(pipe[v], warp[v].pc),
         \A v \in active : (\E s \in Wids, b \in Bars : v \in bars[s][b].wait_mask)
           => pipe'[v] = pipe[v] /\ warp'[v] = warp[v]
  PROVE  SyncInv'
<1>1. \A v \in active : v \in Wids /\ warp[v].slot \in Wids
  BY WarpFacts
<1>2. ASSUME NEW v \in active, NEW i \in At("sync") PROVE HeldAt(v, i)' <=> HeldAt(v, i)
  <2> DEFINE m == bars[warp[v].slot][Program[i].bar].wait_mask
  <2>1. m = (bars[warp[v].slot][Program[i].bar].wait_mask)'
    OBVIOUS
  <2>2. v \in m => warp'[v] = warp[v]
    BY <1>1, MeetFacts
  <2> QED BY <2>1, <2>2 DEF HeldAt
<1>3. Rests'
  BY DEF SyncInv, Rests
<1>4. InSlot'
  <2> SUFFICES ASSUME NEW s \in Wids, NEW b \in Bars, NEW w \in bars[s][b].wait_mask
               PROVE  (warp[w].slot)' = s /\ (pipe[w])' = <<>>
    BY DEF InSlot
  <2>1. w \in active
    BY WaiterFacts
  <2>2. warp[w].slot = s /\ pipe[w] = <<>>
    BY DEF SyncInv, InSlot
  <2> QED BY <2>1, <2>2
<1>5. \A s \in Wids, b \in Bars : /\ bars'[s][b].count = bars[s][b].count
                                  /\ bars'[s][b].events = bars[s][b].events
  OBVIOUS
<1> QED BY <1>2, <1>3, <1>4, <1>5, SyncMoves

(* Decoding moves nobody past a meeting point.                             *)
LEMMA DecodeSync ==
  ASSUME IInv, SyncInv, NEW w \in Wids, Decode(w)
  PROVE  SyncInv'
<1> DEFINE i == fetched[w]
<1>1. /\ i # 0 /\ warp' = [warp EXCEPT ![w].pc = i + 1]
      /\ pipe' = IF OpOf(w, i) = "work" THEN pipe ELSE [pipe EXCEPT ![w] = Append(@, i)]
      /\ disp' = disp /\ active' = active /\ bars' = bars /\ tx' = tx /\ arrived' = arrived
  BY DEF Decode
<1>2. w \in active /\ i = warp[w].pc /\ i \in Pcs
  <2>1. Flow(w) /\ i \in 0..Len(Program)
    BY DEF IInv, Flows, Types
  <2> QED BY <1>1, <2>1, ProgramFacts DEF Flow, Pcs
<1>3. warp \in [Wids -> Warps] /\ pipe \in [Wids -> Seq(Pcs)] /\ active \subseteq Wids
  BY DEF IInv, Types
<1>4. /\ warp'[w].pc = i + 1 /\ warp'[w].block = warp[w].block
      /\ warp'[w].rank = warp[w].rank /\ warp'[w].slot = warp[w].slot
      /\ \A v \in Wids : v # w => warp'[v] = warp[v] /\ pipe'[v] = pipe[v]
      /\ pipe'[w] = IF OpOf(w, i) = "work" THEN pipe[w] ELSE Append(pipe[w], i)
  BY <1>1, <1>3 DEF Warps
<1>5. Sorted(pipe[w], i, warp[w].rank) /\ pipe[w] \in Seq(Pcs)
  BY <1>2, <1>3 DEF SyncInv, Lines
<1> HIDE DEF i
<1>6. /\ Sorted(pipe'[w], i + 1, warp[w].rank)
      /\ \A j \in Once(warp[w].rank) : j < Front(pipe'[w], i + 1) <=> j < Front(pipe[w], i)
  <2>1. CASE OpOf(w, i) = "work"
    <3>1. i \notin Once(warp[w].rank)
      BY <2>1 DEF OpOf, Once, Meets, At
    <3> QED BY <1>2, <1>4, <1>5, <2>1, <3>1, LineSkip
  <2>2. CASE OpOf(w, i) # "work"
    <3>1. Program[i].op = "expect" => warp[w].rank = 0
      BY <2>2 DEF OpOf
    <3> QED BY <1>2, <1>4, <1>5, <2>2, <3>1, LineAppend
  <2> QED BY <2>1, <2>2
<1>7. \A v \in active :
        /\ warp'[v].block = warp[v].block /\ warp'[v].rank = warp[v].rank
        /\ warp'[v].slot = warp[v].slot
        /\ Sorted(pipe'[v], warp'[v].pc, warp[v].rank)
        /\ \A j \in Once(warp[v].rank) :
             j < Front(pipe'[v], warp'[v].pc) <=> j < Front(pipe[v], warp[v].pc)
  BY <1>2, <1>3, <1>4, <1>6 DEF SyncInv, Lines
<1>8. \A v \in Wids : (\E s \in Wids, b \in Bars : v \in bars[s][b].wait_mask) => v \in active /\ v # w
  BY <1>1, WaiterFacts DEF Held, i
<1> QED BY <1>1, <1>3, <1>4, <1>7, <1>8, SyncStill

(* Nor does a step that changes neither the warps nor what the unit holds. *)
LEMMA OutsideSync ==
  ASSUME IInv, SyncInv, active' = active, bars' = bars, tx' = tx, arrived' = arrived,
         disp' = disp, warp' = warp, pipe' = pipe
  PROVE  SyncInv'
<1>1. \A v \in active : Sorted(pipe[v], warp[v].pc, warp[v].rank)
  BY DEF SyncInv, Lines
<1> QED BY <1>1, SyncStill

(* Nor do splits and joins: a join goes back to code inside its split.     *)
LEMMA DivergeSync ==
  ASSUME IInv, SyncInv, NEW w \in Wids, pipe[w] # <<>>, Stalls(Head(pipe[w])),
         Head(pipe[w]) \notin Once(warp[w].rank),
         pipe' = [pipe EXCEPT ![w] = Tail(@)], warp' \in [Wids -> Warps],
         \A v \in Wids : v # w => warp'[v] = warp[v],
         warp'[w].block = warp[w].block, warp'[w].rank = warp[w].rank,
         warp'[w].slot = warp[w].slot,
         warp'[w].pc = warp[w].pc \/ warp'[w].pc - 1 \in Encl(Head(pipe[w])),
         active' = active, bars' = bars, tx' = tx, arrived' = arrived, disp' = disp
  PROVE  SyncInv'
<1> DEFINE i == Head(pipe[w])
<1>1. /\ i \in Pcs /\ w \in active /\ Tail(pipe[w]) = <<>> /\ warp[w].pc = i + 1
      /\ \A s \in Wids, b \in Bars : w \notin bars[s][b].wait_mask
  BY InUnit
<1>2. pipe \in [Wids -> Seq(Pcs)] /\ active \subseteq Wids
  BY DEF IInv, Types
<1>3. pipe'[w] = <<>> /\ \A v \in Wids : v # w => pipe'[v] = pipe[v]
  BY <1>1, <1>2
<1>4. warp'[w].pc \in Nat
  BY DEF Warps
<1>5. Sorted(pipe'[w], warp'[w].pc, warp[w].rank) /\ Front(pipe'[w], warp'[w].pc) = warp'[w].pc
  BY <1>3, <1>4, LineNew
<1>6. Front(pipe[w], warp[w].pc) = i
  BY DEF Front
<1> HIDE DEF i
<1>7. ASSUME NEW j \in Once(warp[w].rank) PROVE j < warp'[w].pc <=> j < i
  <2>1. j \in Nat /\ i \in Nat /\ j # i /\ j \in Pcs /\ Depth[j] = 0
    BY <1>1, MeetFacts, ProgramFacts DEF i
  <2>2. CASE warp'[w].pc = warp[w].pc
    BY <1>1, <2>1, <2>2
  <2>3. CASE warp'[w].pc - 1 \in Encl(i)
    <3> DEFINE s == warp'[w].pc - 1
    <3>1. /\ s \in Pcs /\ s \in Nat /\ s < i
          /\ \A q \in (s + 1)..i : Depth[q] > Depth[s]
      BY <2>3, ProgramFacts DEF Encl, At, i
    <3>2. Depth[s] \in Nat /\ s + 1 = warp'[w].pc
      BY <1>4, <3>1, DepthStep
    <3> HIDE DEF s
    <3>3. j \notin (s + 1)..i
      BY <2>1, <3>1, <3>2
    <3> QED BY <2>1, <3>1, <3>2, <3>3
  <2> QED BY <2>2, <2>3 DEF i
<1>8. \A v \in active :
        /\ warp'[v].block = warp[v].block /\ warp'[v].rank = warp[v].rank
        /\ warp'[v].slot = warp[v].slot
        /\ Sorted(pipe'[v], warp'[v].pc, warp[v].rank)
        /\ \A j \in Once(warp[v].rank) :
             j < Front(pipe'[v], warp'[v].pc) <=> j < Front(pipe[v], warp[v].pc)
  BY <1>2, <1>3, <1>5, <1>6, <1>7 DEF SyncInv, Lines
<1>9. \A v \in Wids : (\E s \in Wids, b \in Bars : v \in bars[s][b].wait_mask) => v \in active /\ v # w
  BY <1>1, WaiterFacts
<1> QED BY <1>2, <1>3, <1>8, <1>9, SyncStill

(* A split goes on, a join goes on or goes back.                           *)
LEMMA SplitSync ==
  ASSUME IInv, SyncInv, NEW w \in Wids, Split(w)
  PROVE  SyncInv'
<1> DEFINE i == Head(pipe[w])
           r == warp[w]
           depth == Len(r.stack)
           entry == [orig_tmask |-> r.tmask, else_PC |-> i + 1, fallthrough |-> FALSE]
           cond(c) == c \cap r.tmask
           rest(c) == r.tmask \ cond(c)
           divergent(c) == cond(c) # {} /\ rest(c) # {}
           small(c) == IF Cardinality(cond(c)) =< Cardinality(rest(c)) THEN cond(c) ELSE rest(c)
<1>1. PICK c \in Taken[i] :
        warp' = IF divergent(c)
                THEN [warp EXCEPT ![w].tmask = small(c), ![w].sp[i] = depth,
                                  ![w].stack = Append(@, entry)]
                ELSE [warp EXCEPT ![w].sp[i] = depth]
  BY DEF Split
<1>2. /\ Processes(w, "split")
      /\ UNCHANGED <<kmu, disp, active, stalled, stalled_next, fetched, bars, tx, arrived>>
  BY DEF Split
<1>3. /\ pipe[w] # <<>> /\ Program[i].op = "split" /\ Stalls(i)
      /\ pipe' = [pipe EXCEPT ![w] = Tail(@)]
  BY <1>2 DEF Processes, Stalls, NonStalling
<1>4. i \notin Once(warp[w].rank)
  BY <1>3 DEF Once, Meets, At
<1>5. warp' \in [Wids -> Warps] /\ warp \in [Wids -> Warps]
  <2>1. IInv'
    BY SplitOK
  <2> QED BY <2>1 DEF IInv, Types
<1>6. /\ warp'[w].block = warp[w].block /\ warp'[w].rank = warp[w].rank
      /\ warp'[w].slot = warp[w].slot /\ warp'[w].pc = warp[w].pc
      /\ \A v \in Wids : v # w => warp'[v] = warp[v]
  <2> DEFINE a == small(c)
             d == depth
             e == entry
             j == i
  <2>1. \/ warp' = [warp EXCEPT ![w].tmask = a, ![w].sp[j] = d, ![w].stack = Append(@, e)]
        \/ warp' = [warp EXCEPT ![w].sp[j] = d]
    BY <1>1
  <2> HIDE DEF a, d, e, j
  <2> QED BY <1>5, <2>1 DEF Warps
<1> QED BY <1>2, <1>3, <1>4, <1>5, <1>6, DivergeSync

(* The other side starts behind the split, which encloses the join.        *)
LEMMA JoinSync ==
  ASSUME IInv, SyncInv, NEW w \in Wids, Join(w)
  PROVE  SyncInv'
<1> DEFINE j == Head(pipe[w])
           r == warp[w]
           n == Len(r.stack)
           diverged == r.sp[SplitOf[j]] # n
<1>1. /\ warp' = CASE ~diverged \/ r.stack = <<>> -> warp
                   [] r.stack # <<>> /\ diverged ->
                      [warp EXCEPT ![w] = IF r.stack[n].fallthrough
                                          THEN Reconverged(r) ELSE OtherSide(r)]
      /\ Processes(w, "join")
      /\ UNCHANGED <<kmu, disp, active, stalled, stalled_next, fetched, bars, tx, arrived>>
  BY DEF Join
<1>2. /\ pipe[w] # <<>> /\ Program[j].op = "join" /\ Stalls(j)
      /\ pipe' = [pipe EXCEPT ![w] = Tail(@)]
  BY <1>1 DEF Processes, Stalls, NonStalling
<1>3. /\ j \in Pcs /\ r \in Warps /\ r.pc = j + 1 /\ WarpOK(r, j, lane[w])
  BY <1>2, InUnit
<1>4. j \in At("join") /\ j \notin Once(warp[w].rank)
  BY <1>2, <1>3 DEF At, Once, Meets
<1>5. warp' \in [Wids -> Warps] /\ warp \in [Wids -> Warps]
  <2>1. IInv'
    BY JoinOK
  <2> QED BY <2>1 DEF IInv, Types
<1>6. \/ warp' = warp
      \/ warp' = [warp EXCEPT ![w] = Reconverged(r)]
      \/ warp' = [warp EXCEPT ![w] = OtherSide(r)] /\ diverged
  <2>1. CASE ~diverged \/ r.stack = <<>>
    BY <1>1, <2>1
  <2>2. CASE diverged /\ r.stack # <<>>
    BY <1>1, <2>2
  <2> QED BY <2>1, <2>2
<1>7. /\ Reconverged(r).pc = r.pc /\ Reconverged(r).block = r.block
      /\ Reconverged(r).rank = r.rank /\ Reconverged(r).slot = r.slot
  BY <1>3 DEF Reconverged, Warps
<1>8. /\ OtherSide(r).pc = r.stack[n].else_PC /\ OtherSide(r).block = r.block
      /\ OtherSide(r).rank = r.rank /\ OtherSide(r).slot = r.slot
  BY <1>3 DEF OtherSide, Warps
<1>9. diverged => r.stack[n].else_PC - 1 \in Encl(j)
  <2> SUFFICES ASSUME diverged PROVE r.stack[n].else_PC - 1 \in Encl(j)
    OBVIOUS
  <2>1. SplitAt(r, n) = SplitOf[j]
    BY <1>3, <1>4, TopIsOwn
  <2> QED BY <1>4, <2>1, EnclJoin DEF SplitAt
<1>10. /\ \A v \in Wids : v # w => warp'[v] = warp[v]
       /\ warp'[w].block = r.block /\ warp'[w].rank = r.rank /\ warp'[w].slot = r.slot
       /\ warp'[w].pc = r.pc \/ warp'[w].pc - 1 \in Encl(j)
  <2> HIDE DEF r, j, n, diverged
  <2>1. CASE warp' = warp
    BY <2>1 DEF r
  <2>2. CASE warp' = [warp EXCEPT ![w] = Reconverged(r)]
    <3>1. warp'[w] = Reconverged(r) /\ \A v \in Wids : v # w => warp'[v] = warp[v]
      BY <1>5, <2>2
    <3> QED BY <1>7, <3>1
  <2>3. CASE warp' = [warp EXCEPT ![w] = OtherSide(r)] /\ diverged
    <3>1. warp'[w] = OtherSide(r) /\ \A v \in Wids : v # w => warp'[v] = warp[v]
      BY <1>5, <2>3
    <3> QED BY <1>8, <1>9, <2>3, <3>1
  <2> QED BY <1>6, <2>1, <2>2, <2>3
<1> QED BY <1>1, <1>2, <1>4, <1>5, <1>10, DivergeSync

-----------------------------------------------------------------------------
(* A count modulo the number of warps of a block.                          *)
LEMMA RemFacts ==
  ASSUME NEW a \in Nat
  PROVE  /\ Rem(a + 1, CtaSize) = Rem(Rem(a, CtaSize) + 1, CtaSize)
         /\ Rem(0, CtaSize) = 0 /\ Rem(a * CtaSize, CtaSize) = 0
         /\ \A n \in Nat : n < CtaSize => Rem(a * CtaSize + n, CtaSize) = n
<1> DEFINE C == CtaSize
<1>1. C \in Nat /\ C >= 1
  BY CtaFacts
<1> HIDE DEF C
<1>2. \A q \in Nat, n \in Nat : n < C => Rem(q * C + n, C) = n
  <2> SUFFICES ASSUME NEW q \in Nat, NEW n \in Nat, n < C PROVE Rem(q * C + n, C) = n
    OBVIOUS
  <2>1. q * C + n \in Nat /\ q * C + n = C * q + n
    BY <1>1
  <2> DEFINE x == q * C + n
  <2> HIDE DEF x
  <2>2. (x % C) = n
    BY <1>1, <2>1, DivUnique DEF x
  <2> QED BY <2>2 DEF Rem, x
<1>3. \A q \in Nat : Rem(q * C, C) = 0
  <2> SUFFICES ASSUME NEW q \in Nat PROVE Rem(q * C, C) = 0
    OBVIOUS
  <2>1. q * C + 0 = q * C /\ 0 < C
    BY <1>1
  <2> QED BY <1>2, <2>1
<1>4. Rem(0, C) = 0
  <2>1. 0 * C = 0
    BY <1>1
  <2> QED BY <1>3, <2>1
<1>5. Rem(a + 1, C) = Rem(Rem(a, C) + 1, C)
  <2> DEFINE q == a \div C
             n == a % C
  <2>1. q \in Nat /\ n \in Nat /\ n < C /\ a = C * q + n
    BY <1>1, DivMod
  <2>2. Rem(a, C) = n
    BY DEF Rem
  <2> HIDE DEF q, n
  <2>3. CASE n + 1 < C
    <3>1. a + 1 = q * C + (n + 1) /\ n + 1 = 0 * C + (n + 1)
      BY <1>1, <2>1
    <3>2. Rem(a + 1, C) = n + 1 /\ Rem(n + 1, C) = n + 1
      BY <1>2, <2>1, <2>3, <3>1
    <3> QED BY <2>2, <3>2
  <2>4. CASE n + 1 = C
    <3>1. a + 1 = (q + 1) * C /\ n + 1 = 1 * C
      BY <1>1, <2>1, <2>4
    <3>2. Rem(a + 1, C) = 0 /\ Rem(n + 1, C) = 0
      BY <1>3, <2>1, <3>1
    <3> QED BY <2>2, <3>2
  <2> QED BY <1>1, <2>1, <2>3, <2>4
<1> QED BY <1>2, <1>3, <1>4, <1>5 DEF C

(* The arrivals of a block at a barrier are finitely many.                 *)
LEMMA MetByFacts ==
  ASSUME NEW k, NEW b
  PROVE  IsFiniteSet(MetBy(k, b)) /\ Cardinality(MetBy(k, b)) \in Nat
<1>1. IsFiniteSet(Meets \X Ranks)
  BY MeetFacts, FS_Product
<1>2. MetBy(k, b) \in SUBSET (Meets \X Ranks)
  BY DEF MetBy
<1>3. IsFiniteSet(MetBy(k, b))
  BY <1>1, <1>2, FS_Subset
<1> QED BY <1>3, FS_CardinalityType

(* One more arrives.                                                       *)
LEMMA MetGrows ==
  ASSUME arrived \in [Blocks -> [Pcs -> SUBSET Ranks]], NEW k \in Blocks, NEW i \in Meets,
         NEW r \in Ranks, r \notin arrived[k][i],
         arrived' = [arrived EXCEPT ![k][i] = @ \cup {r}]
  PROVE  /\ Cardinality(MetBy(k, Program[i].bar))' = Cardinality(MetBy(k, Program[i].bar)) + 1
         /\ \A j \in Blocks : \A b : ~(j = k /\ b = Program[i].bar) => MetBy(j, b)' = MetBy(j, b)
<1>1. i \in Pcs
  BY MeetFacts
<1>2. /\ arrived'[k][i] = arrived[k][i] \cup {r}
      /\ \A j \in Blocks, n \in Pcs : ~(j = k /\ n = i) => arrived'[j][n] = arrived[j][n]
  BY <1>1
<1>3. Meets \subseteq Pcs
  BY MeetFacts
<1> DEFINE b0 == Program[i].bar
<1>4. MetBy(k, b0)' = MetBy(k, b0) \cup {<<i, r>>}
  <2>1. ASSUME NEW m \in Meets \X Ranks
        PROVE  m[2] \in arrived'[k][m[1]] <=> m[2] \in arrived[k][m[1]] \/ m = <<i, r>>
    <3>1. m[1] \in Meets /\ m[2] \in Ranks /\ m = <<m[1], m[2]>>
      OBVIOUS
    <3>2. CASE m[1] = i
      BY <1>2, <3>1, <3>2
    <3>3. CASE m[1] # i
      BY <1>2, <1>3, <3>1, <3>3
    <3> QED BY <3>2, <3>3
  <2>2. <<i, r>> \in Meets \X Ranks /\ <<i, r>>[1] = i
    OBVIOUS
  <2>3. MetBy(k, b0)' = {m \in Meets \X Ranks : Program[m[1]].bar = b0 /\ m[2] \in arrived'[k][m[1]]}
    BY DEF MetBy
  <2>4. MetBy(k, b0) = {m \in Meets \X Ranks : Program[m[1]].bar = b0 /\ m[2] \in arrived[k][m[1]]}
    BY DEF MetBy
  <2>5. ASSUME NEW m PROVE m \in MetBy(k, b0)' <=> m \in MetBy(k, b0) \cup {<<i, r>>}
    <3>1. CASE m \in Meets \X Ranks
      BY <2>1, <2>2, <2>3, <2>4, <3>1
    <3>2. CASE m \notin Meets \X Ranks
      BY <2>2, <2>3, <2>4, <3>2
    <3> QED BY <3>1, <3>2
  <2> QED BY <2>5
<1>5. <<i, r>> \notin MetBy(k, b0)
  <2>1. <<i, r>>[1] = i /\ <<i, r>>[2] = r
    OBVIOUS
  <2> QED BY <2>1 DEF MetBy
<1>6. Cardinality(MetBy(k, b0) \cup {<<i, r>>}) = Cardinality(MetBy(k, b0)) + 1
  BY <1>5, MetByFacts, FS_AddElement
<1>7. ASSUME NEW j \in Blocks, NEW b, ~(j = k /\ b = b0) PROVE MetBy(j, b)' = MetBy(j, b)
  <2>1. ASSUME NEW m \in Meets \X Ranks, Program[m[1]].bar = b
        PROVE  arrived'[j][m[1]] = arrived[j][m[1]]
    BY <1>2, <1>3, <1>7, <2>1
  <2> QED BY <2>1 DEF MetBy
<1> QED BY <1>4, <1>6, <1>7

(* If everybody or nobody is past each of the other points of a barrier,   *)
(* the arrivals at this one are what is counted.                           *)
LEMMA MetSum ==
  ASSUME arrived \in [Blocks -> [Pcs -> SUBSET Ranks]], NEW k \in Blocks, NEW i \in Meets,
         \A j \in Meets : Program[j].bar = Program[i].bar /\ j # i
                          => arrived[k][j] = Ranks \/ arrived[k][j] = {}
  PROVE  \E n \in Nat : Cardinality(MetBy(k, Program[i].bar))
                        = n * CtaSize + Cardinality(arrived[k][i])
<1> DEFINE b == Program[i].bar
           F == {j \in Meets : Program[j].bar = b /\ j # i /\ arrived[k][j] = Ranks}
           A == arrived[k][i]
<1>1. i \in Pcs /\ A \in SUBSET Ranks /\ IsFiniteSet(Ranks) /\ Cardinality(Ranks) = CtaSize
  BY MeetFacts
<1>2. IsFiniteSet(A) /\ IsFiniteSet(F) /\ IsFiniteSet({i}) /\ Cardinality({i}) = 1
  BY <1>1, MeetFacts, FS_Subset, FS_Singleton
<1>3. Cardinality(A) \in Nat /\ Cardinality(F) \in Nat
  BY <1>2, FS_CardinalityType
<1>4. MetBy(k, b) = (F \X Ranks) \cup ({i} \X A)
  <2>1. ASSUME NEW m \in Meets \X Ranks
        PROVE  m \in MetBy(k, b) <=> m \in (F \X Ranks) \cup ({i} \X A)
    <3>1. m[1] \in Meets /\ m[2] \in Ranks /\ m = <<m[1], m[2]>>
      OBVIOUS
    <3>2. m \in MetBy(k, b) <=> Program[m[1]].bar = b /\ m[2] \in arrived[k][m[1]]
      BY DEF MetBy
    <3>3. m \in F \X Ranks <=> m[1] \in F
      BY <3>1
    <3>4. m \in {i} \X A <=> m[1] = i /\ m[2] \in A
      BY <3>1
    <3>5. CASE m[1] = i
      BY <3>2, <3>3, <3>4, <3>5
    <3>6. CASE m[1] # i
      BY <3>1, <3>2, <3>3, <3>4, <3>6
    <3> QED BY <3>5, <3>6
  <2>2. MetBy(k, b) \subseteq Meets \X Ranks
    BY DEF MetBy
  <2>3. (F \X Ranks) \cup ({i} \X A) \subseteq Meets \X Ranks
    BY <1>1
  <2> HIDE DEF b, F, A
  <2> QED BY <2>1, <2>2, <2>3
<1>5. (F \X Ranks) \cap ({i} \X A) = {}
  OBVIOUS
<1> HIDE DEF F, A, b
<1>6. /\ IsFiniteSet(F \X Ranks) /\ Cardinality(F \X Ranks) = Cardinality(F) * CtaSize
      /\ IsFiniteSet({i} \X A) /\ Cardinality({i} \X A) = 1 * Cardinality(A)
  BY <1>1, <1>2, FS_Product
<1>7. Cardinality((F \X Ranks) \cup ({i} \X A))
      = Cardinality(F \X Ranks) + Cardinality({i} \X A) - Cardinality({})
  BY <1>5, <1>6, FS_Union
<1>8. Cardinality({}) = 0
  BY FS_EmptySet
<1>9. Cardinality(MetBy(k, b)) = Cardinality(F) * CtaSize + Cardinality(A)
  <2>1. CtaSize \in Nat
    BY CtaFacts
  <2> DEFINE x == Cardinality(F)
             y == Cardinality(A)
  <2>2. Cardinality(MetBy(k, b)) = x * CtaSize + 1 * y - 0
    BY <1>4, <1>6, <1>7, <1>8
  <2>3. x \in Nat /\ y \in Nat
    BY <1>3
  <2> HIDE DEF x, y
  <2>4. x * CtaSize + 1 * y - 0 = x * CtaSize + y
    BY <2>1, <2>3
  <2> QED BY <2>2, <2>4 DEF x, y
<1> QED BY <1>3, <1>9 DEF A, b

(* Once everybody has been everywhere, the count is back at 0.             *)
LEMMA MetAll ==
  ASSUME NEW k, NEW b, \A j \in Meets : arrived[k][j] = Ranks
  PROVE  Rem(Cardinality(MetBy(k, b)), CtaSize) = 0
<1> DEFINE F == {j \in Meets : Program[j].bar = b}
<1>1. MetBy(k, b) = F \X Ranks
  <2>1. MetBy(k, b) = {m \in Meets \X Ranks : Program[m[1]].bar = b}
    BY DEF MetBy
  <2> QED BY <2>1
<1>2. IsFiniteSet(F) /\ IsFiniteSet(Ranks) /\ Cardinality(Ranks) = CtaSize
  BY MeetFacts, FS_Subset
<1>3. Cardinality(F) \in Nat
  BY <1>2, FS_CardinalityType
<1> HIDE DEF F
<1>4. Cardinality(F \X Ranks) = Cardinality(F) * CtaSize
  BY <1>2, FS_Product
<1> QED BY <1>1, <1>3, <1>4, RemFacts

(* What the dispatcher's invariant says of the warps of one block.         *)
LEMMA BlockWarps ==
  ASSUME IInv, NEW w \in active
  PROVE  /\ \A v \in active : Runs(active, warp, v, warp[w].block, warp[w].rank) => v = w
         /\ \A k, s : PlacedAt(disp, active, warp, k, s) /\ s = warp[w].slot => k = warp[w].block
         /\ warp[w].rank \notin arrived[warp[w].block][Len(Program)]
         /\ disp.slot_of[w] = warp[w].slot /\ disp.slot_rem[warp[w].slot] # 0
<1>1. /\ w \in Wids /\ warp[w].block \in Blocks /\ warp[w].rank \in Ranks /\ warp[w].slot \in Wids
      /\ Runs(active, warp, w, warp[w].block, warp[w].rank)
  BY WarpFacts
<1>2. DispOK(kmu, disp, active, warp, Fin)
  BY DEF IInv
<1>3. Stage(kmu, disp, active, warp, Fin, warp[w].block, warp[w].rank) /\ Owners(disp, active, warp)
      /\ SlotCounts(disp, active) /\ disp \in Disps
  BY <1>1, <1>2 DEF DispOK
<1>4. /\ \A v \in active : Runs(active, warp, v, warp[w].block, warp[w].rank) => v = w
      /\ warp[w].rank \notin Fin[warp[w].block]
  BY <1>1, <1>3 DEF Stage
<1>5. \A k, s : PlacedAt(disp, active, warp, k, s) /\ s = warp[w].slot => k = warp[w].block
  BY <1>3 DEF Owners, PlacedAt
<1>6. disp.slot_of[w] = warp[w].slot
  BY <1>3 DEF Owners
<1>7. disp.slot_rem[warp[w].slot] # 0
  <2> DEFINE s == warp[w].slot
             X == In(disp, active, s)
  <2>1. w \in X /\ X \in SUBSET Wids
    <3>1. active \subseteq Wids
      BY DEF IInv, Types
    <3> QED BY <1>6, <3>1 DEF In
  <2>2. IsFiniteSet(X) /\ Cardinality(X) \in Nat
    BY <2>1, SizeFacts, FS_Subset, FS_CardinalityType
  <2>3. Cardinality(X) # 0
    BY <2>1, <2>2, FS_EmptySet
  <2>4. disp.slot_rem[s] = Cardinality(X) + ToStart(disp, s)
    BY <1>1, <1>3 DEF SlotCounts
  <2>5. ToStart(disp, s) \in Nat
    BY <1>3, CtaFacts DEF ToStart, Disps
  <2> HIDE DEF s, X
  <2>6. disp.slot_rem[s] # 0
    BY <2>2, <2>3, <2>4, <2>5
  <2> QED BY <2>6 DEF s
<1> QED BY <1>1, <1>4, <1>5, <1>6, <1>7 DEF Fin

(* A warp beyond a sync was let past it.                                   *)
LEMMA BeyondSync ==
  ASSUME IInv, SyncInv, NEW w \in active, NEW i \in At("sync"), NEW j \in Nat, i < j, Met(w, j)
  PROVE  Cleared(w, i) /\ arrived[warp[w].block][i] = Ranks
<1>1. warp[w].pc \in Nat /\ pipe[w] \in Seq(Pcs)
  BY WarpFacts
<1>2. Sorted(pipe[w], warp[w].pc, warp[w].rank)
  BY DEF SyncInv, Lines
<1>3. Front(pipe[w], warp[w].pc) \in Nat /\ Front(pipe[w], warp[w].pc) <= warp[w].pc
  BY <1>1, <1>2, FrontBound
<1>4. i \in Nat
  BY MeetFacts, ProgramFacts
<1>5. i < Front(pipe[w], warp[w].pc) /\ warp[w].pc # i + 1
  BY <1>1, <1>3, <1>4 DEF Met
<1>6. Cleared(w, i)
  BY <1>5 DEF Cleared, Met, HeldAt
<1> QED BY <1>6 DEF SyncInv, Clears

(* A warp that is anywhere beyond a sync shows that all have come to it.   *)
LEMMA LaterSync ==
  ASSUME IInv, SyncInv, NEW k \in Blocks, NEW i \in At("sync"), NEW j \in Meets, i < j,
         NEW r \in arrived[k][j]
  PROVE  arrived[k][i] = Ranks
<1>1. CASE r \in arrived[k][Len(Program)]
  BY <1>1 DEF SyncInv, Gone
<1>2. CASE \E w \in active : Runs(active, warp, w, k, r)
  <2>1. PICK w \in active : Runs(active, warp, w, k, r)
    BY <1>2
  <2>2. warp[w].block = k /\ warp[w].rank = r
    BY <2>1 DEF Runs
  <2>3. Met(w, j) /\ j \in Nat
    BY <2>2, MeetFacts DEF SyncInv, Tracked
  <2> QED BY <2>2, <2>3, BeyondSync
<1> QED BY <1>1, <1>2 DEF SyncInv, Here

(* While a sync lacks arrivals, and none before it does, the unit counts   *)
(* the arrivals at it.                                                     *)
LEMMA CountIs ==
  ASSUME IInv, SyncInv, Disciplined, NEW k \in Blocks, NEW s \in Wids,
         PlacedAt(disp, active, warp, k, s), NEW i \in At("sync"), arrived[k][i] # Ranks,
         \A j \in At("sync") : j < i => arrived[k][j] = Ranks
  PROVE  bars[s][Program[i].bar].count = Cardinality(arrived[k][i])
<1>1. arrived \in [Blocks -> [Pcs -> SUBSET Ranks]]
  BY DEF IInv, Types
<1>2. i \in Meets /\ i \in Pcs /\ i \in Nat /\ Program[i].bar \in Bars
  BY MeetFacts, ProgramFacts
<1>3. ASSUME NEW j \in Meets, Program[j].bar = Program[i].bar, j # i
      PROVE  arrived[k][j] = Ranks \/ arrived[k][j] = {}
  <2>1. j \in At("sync") /\ j \in Nat
    BY <1>3, MeetFacts DEF Disciplined, Meets
  <2>2. CASE j < i
    BY <2>1, <2>2
  <2>3. CASE i < j
    BY <2>3, LaterSync
  <2> QED BY <1>2, <1>3, <2>1, <2>2, <2>3
<1>4. PICK n \in Nat : Cardinality(MetBy(k, Program[i].bar))
                       = n * CtaSize + Cardinality(arrived[k][i])
  BY <1>1, <1>2, <1>3, MetSum
<1>5. /\ Cardinality(arrived[k][i]) \in Nat /\ Cardinality(arrived[k][i]) < CtaSize
  <2> DEFINE A == arrived[k][i]
  <2>1. A \in SUBSET Ranks /\ A # Ranks /\ IsFiniteSet(Ranks) /\ Cardinality(Ranks) = CtaSize
    BY <1>1, <1>2, MeetFacts
  <2> HIDE DEF A
  <2>2. Cardinality(A) <= CtaSize /\ Cardinality(A) # CtaSize /\ IsFiniteSet(A)
    BY <2>1, FS_Subset
  <2>3. Cardinality(A) \in Nat
    BY <2>2, FS_CardinalityType
  <2>4. Cardinality(A) < CtaSize
    BY <2>2, <2>3, CtaFacts
  <2> QED BY <2>3, <2>4 DEF A
<1>6. Rem(Cardinality(MetBy(k, Program[i].bar)), CtaSize) = Cardinality(arrived[k][i])
  BY <1>4, <1>5, RemFacts
<1>7. bars[s][Program[i].bar].count = Rem(Cardinality(MetBy(k, Program[i].bar)), CtaSize)
  BY <1>2 DEF SyncInv, Counts
<1> QED BY <1>6, <1>7

-----------------------------------------------------------------------------
(* The unit takes an instruction of the line of w: what w has met then.    *)
LEMMA UnitTakes ==
  ASSUME IInv, SyncInv, NEW w \in Wids, pipe[w] # <<>>, pipe' = [pipe EXCEPT ![w] = Tail(@)],
         \A v \in active : warp'[v].pc = warp[v].pc
  PROVE  /\ w \in active /\ Head(pipe[w]) \in Pcs /\ Front(pipe[w], warp[w].pc) = Head(pipe[w])
         /\ pipe'[w] = Tail(pipe[w]) /\ \A v \in Wids : v # w => pipe'[v] = pipe[v]
         /\ \A v \in active : Sorted(pipe'[v], warp'[v].pc, warp[v].rank)
         /\ \A v \in active : \A j \in Once(warp[v].rank) :
              Met(v, j)' <=> Met(v, j) \/ (v = w /\ j = Head(pipe[w]))
         /\ \A s \in Wids, b \in Bars : w \notin bars[s][b].wait_mask
         /\ Program[Head(pipe[w])].op = "expect" => warp[w].rank = 0
<1>1. w \in active /\ pipe \in [Wids -> Seq(Pcs)] /\ active \subseteq Wids
  BY InUnit DEF IInv, Types
<1>2. pipe'[w] = Tail(pipe[w]) /\ \A v \in Wids : v # w => pipe'[v] = pipe[v]
  BY <1>1
<1>3. \A v \in active : Sorted(pipe[v], warp[v].pc, warp[v].rank)
  BY DEF SyncInv, Lines
<1>4. warp[w].pc \in Nat
  BY <1>1, WarpFacts
<1> DEFINE p == pipe[w]
           pc == warp[w].pc
           i == Head(p)
<1>5. /\ Sorted(Tail(p), pc, warp[w].rank) /\ Front(p, pc) = i /\ i \in Pcs
      /\ \A j \in Once(warp[w].rank) : j < Front(Tail(p), pc) <=> j < i \/ j = i
      /\ Program[i].op = "expect" => warp[w].rank = 0
  BY <1>1, <1>3, <1>4, LineTail
<1>6. \A v \in active : Sorted(pipe'[v], warp'[v].pc, warp[v].rank)
  <2> SUFFICES ASSUME NEW v \in active PROVE Sorted(pipe'[v], warp'[v].pc, warp[v].rank)
    OBVIOUS
  <2>1. CASE v = w
    BY <1>2, <1>5, <2>1
  <2>2. CASE v # w
    BY <1>1, <1>2, <1>3, <2>2
  <2> QED BY <2>1, <2>2
<1>7. ASSUME NEW v \in active, NEW j \in Once(warp[v].rank)
      PROVE  Met(v, j)' <=> Met(v, j) \/ (v = w /\ j = i)
  <2>1. CASE v = w
    <3>1. Met(v, j)' <=> j < Front(Tail(p), pc)
      BY <1>2, <2>1 DEF Met
    <3>2. Met(v, j) <=> j < i
      BY <1>5, <2>1 DEF Met
    <3> HIDE DEF i, p, pc
    <3> QED BY <1>5, <2>1, <3>1, <3>2
  <2>2. CASE v # w
    BY <1>1, <1>2, <2>2 DEF Met
  <2> QED BY <2>1, <2>2
<1>8. \A s \in Wids, b \in Bars : w \notin bars[s][b].wait_mask
  BY DEF SyncInv, InSlot
<1> QED BY <1>1, <1>2, <1>5, <1>6, <1>7, <1>8

(* An arrival, up to who is let go by it.                                  *)
LEMMA ArriveSync ==
  ASSUME IInv, SyncInv, NEW w \in Wids, pipe[w] # <<>>, Head(pipe[w]) \in Meets,
         pipe' = [pipe EXCEPT ![w] = Tail(@)],
         NEW ws \in SUBSET {w}, ws = {} \/ Tail(pipe[w]) = <<>>,
         OneMore(warp[w].slot, Program[Head(pipe[w])].bar, ws), Reached(w, Head(pipe[w])),
         \A t \in Wids, c \in Bars : bars'[t][c].events = bars[t][c].events,
         active' = active, tx' = tx, disp' = disp,
         \A v \in Wids : /\ warp'[v].block = warp[v].block /\ warp'[v].rank = warp[v].rank
                         /\ warp'[v].slot = warp[v].slot /\ warp'[v].pc = warp[v].pc,
         Clears'
  PROVE  SyncInv'
<1>0. PICK i, k, r, s, b : /\ i = Head(pipe[w]) /\ k = warp[w].block /\ r = warp[w].rank
                           /\ s = warp[w].slot /\ b = Program[i].bar
  OBVIOUS
<1>1. /\ active \subseteq Wids /\ arrived \in [Blocks -> [Pcs -> SUBSET Ranks]]
      /\ bars \in [Wids -> [Bars -> BarRecs]]
  BY DEF IInv, Types
<1>2. /\ w \in active /\ i \in Pcs /\ Front(pipe[w], warp[w].pc) = i
      /\ pipe'[w] = Tail(pipe[w]) /\ \A v \in Wids : v # w => pipe'[v] = pipe[v]
      /\ \A v \in active : Sorted(pipe'[v], warp'[v].pc, warp[v].rank)
      /\ \A v \in active : \A j \in Once(warp[v].rank) :
           Met(v, j)' <=> Met(v, j) \/ (v = w /\ j = i)
      /\ \A t \in Wids, c \in Bars : w \notin bars[t][c].wait_mask
  BY <1>0, <1>1, UnitTakes
<1>3. k \in Blocks /\ r \in Ranks /\ s \in Wids /\ b \in Bars /\ i \in Nat /\ i # Len(Program)
  BY <1>0, <1>2, WarpFacts, ProgramFacts, MeetFacts
<1>4. /\ \A v \in active : Runs(active, warp, v, k, r) => v = w
      /\ \A q, t : PlacedAt(disp, active, warp, q, t) /\ t = s => q = k
      /\ disp.slot_rem[s] # 0
  BY <1>0, <1>2, BlockWarps
<1>5. r \notin arrived[k][i]
  <2>1. r \in arrived[k][i] <=> i < Front(pipe[w], warp[w].pc)
    BY <1>0, <1>2 DEF SyncInv, Tracked, Met
  <2> QED BY <1>2, <1>3, <2>1
<1>6. arrived' = [arrived EXCEPT ![k][i] = @ \cup {r}]
  BY <1>0 DEF Reached
<1>7. /\ arrived'[k][i] = arrived[k][i] \cup {r}
      /\ \A q \in Blocks, n \in Pcs : ~(q = k /\ n = i) => arrived'[q][n] = arrived[q][n]
  BY <1>1, <1>2, <1>3, <1>6
<1>8. /\ Cardinality(MetBy(k, b))' = Cardinality(MetBy(k, b)) + 1
      /\ \A q \in Blocks : \A c : ~(q = k /\ c = b) => MetBy(q, c)' = MetBy(q, c)
  <2>1. i \in Meets /\ b = Program[i].bar
    BY <1>0
  <2>2. /\ Cardinality(MetBy(k, Program[i].bar))' = Cardinality(MetBy(k, Program[i].bar)) + 1
        /\ \A q \in Blocks : \A c : ~(q = k /\ c = Program[i].bar) => MetBy(q, c)' = MetBy(q, c)
    BY <1>1, <1>3, <1>5, <1>6, <2>1, MetGrows
  <2> QED BY <2>1, <2>2
<1>9. /\ \A t \in Wids, c \in Bars : (t = s /\ c = b) \/ bars'[t][c] = bars[t][c]
      /\ bars'[s][b].count = Rem(bars[s][b].count + 1, CtaSize)
      /\ bars'[s][b].wait_mask = {} \/ bars'[s][b].wait_mask = bars[s][b].wait_mask \cup ws
  BY <1>0 DEF OneMore, Rem
<1>10. /\ \A q, t : PlacedAt(disp, active, warp, q, t)' <=> PlacedAt(disp, active, warp, q, t)
       /\ \A v \in active : \A q, n : Runs(active, warp, v, q, n)' <=> Runs(active, warp, v, q, n)
  BY <1>1 DEF PlacedAt, Runs
<1>11. \A v \in active : Meets \subseteq Once(warp[v].rank)
  BY MeetFacts
<1>12. Meets \subseteq Pcs
  BY MeetFacts
<1>13. Lines'
  BY <1>1, <1>2 DEF Lines
<1>14. Tracked'
  <2> SUFFICES ASSUME NEW v \in active, NEW j \in Meets
               PROVE  warp[v].rank \in arrived'[warp[v].block][j] <=> Met(v, j)'
    BY <1>1 DEF Tracked
  <2>1. warp[v].rank \in arrived[warp[v].block][j] <=> Met(v, j)
    BY DEF SyncInv, Tracked
  <2>2. Met(v, j)' <=> Met(v, j) \/ (v = w /\ j = i)
    BY <1>2, <1>11
  <2>3. warp[v].block \in Blocks /\ j \in Pcs
    BY <1>12, WarpFacts
  <2>4. CASE warp[v].block = k /\ j = i
    <3>1. warp[v].rank = r <=> v = w
      BY <1>0, <1>4, <2>4 DEF Runs
    <3> QED BY <1>7, <2>1, <2>2, <2>4, <3>1
  <2>5. CASE ~(warp[v].block = k /\ j = i)
    <3>1. ~(v = w /\ j = i)
      BY <1>0, <2>5
    <3> QED BY <1>7, <2>1, <2>2, <2>3, <2>5, <3>1
  <2> QED BY <2>4, <2>5
<1>15. /\ \A q \in Blocks, n \in Pcs : arrived[q][n] \subseteq arrived'[q][n]
       /\ \A q \in Blocks, n \in Pcs : arrived[q][n] = Ranks => arrived'[q][n] = Ranks
       /\ \A q \in Blocks : arrived'[q][Len(Program)] = arrived[q][Len(Program)]
  <2>1. \A q \in Blocks, n \in Pcs : arrived[q][n] \subseteq arrived'[q][n]
    BY <1>7
  <2>2. \A q \in Blocks, n \in Pcs : arrived[q][n] = Ranks => arrived'[q][n] = Ranks
    BY <1>3, <1>5, <1>7
  <2> QED BY <1>3, <1>7, <2>1, <2>2, ProgramFacts
<1>16. Gone'
  <2>1. At("sync") \subseteq Pcs
    BY ProgramFacts
  <2> QED BY <1>12, <1>15, <2>1 DEF SyncInv, Gone
<1>17. Here'
  <2> SUFFICES ASSUME NEW q \in Blocks, NEW j \in Meets, NEW n \in arrived'[q][j]
               PROVE  n \in arrived[q][Len(Program)] \/ \E v \in active : Runs(active, warp, v, q, n)
    BY <1>10, <1>15 DEF Here
  <2>1. CASE n \in arrived[q][j]
    BY <2>1 DEF SyncInv, Here
  <2>2. CASE n \notin arrived[q][j]
    <3>1. q = k /\ n = r
      BY <1>7, <1>12, <2>2
    <3> QED BY <1>0, <1>2, <3>1 DEF Runs
  <2> QED BY <2>1, <2>2
<1>18. OneSlot'
  BY <1>10 DEF SyncInv, OneSlot
<1>19. Counts'
  <2> SUFFICES ASSUME NEW q \in Blocks, NEW t \in Wids, NEW c \in Bars,
                      PlacedAt(disp, active, warp, q, t)
               PROVE  bars'[t][c].count = Rem(Cardinality(MetBy(q, c))', CtaSize)
    BY <1>10 DEF Counts
  <2>1. bars[t][c].count = Rem(Cardinality(MetBy(q, c)), CtaSize)
    BY DEF SyncInv, Counts
  <2>2. CASE t = s /\ c = b
    <3>1. q = k
      BY <1>4, <2>2
    <3>2. /\ Cardinality(MetBy(k, b)) \in Nat
          /\ Rem(Cardinality(MetBy(k, b)) + 1, CtaSize)
             = Rem(Rem(Cardinality(MetBy(k, b)), CtaSize) + 1, CtaSize)
      BY MetByFacts, RemFacts
    <3>3. bars'[s][b].count = Rem(Cardinality(MetBy(k, b)) + 1, CtaSize)
      BY <1>9, <2>1, <2>2, <3>1, <3>2
    <3> QED BY <1>8, <2>2, <3>1, <3>3
  <2>3. CASE ~(t = s /\ c = b)
    <3>1. ~(q = k /\ c = b)
      <4>1. q = k => t = s
        BY <1>0, <1>2, <1>3, WarpFacts DEF SyncInv, OneSlot
      <4> QED BY <2>3, <4>1
    <3> QED BY <1>8, <1>9, <2>1, <2>3, <3>1
  <2> QED BY <2>2, <2>3
<1>20. Rests'
  <2> SUFFICES ASSUME NEW t \in Wids, NEW c \in Bars, disp.slot_rem[t] = 0
               PROVE  bars'[t][c] = bars[t][c]
    BY DEF SyncInv, Rests
  <2> QED BY <1>4, <1>9
<1>21. Exact'
  BY DEF SyncInv, Exact
<1>22. Expects'
  <2> SUFFICES ASSUME NEW t \in tx, NEW v \in active, warp[v].slot = t.slot, warp[v].rank = 0
               PROVE  Met(v, t.pc)'
    BY <1>1 DEF SyncInv, Expects
  <2>1. t.pc \in At("expect") /\ Met(v, t.pc)
    BY DEF SyncInv, Expects
  <2>2. t.pc \in Once(warp[v].rank)
    BY <2>1 DEF Once
  <2> QED BY <1>2, <2>1, <2>2
<1>23. InSlot'
  <2> SUFFICES ASSUME NEW t \in Wids, NEW c \in Bars, NEW v \in bars'[t][c].wait_mask
               PROVE  warp'[v].slot = t /\ pipe'[v] = <<>>
    BY DEF InSlot
  <2>1. CASE v \in bars[t][c].wait_mask
    <3>1. v # w /\ v \in Wids
      BY <1>2, <2>1, WaiterFacts
    <3>2. warp[v].slot = t /\ pipe[v] = <<>>
      BY <2>1 DEF SyncInv, InSlot
    <3> QED BY <1>2, <3>1, <3>2
  <2>2. CASE v \notin bars[t][c].wait_mask
    <3>1. t = s /\ c = b /\ v \in ws
      BY <1>9, <2>2
    <3>2. v = w /\ Tail(pipe[w]) = <<>>
      BY <3>1
    <3> QED BY <1>0, <1>2, <3>1, <3>2
  <2> QED BY <2>1, <2>2
<1> QED BY <1>13, <1>14, <1>16, <1>17, <1>18, <1>19, <1>20, <1>21, <1>22, <1>23 DEF SyncInv

(* The last arrival at a sync, and it alone, lets the warps there go: the  *)
(* count says that all are there, and no event that a transfer is pending. *)
LEMMA BarSyncSync ==
  ASSUME Disciplined, IInv, SyncInv, NEW w \in Wids, BarSync(w)
  PROVE  SyncInv'
<1>0. PICK i, k, r, s, b : /\ i = Head(pipe[w]) /\ k = warp[w].block /\ r = warp[w].rank
                           /\ s = warp[w].slot /\ b = Program[i].bar
  OBVIOUS
<1>1. /\ Processes(w, "sync") /\ Arrive(w, i, TRUE)
      /\ disp' = disp /\ active' = active /\ warp' = warp /\ tx' = tx
  BY <1>0 DEF BarSync
<1>2. /\ pipe[w] # <<>> /\ Program[i].op = "sync" /\ pipe' = [pipe EXCEPT ![w] = Tail(@)]
      /\ Stalls(i)
  BY <1>0, <1>1 DEF Processes, Stalls, NonStalling
<1>3. /\ i \in Pcs /\ w \in active /\ Tail(pipe[w]) = <<>> /\ warp[w].pc = i + 1
      /\ w \in stalled_next /\ \A t \in Wids, c \in Bars : w \notin bars[t][c].wait_mask
  BY <1>0, <1>2, InUnit
<1>4. i \in At("sync") /\ i \in Meets /\ i \in Nat
  BY <1>2, <1>3, ProgramFacts DEF At, Meets
<1>5. /\ OneMore(s, b, {w}) /\ Reached(w, i)
      /\ \A t \in Wids, c \in Bars : bars'[t][c].events = bars[t][c].events
  <2>1. MayWait(w)
    BY <1>3 DEF MayWait
  <2>2. ArriveBy(w, i, {w}) /\ {w} \in SUBSET {w} /\ \A v \in {w} : MayWait(v)
    BY <1>1, <2>1 DEF Arrive, ArriveBy
  <2> QED BY <1>0, <1>3, <2>2, ArriveFacts
<1>6. k \in Blocks /\ r \in Ranks /\ s \in Wids /\ b \in Bars
      /\ PlacedAt(disp, active, warp, k, s)
  BY <1>0, <1>3, ProgramFacts, WarpFacts
<1>7. /\ Front(pipe[w], warp[w].pc) = i /\ pipe'[w] = Tail(pipe[w])
      /\ \A v \in active : \A j \in Once(warp[v].rank) :
           Met(v, j)' <=> Met(v, j) \/ (v = w /\ j = i)
  BY <1>0, <1>1, <1>2, UnitTakes
<1>8. r \in arrived[k][i] <=> i < i
  BY <1>0, <1>3, <1>4, <1>7 DEF SyncInv, Tracked, Met
<1>9. /\ arrived \in [Blocks -> [Pcs -> SUBSET Ranks]]
      /\ arrived'[k][i] = arrived[k][i] \cup {r}
      /\ \A q \in Blocks, n \in Pcs : ~(q = k /\ n = i) => arrived'[q][n] = arrived[q][n]
  <2>1. arrived \in [Blocks -> [Pcs -> SUBSET Ranks]]
    BY DEF IInv, Types
  <2> QED BY <1>0, <1>3, <1>5, <1>6, <2>1 DEF Reached
<1>10. \A q \in Blocks, n \in Pcs : arrived[q][n] = Ranks => arrived'[q][n] = Ranks
  BY <1>6, <1>9
<1>11. ASSUME NEW j \in At("sync"), j < i PROVE arrived[k][j] = Ranks
  <2>1. j \in Nat /\ Met(w, j)
    BY <1>7, <1>11, MeetFacts, ProgramFacts DEF Met
  <2>2. ~HeldAt(w, j)
    BY <1>3, <1>4, <1>11, <2>1 DEF HeldAt
  <2> QED BY <1>0, <1>3, <2>1, <2>2 DEF Cleared, SyncInv, Clears
<1>12. ASSUME Completes(bars[s][b]) PROVE arrived'[k][i] = Ranks /\ TxOf(tx, s, b) = {}
  <2>1. bars[s][b].count + 1 = CtaSize /\ bars[s][b].events = 0
    BY <1>12 DEF Completes
  <2>2. arrived[k][i] # Ranks
    BY <1>4, <1>6, <1>8
  <2>3. bars[s][b].count = Cardinality(arrived[k][i])
    BY <1>0, <1>4, <1>6, <1>11, <2>2, CountIs
  <2> DEFINE A == arrived[k][i]
  <2>4. A \in SUBSET Ranks /\ r \notin A
    BY <1>3, <1>4, <1>6, <1>8, <1>9
  <2> HIDE DEF A
  <2>5. IsFiniteSet(Ranks) /\ Cardinality(Ranks) = CtaSize
    BY MeetFacts
  <2>6. IsFiniteSet(A)
    BY <2>4, <2>5, FS_Subset
  <2>7. Cardinality(A \cup {r}) = Cardinality(A) + 1
    BY <2>4, <2>6, FS_AddElement
  <2>8. A \cup {r} \in SUBSET Ranks
    BY <1>6, <2>4
  <2>9. Cardinality(A \cup {r}) = Cardinality(Ranks)
    BY <2>1, <2>3, <2>5, <2>7 DEF A
  <2>10. A \cup {r} = Ranks
    BY <2>5, <2>8, <2>9, FS_Subset
  <2>11. IsFiniteSet(TxOf(tx, s, b))
    BY TxFacts DEF IInv, Types
  <2>12. Cardinality(TxOf(tx, s, b)) = 0
    BY <1>6, <2>1 DEF SyncInv, Exact
  <2> QED BY <1>9, <2>10, <2>11, <2>12, FS_EmptySet DEF A
<1>13. ASSUME NEW v \in active, NEW j \in At("sync"), Cleared(v, j)'
       PROVE  /\ arrived'[warp[v].block][j] = Ranks
              /\ \A t \in TxOf(tx, warp[v].slot, Program[j].bar) : t.pc > j
  <2>1. /\ warp[v].block \in Blocks /\ warp[v].slot \in Wids /\ v \in Wids /\ warp[v].rank \in Ranks
        /\ j \in Pcs /\ j \in Nat /\ j \in Once(warp[v].rank) /\ Program[j].bar \in Bars
    BY WarpFacts, MeetFacts, ProgramFacts
  <2>2. CASE Cleared(v, j)
    BY <1>10, <2>1, <2>2 DEF SyncInv, Clears
  <2>3. CASE ~Met(v, j)
    <3>1. v = w /\ j = i
      BY <1>7, <1>13, <2>1, <2>3 DEF Cleared
    <3>2. w \notin bars'[s][b].wait_mask
      BY <1>0, <1>1, <1>3, <1>13, <3>1 DEF Cleared, HeldAt
    <3>3. Completes(bars[s][b])
      BY <1>5, <3>2 DEF OneMore
    <3> QED BY <1>0, <1>12, <3>1, <3>3
  <2>4. CASE HeldAt(v, j)
    <3>1. v \in bars[warp[v].slot][Program[j].bar].wait_mask /\ warp[v].pc = j + 1
      BY <2>4 DEF HeldAt
    <3>2. v \notin bars'[warp[v].slot][Program[j].bar].wait_mask
      BY <1>1, <1>13, <3>1 DEF Cleared, HeldAt
    <3>3. warp[v].slot = s /\ Program[j].bar = b /\ Completes(bars[s][b])
      BY <1>5, <2>1, <3>1, <3>2 DEF OneMore
    <3>4. TxOf(tx, s, b) = {} /\ arrived'[k][i] = Ranks
      BY <1>12, <3>3
    <3>5. PlacedAt(disp, active, warp, warp[v].block, s)
      BY <3>3, WarpFacts
    <3>6. warp[v].block = k
      BY <1>0, <1>3, <3>5, BlockWarps
    <3>7. CASE j < i
      BY <1>6, <1>10, <1>11, <2>1, <3>3, <3>4, <3>6, <3>7
    <3>8. CASE j = i
      BY <3>3, <3>4, <3>6, <3>8
    <3>9. CASE i < j
      <4>1. pipe[v] = <<>>
        BY <2>1, <3>1 DEF SyncInv, InSlot
      <4>2. Met(v, j)
        BY <2>1, <3>1, <4>1 DEF Met, Front
      <4>3. arrived[k][i] = Ranks
        BY <1>4, <2>1, <3>6, <3>9, <4>2, BeyondSync
      <4> QED BY <1>4, <1>6, <1>8, <4>3
    <3> QED BY <1>4, <2>1, <3>7, <3>8, <3>9
  <2> QED BY <2>2, <2>3, <2>4 DEF Cleared
<1>14. Clears'
  BY <1>1, <1>13 DEF Clears
<1> QED BY <1>0, <1>1, <1>2, <1>3, <1>4, <1>5, <1>14, ArriveSync

(* No sync is on the barrier of an arrive, so that this lets nobody past   *)
(* one.                                                                    *)
LEMMA BarArriveSync ==
  ASSUME Disciplined, IInv, SyncInv, NEW w \in Wids, BarArrive(w)
  PROVE  SyncInv'
<1>0. PICK i, s, b, tok : /\ i = Head(pipe[w]) /\ s = warp[w].slot /\ b = Program[i].bar
                          /\ tok = bars[s][b].phase % 2
  OBVIOUS
<1>1. /\ Processes(w, "arrive") /\ Arrive(w, i, FALSE)
      /\ disp' = disp /\ active' = active /\ warp' = [warp EXCEPT ![w].token[b] = tok] /\ tx' = tx
  BY <1>0 DEF BarArrive
<1>2. pipe[w] # <<>> /\ Program[i].op = "arrive" /\ pipe' = [pipe EXCEPT ![w] = Tail(@)]
  BY <1>0, <1>1 DEF Processes
<1>3. /\ i \in Pcs /\ w \in active /\ warp \in [Wids -> Warps] /\ active \subseteq Wids
      /\ arrived \in [Blocks -> [Pcs -> SUBSET Ranks]]
  BY <1>0, <1>2, InUnit DEF IInv, Types
<1>4. i \in At("arrive") /\ i \in Meets /\ b \in Bars /\ s \in Wids
  BY <1>0, <1>2, <1>3, ProgramFacts, WarpFacts DEF At, Meets
<1>5. /\ OneMore(s, b, {}) /\ Reached(w, i)
      /\ \A t \in Wids, c \in Bars : bars'[t][c].events = bars[t][c].events
  <2>1. ArriveBy(w, i, {}) /\ {} \in SUBSET {w} /\ \A v \in {} : MayWait(v)
    BY <1>1 DEF Arrive, ArriveBy
  <2> QED BY <1>0, <1>3, <2>1, ArriveFacts
<1>6. \A v \in Wids : /\ warp'[v].block = warp[v].block /\ warp'[v].rank = warp[v].rank
                      /\ warp'[v].slot = warp[v].slot /\ warp'[v].pc = warp[v].pc
  BY <1>1, <1>3 DEF Warps
<1>7. \A v \in active : \A j \in Once(warp[v].rank) :
        Met(v, j)' <=> Met(v, j) \/ (v = w /\ j = i)
  BY <1>0, <1>2, <1>3, <1>6, UnitTakes
<1>8. \A q \in Blocks, n \in Pcs : arrived[q][n] = Ranks => arrived'[q][n] = Ranks
  <2>1. warp[w].block \in Blocks /\ warp[w].rank \in Ranks
    BY <1>3, WarpFacts
  <2>2. /\ arrived'[warp[w].block][i] = arrived[warp[w].block][i] \cup {warp[w].rank}
        /\ \A q \in Blocks, n \in Pcs :
             ~(q = warp[w].block /\ n = i) => arrived'[q][n] = arrived[q][n]
    BY <1>3, <1>5, <2>1 DEF Reached
  <2> QED BY <2>1, <2>2
<1>9. ASSUME NEW v \in active, NEW j \in At("sync"), Cleared(v, j)'
      PROVE  /\ arrived'[warp[v].block][j] = Ranks
             /\ \A t \in TxOf(tx, warp[v].slot, Program[j].bar) : t.pc > j
  <2>1. /\ warp[v].block \in Blocks /\ warp[v].slot \in Wids /\ v \in Wids /\ warp[v].rank \in Ranks
        /\ j \in Pcs /\ j \in Once(warp[v].rank) /\ Program[j].bar \in Bars
    BY WarpFacts, MeetFacts
  <2>2. Program[j].bar # b /\ j # i
    BY <1>0, <1>2, <1>4, MeetFacts DEF Disciplined
  <2>3. Met(v, j)
    BY <1>7, <1>9, <2>1, <2>2 DEF Cleared
  <2>4. bars'[warp[v].slot][Program[j].bar] = bars[warp[v].slot][Program[j].bar]
    BY <1>5, <2>1, <2>2 DEF OneMore
  <2>5. ~HeldAt(v, j)
    BY <1>6, <1>9, <2>1, <2>4 DEF Cleared, HeldAt
  <2> QED BY <1>8, <2>1, <2>3, <2>5 DEF Cleared, SyncInv, Clears
<1>10. Clears'
  BY <1>1, <1>3, <1>6, <1>9 DEF Clears
<1>11. {} \in SUBSET {w}
  OBVIOUS
<1> QED BY <1>0, <1>1, <1>2, <1>4, <1>5, <1>6, <1>10, <1>11, ArriveSync

(* Nor does a wait, which is not counted.                                  *)
LEMMA BarWaitSync ==
  ASSUME IInv, SyncInv, NEW w \in Wids, BarWait(w)
  PROVE  SyncInv'
<1>0. PICK i, s, b : i = Head(pipe[w]) /\ s = warp[w].slot /\ b = Program[i].bar
  OBVIOUS
<1>1. /\ Processes(w, "wait")
      /\ bars' = [bars EXCEPT ![s][b].wait_mask = @ \cup {w}] \/ bars' = bars
      /\ disp' = disp /\ active' = active /\ warp' = warp /\ tx' = tx /\ arrived' = arrived
  BY <1>0 DEF BarWait
<1>2. /\ pipe[w] # <<>> /\ Program[i].op = "wait" /\ pipe' = [pipe EXCEPT ![w] = Tail(@)]
      /\ Stalls(i)
  BY <1>0, <1>1 DEF Processes, Stalls, NonStalling
<1>3. i \in Pcs /\ w \in active /\ Tail(pipe[w]) = <<>> /\ warp[w].pc = i + 1
  BY <1>0, <1>2, InUnit
<1>4. /\ i \in Nat /\ b \in Bars /\ s \in Wids /\ disp.slot_rem[s] # 0
      /\ bars \in [Wids -> [Bars -> BarRecs]] /\ active \subseteq Wids
  BY <1>0, <1>3, ProgramFacts, WarpFacts, BlockWarps DEF IInv, Types
<1>5. /\ \A t \in Wids, c \in Bars : ~(t = s /\ c = b) => bars'[t][c] = bars[t][c]
      /\ bars'[s][b].count = bars[s][b].count /\ bars'[s][b].events = bars[s][b].events
      /\ \/ bars'[s][b].wait_mask = bars[s][b].wait_mask \cup {w}
         \/ bars'[s][b].wait_mask = bars[s][b].wait_mask
  <2>1. CASE bars' = bars
    BY <2>1
  <2>2. CASE bars' = [bars EXCEPT ![s][b].wait_mask = @ \cup {w}]
    BY <1>4, <2>2 DEF BarRecs
  <2> QED BY <1>1, <2>1, <2>2
<1>6. /\ pipe'[w] = Tail(pipe[w]) /\ \A v \in Wids : v # w => pipe'[v] = pipe[v]
      /\ \A v \in active : Sorted(pipe'[v], warp'[v].pc, warp[v].rank)
      /\ \A v \in active : \A j \in Once(warp[v].rank) :
           Met(v, j)' <=> Met(v, j) \/ (v = w /\ j = i)
      /\ \A t \in Wids, c \in Bars : w \notin bars[t][c].wait_mask
  BY <1>0, <1>1, <1>2, UnitTakes
<1>7. \A v \in active : \A j \in Once(warp[v].rank) :
        j < Front(pipe'[v], warp'[v].pc) <=> j < Front(pipe[v], warp[v].pc)
  <2>1. \A v : i \notin Once(warp[v].rank)
    BY <1>2 DEF Once, Meets, At
  <2> QED BY <1>6, <2>1 DEF Met
<1>8. ASSUME NEW v \in active, NEW j \in At("sync") PROVE HeldAt(v, j)' <=> HeldAt(v, j)
  <2>1. j \in Nat /\ j # i /\ Program[j].bar \in Bars /\ warp[v].slot \in Wids
    BY <1>2, MeetFacts, ProgramFacts, WarpFacts
  <2>2. CASE v = w
    BY <1>1, <1>3, <1>4, <2>1, <2>2 DEF HeldAt
  <2>3. CASE v # w
    <3>1. v \in bars'[warp[v].slot][Program[j].bar].wait_mask
          <=> v \in bars[warp[v].slot][Program[j].bar].wait_mask
      BY <1>5, <2>1, <2>3
    <3> QED BY <1>1, <3>1 DEF HeldAt
  <2> QED BY <2>2, <2>3
<1>9. Rests'
  <2> SUFFICES ASSUME NEW t \in Wids, NEW c \in Bars, disp.slot_rem[t] = 0
               PROVE  bars'[t][c] = bars[t][c]
    BY <1>1 DEF SyncInv, Rests
  <2> QED BY <1>4, <1>5
<1>10. InSlot'
  <2> SUFFICES ASSUME NEW t \in Wids, NEW c \in Bars, NEW v \in bars'[t][c].wait_mask
               PROVE  warp[v].slot = t /\ pipe'[v] = <<>>
    BY <1>1 DEF InSlot
  <2>1. CASE v \in bars[t][c].wait_mask
    <3>1. v # w /\ v \in Wids
      BY <1>6, <2>1, WaiterFacts
    <3>2. warp[v].slot = t /\ pipe[v] = <<>>
      BY <2>1 DEF SyncInv, InSlot
    <3> QED BY <1>6, <3>1, <3>2
  <2>2. CASE v \notin bars[t][c].wait_mask
    <3>1. t = s /\ c = b /\ v = w
      BY <1>5, <2>2
    <3> QED BY <1>0, <1>3, <1>6, <3>1
  <2> QED BY <2>1, <2>2
<1>11. \A t \in Wids, c \in Bars : /\ bars'[t][c].count = bars[t][c].count
                                   /\ bars'[t][c].events = bars[t][c].events
  BY <1>5
<1> QED BY <1>1, <1>6, <1>7, <1>8, <1>9, <1>10, <1>11, SyncMoves

(* A transfer is expected: by the warp of rank 0, once, and by no block    *)
(* that is past the next sync.                                             *)
LEMMA BarExpectSync ==
  ASSUME IInv, SyncInv, NEW w \in Wids, BarExpect(w)
  PROVE  SyncInv'
<1>0. PICK i, k, s, b, e : /\ i = Head(pipe[w]) /\ k = warp[w].block /\ s = warp[w].slot
                           /\ b = Program[i].bar /\ e = [slot |-> s, bar |-> b, pc |-> i]
  OBVIOUS
<1>1. /\ Processes(w, "expect") /\ bars' = [bars EXCEPT ![s][b].events = @ + 1]
      /\ tx' = tx \cup {e}
      /\ disp' = disp /\ active' = active /\ warp' = warp /\ arrived' = arrived
  BY <1>0 DEF BarExpect
<1>2. pipe[w] # <<>> /\ Program[i].op = "expect" /\ pipe' = [pipe EXCEPT ![w] = Tail(@)]
  BY <1>0, <1>1 DEF Processes
<1>3. i \in Pcs /\ w \in active /\ active \subseteq Wids
  BY <1>0, <1>2, InUnit DEF IInv, Types
<1>4. /\ i \in At("expect") /\ i \in Nat /\ b \in Bars /\ s \in Wids /\ k \in Blocks
      /\ bars \in [Wids -> [Bars -> BarRecs]] /\ e.slot = s /\ e.bar = b /\ e.pc = i
      /\ tx \subseteq Transfers /\ IsFiniteSet(tx)
  BY <1>0, <1>2, <1>3, ProgramFacts, WarpFacts DEF IInv, Types, At
<1>5. /\ Front(pipe[w], warp[w].pc) = i
      /\ pipe'[w] = Tail(pipe[w]) /\ \A v \in Wids : v # w => pipe'[v] = pipe[v]
      /\ \A v \in active : Sorted(pipe'[v], warp'[v].pc, warp[v].rank)
      /\ \A v \in active : \A j \in Once(warp[v].rank) :
           Met(v, j)' <=> Met(v, j) \/ (v = w /\ j = i)
      /\ \A t \in Wids, c \in Bars : w \notin bars[t][c].wait_mask
      /\ warp[w].rank = 0
  BY <1>0, <1>1, <1>2, UnitTakes
<1>6. /\ \A v \in active : Runs(active, warp, v, k, 0) => v = w
      /\ \A q, t : PlacedAt(disp, active, warp, q, t) /\ t = s => q = k
      /\ disp.slot_rem[s] # 0
  BY <1>0, <1>3, <1>5, BlockWarps
<1>7. /\ \A t \in Wids, c \in Bars : ~(t = s /\ c = b) => bars'[t][c] = bars[t][c]
      /\ \A t \in Wids, c \in Bars : /\ bars'[t][c].count = bars[t][c].count
                                     /\ bars'[t][c].wait_mask = bars[t][c].wait_mask
      /\ bars'[s][b].events = bars[s][b].events + 1
  <2> DEFINE x == bars[s][b]
             n == x.events + 1
             y == [x EXCEPT !.events = n]
  <2>1. x \in BarRecs /\ bars' = [bars EXCEPT ![s][b] = y]
    BY <1>1, <1>4
  <2>2. n \in Nat
    BY <2>1 DEF BarRecs
  <2> HIDE DEF n
  <2>3. y \in BarRecs /\ y.count = x.count /\ y.wait_mask = x.wait_mask /\ y.events = n
    <3> HIDE DEF x
    <3> QED BY <2>1, <2>2 DEF BarRecs
  <2> HIDE DEF y, x
  <2>4. bars'[s][b] = y /\ \A t \in Wids, c \in Bars : ~(t = s /\ c = b) => bars'[t][c] = bars[t][c]
    BY <1>4, <2>1
  <2> QED BY <2>3, <2>4 DEF n, x
<1>8. /\ \A q, t : PlacedAt(disp, active, warp, q, t)' <=> PlacedAt(disp, active, warp, q, t)
      /\ \A v, q, n : Runs(active, warp, v, q, n)' <=> Runs(active, warp, v, q, n)
      /\ \A q, c : MetBy(q, c)' = MetBy(q, c)
  BY <1>1 DEF PlacedAt, Runs, MetBy
<1>9. \A v \in active, j \in Meets : j \in Once(warp[v].rank) /\ (Met(v, j)' <=> Met(v, j))
  <2>1. i \notin Meets
    BY <1>2 DEF Meets, At
  <2>2. \A v \in active : Meets \subseteq Once(warp[v].rank)
    BY MeetFacts
  <2> QED BY <1>5, <2>1, <2>2
<1>10. e \notin tx
  <2> SUFFICES ASSUME e \in tx PROVE FALSE
    OBVIOUS
  <2>1. Met(w, i)
    BY <1>0, <1>3, <1>4, <1>5 DEF SyncInv, Expects
  <2> QED BY <1>4, <1>5, <2>1 DEF Met
<1>11. Lines'
  BY <1>1, <1>5 DEF Lines
<1>12. Tracked'
  BY <1>1, <1>9 DEF SyncInv, Tracked
<1>13. Gone'
  BY <1>1 DEF SyncInv, Gone
<1>14. Here'
  BY <1>1, <1>8 DEF SyncInv, Here
<1>15. OneSlot'
  BY <1>8 DEF SyncInv, OneSlot
<1>16. Counts'
  BY <1>7, <1>8 DEF SyncInv, Counts
<1>17. Rests'
  <2>0. disp' = disp
    BY <1>1
  <2> SUFFICES ASSUME NEW t \in Wids, NEW c \in Bars, disp.slot_rem[t] = 0
               PROVE  bars'[t][c] = bars[t][c]
    BY <2>0 DEF SyncInv, Rests
  <2> QED BY <1>6, <1>7
<1>18. Clears'
  <2> SUFFICES ASSUME NEW v \in active, NEW j \in At("sync"), Cleared(v, j)'
               PROVE  /\ arrived[warp[v].block][j] = Ranks
                      /\ \A t \in TxOf(tx', warp[v].slot, Program[j].bar) : t.pc > j
    BY <1>1 DEF Clears
  <2>1. j \in Meets /\ j \in Nat /\ Program[j].bar \in Bars /\ warp[v].slot \in Wids
    BY MeetFacts, ProgramFacts, WarpFacts
  <2>2. Cleared(v, j)
    BY <1>1, <1>7, <1>9, <2>1 DEF Cleared, HeldAt
  <2>3. /\ arrived[warp[v].block][j] = Ranks
        /\ \A t \in TxOf(tx, warp[v].slot, Program[j].bar) : t.pc > j
    BY <2>2 DEF SyncInv, Clears
  <2>4. ASSUME warp[v].slot = s PROVE i > j
    <3>1. warp[v].block = k
      BY <1>6, <2>4, WarpFacts
    <3>2. warp[w].rank \in arrived[warp[w].block][j]
      BY <1>0, <1>3, <2>3, <3>1, WarpFacts
    <3>3. j < i
      BY <1>3, <1>5, <2>1, <3>2 DEF SyncInv, Tracked, Met
    <3> QED BY <1>4, <2>1, <3>3
  <2> QED BY <1>1, <1>4, <2>3, <2>4 DEF TxOf
<1>19. Exact'
  <2> SUFFICES ASSUME NEW t \in Wids, NEW c \in Bars
               PROVE  bars'[t][c].events = Cardinality(TxOf(tx', t, c))
    BY DEF Exact
  <2>1. bars[t][c].events = Cardinality(TxOf(tx, t, c)) /\ IsFiniteSet(TxOf(tx, t, c))
    BY <1>4, TxFacts DEF SyncInv, Exact
  <2>2. CASE t = s /\ c = b
    <3>1. TxOf(tx', t, c) = TxOf(tx, t, c) \cup {e} /\ e \notin TxOf(tx, t, c)
      BY <1>1, <1>4, <1>10, <2>2 DEF TxOf
    <3>2. Cardinality(TxOf(tx, t, c) \cup {e}) = Cardinality(TxOf(tx, t, c)) + 1
      BY <2>1, <3>1, FS_AddElement
    <3> QED BY <1>7, <2>1, <2>2, <3>1, <3>2
  <2>3. CASE ~(t = s /\ c = b)
    <3>1. TxOf(tx', t, c) = TxOf(tx, t, c)
      BY <1>1, <1>4, <2>3 DEF TxOf
    <3> QED BY <1>7, <2>1, <2>3, <3>1
  <2> QED BY <2>2, <2>3
<1>20. Expects'
  <2>1. ASSUME NEW t \in tx
        PROVE  /\ t.pc \in At("expect") /\ Program[t.pc].bar = t.bar
               /\ \A v \in active : warp[v].slot = t.slot /\ warp[v].rank = 0 => Met(v, t.pc)'
               /\ disp.has_cta /\ disp.rank = 0 => t.slot # disp.slot
    <3>1. /\ t.pc \in At("expect") /\ Program[t.pc].bar = t.bar
          /\ \A v \in active : warp[v].slot = t.slot /\ warp[v].rank = 0 => Met(v, t.pc)
          /\ disp.has_cta /\ disp.rank = 0 => t.slot # disp.slot
      BY DEF SyncInv, Expects
    <3>2. t.pc \in Once(0)
      BY <3>1 DEF Once
    <3> QED BY <1>5, <3>1, <3>2
  <2>2. ASSUME NEW v \in active, warp[v].slot = s, warp[v].rank = 0 PROVE Met(v, i)'
    <3>1. v = w
      BY <1>6, <2>2, WarpFacts DEF Runs
    <3>2. i \in Once(0)
      BY <1>4 DEF Once
    <3> QED BY <1>5, <2>2, <3>1, <3>2
  <2>3. disp.has_cta /\ disp.rank = 0 => s # disp.slot
    <3> SUFFICES ASSUME disp.has_cta, disp.rank = 0, s = disp.slot PROVE FALSE
      OBVIOUS
    <3>1. disp.block = k
      BY <1>6 DEF PlacedAt
    <3>2. 0 \in Ranks
      BY CtaFacts DEF Ranks
    <3>3. Stage(kmu, disp, active, warp, Fin, k, 0)
      BY <1>4, <3>2 DEF IInv, DispOK
    <3>4. Loading(disp, k, 0)
      BY <3>1 DEF Loading
    <3>5. Runs(active, warp, w, k, 0)
      BY <1>0, <1>3, <1>5 DEF Runs
    <3> QED BY <1>3, <3>3, <3>4, <3>5 DEF Stage
  <2>4. tx' = tx \cup {e} /\ disp' = disp /\ active' = active /\ warp' = warp
    BY <1>1
  <2>5. e.pc \in At("expect") /\ Program[e.pc].bar = e.bar
    BY <1>0, <1>4
  <2> QED BY <1>4, <2>1, <2>2, <2>3, <2>4, <2>5 DEF Expects
<1>21. InSlot'
  <2> SUFFICES ASSUME NEW t \in Wids, NEW c \in Bars, NEW v \in bars[t][c].wait_mask
               PROVE  warp[v].slot = t /\ pipe'[v] = <<>>
    BY <1>1, <1>7 DEF InSlot
  <2>1. v # w /\ v \in Wids
    BY <1>5, WaiterFacts
  <2>2. warp[v].slot = t /\ pipe[v] = <<>>
    BY DEF SyncInv, InSlot
  <2> QED BY <1>5, <2>1, <2>2
<1> QED BY <1>11, <1>12, <1>13, <1>14, <1>15, <1>16, <1>17, <1>18, <1>19, <1>20, <1>21 DEF SyncInv

(* The last transfer lets the warps of a sync go if all have come to it,   *)
(* which is what a count of 0 means while some warp is held there.         *)
LEMMA EventReleaseSync ==
  ASSUME Disciplined, IInv, SyncInv, NEW e \in tx, EventRelease(e)
  PROVE  SyncInv'
<1>0. PICK s, b, x, after : /\ s = e.slot /\ b = e.bar /\ x = bars[s][b]
                            /\ after = IF EventOpens(x) THEN Opened(x) ELSE x
  OBVIOUS
<1>1. /\ tx' = tx \ {e} /\ bars' = [bars EXCEPT ![s][b] = [after EXCEPT !.events = @ - 1]]
      /\ disp' = disp /\ active' = active /\ warp' = warp /\ pipe' = pipe /\ arrived' = arrived
  BY <1>0 DEF EventRelease
<1>2. /\ s \in Wids /\ b \in Bars /\ tx \subseteq Transfers /\ IsFiniteSet(tx)
      /\ bars \in [Wids -> [Bars -> BarRecs]] /\ active \subseteq Wids
  BY <1>0 DEF IInv, Types, Transfers
<1>3. x \in BarRecs /\ x.events \in Nat /\ x.phase \in Nat
  BY <1>0, <1>2 DEF BarRecs
<1>4. e \in TxOf(tx, s, b) /\ IsFiniteSet(TxOf(tx, s, b)) /\ x.events = Cardinality(TxOf(tx, s, b))
  <2>1. e \in TxOf(tx, s, b)
    BY <1>0 DEF TxOf
  <2>2. IsFiniteSet(TxOf(tx, s, b))
    BY <1>2, TxFacts
  <2>3. x.events = Cardinality(TxOf(tx, s, b))
    BY <1>0, <1>2 DEF SyncInv, Exact
  <2> QED BY <2>1, <2>2, <2>3
<1>5. x.events >= 1
  BY <1>3, <1>4, FS_EmptySet
<1>6. /\ after \in BarRecs /\ after.events = x.events /\ after.count = x.count
      /\ after.wait_mask = IF EventOpens(x) THEN {} ELSE x.wait_mask
  <2>1. CASE EventOpens(x)
    <3> DEFINE p == x.phase + 1
    <3>1. p \in Nat /\ Opened(x) = [x EXCEPT !.wait_mask = {}, !.phase = p]
      BY <1>3 DEF Opened
    <3> HIDE DEF p
    <3>2. /\ Opened(x) \in BarRecs /\ Opened(x).wait_mask = {} /\ Opened(x).events = x.events
          /\ Opened(x).count = x.count
      BY <1>3, <3>1 DEF BarRecs
    <3> QED BY <1>0, <2>1, <3>2
  <2>2. CASE ~EventOpens(x)
    BY <1>0, <1>3, <2>2
  <2> QED BY <2>1, <2>2
<1>7. /\ \A t \in Wids, c \in Bars : ~(t = s /\ c = b) => bars'[t][c] = bars[t][c]
      /\ bars'[s][b].count = bars[s][b].count /\ bars'[s][b].events = bars[s][b].events - 1
      /\ bars'[s][b].wait_mask = IF EventOpens(x) THEN {} ELSE bars[s][b].wait_mask
  <2> DEFINE n == x.events - 1
             y == [after EXCEPT !.events = n]
  <2>1. n \in Nat
    BY <1>3, <1>5
  <2>2. bars' = [bars EXCEPT ![s][b] = y]
    BY <1>1, <1>6
  <2> HIDE DEF n
  <2>3. y.count = after.count /\ y.events = n /\ y.wait_mask = after.wait_mask
    BY <1>6, <2>1 DEF BarRecs
  <2> HIDE DEF y
  <2>4. bars'[s][b] = y /\ \A t \in Wids, c \in Bars : ~(t = s /\ c = b) => bars'[t][c] = bars[t][c]
    BY <1>2, <2>2
  <2> QED BY <1>0, <1>6, <2>3, <2>4 DEF n
<1>8. /\ \A q, t : PlacedAt(disp, active, warp, q, t)' <=> PlacedAt(disp, active, warp, q, t)
      /\ \A v, q, n : Runs(active, warp, v, q, n)' <=> Runs(active, warp, v, q, n)
      /\ \A q, c : MetBy(q, c)' = MetBy(q, c)
      /\ \A v, j : Met(v, j)' <=> Met(v, j)
  BY <1>1 DEF PlacedAt, Runs, MetBy, Met
<1>9. Lines'
  BY <1>1 DEF SyncInv, Lines
<1>10. Tracked'
  BY <1>1, <1>8 DEF SyncInv, Tracked
<1>11. Gone'
  BY <1>1 DEF SyncInv, Gone
<1>12. Here'
  BY <1>1, <1>8 DEF SyncInv, Here
<1>13. OneSlot'
  BY <1>8 DEF SyncInv, OneSlot
<1>14. Counts'
  BY <1>7, <1>8 DEF SyncInv, Counts
<1>15. Rests'
  <2>0. disp' = disp
    BY <1>1
  <2> SUFFICES ASSUME NEW t \in Wids, NEW c \in Bars, disp.slot_rem[t] = 0
               PROVE  bars'[t][c] = bars[t][c]
    BY <2>0 DEF SyncInv, Rests
  <2>1. bars[t][c].events = 0
    BY DEF SyncInv, Rests
  <2>2. ~(t = s /\ c = b)
    BY <1>0, <1>5, <2>1
  <2> QED BY <1>7, <2>2
<1>16. Clears'
  <2> SUFFICES ASSUME NEW v \in active, NEW j \in At("sync"), Cleared(v, j)'
               PROVE  /\ arrived[warp[v].block][j] = Ranks
                      /\ \A t \in TxOf(tx', warp[v].slot, Program[j].bar) : t.pc > j
    BY <1>1 DEF Clears
  <2>1. /\ j \in Meets /\ j \in Nat /\ j \in Pcs /\ Program[j].bar \in Bars /\ warp[v].slot \in Wids
        /\ warp[v].block \in Blocks
    BY MeetFacts, ProgramFacts, WarpFacts
  <2>2. TxOf(tx', warp[v].slot, Program[j].bar) \subseteq TxOf(tx, warp[v].slot, Program[j].bar)
    BY <1>1 DEF TxOf
  <2>3. CASE Cleared(v, j)
    BY <2>2, <2>3 DEF SyncInv, Clears
  <2>4. CASE ~Cleared(v, j)
    <3>1. Met(v, j) /\ HeldAt(v, j)
      BY <1>8, <2>4 DEF Cleared
    <3>2. v \in bars[warp[v].slot][Program[j].bar].wait_mask /\ warp[v].pc = j + 1
      BY <3>1 DEF HeldAt
    <3>3. v \notin bars'[warp[v].slot][Program[j].bar].wait_mask
      BY <1>1, <3>2 DEF Cleared, HeldAt
    <3>4. warp[v].slot = s /\ Program[j].bar = b /\ EventOpens(x)
      BY <1>7, <2>1, <3>2, <3>3
    <3>5. x.events = 1 /\ x.count = 0
      BY <3>4 DEF EventOpens
    <3>6. TxOf(tx', s, b) = {}
      <4>1. TxOf(tx', s, b) = TxOf(tx, s, b) \ {e}
        BY <1>1 DEF TxOf
      <4>2. \E z : TxOf(tx, s, b) = {z}
        BY <1>4, <3>5, FS_Singleton
      <4> QED BY <1>4, <4>1, <4>2
    <3>7. arrived[warp[v].block][j] = Ranks
      <4> SUFFICES ASSUME arrived[warp[v].block][j] # Ranks PROVE FALSE
        OBVIOUS
      <4>1. \A n \in At("sync") : n < j => arrived[warp[v].block][n] = Ranks
        BY <2>1, <3>1, BeyondSync
      <4>2. PlacedAt(disp, active, warp, warp[v].block, s)
        BY <3>4, WarpFacts
      <4>3. bars[s][b].count = Cardinality(arrived[warp[v].block][j])
        BY <1>2, <2>1, <3>4, <4>1, <4>2, CountIs
      <4>4. warp[v].rank \in arrived[warp[v].block][j]
        BY <2>1, <3>1 DEF SyncInv, Tracked
      <4>5. IsFiniteSet(arrived[warp[v].block][j])
        <5>1. arrived[warp[v].block][j] \in SUBSET Ranks
          BY <2>1 DEF IInv, Types
        <5> QED BY <5>1, MeetFacts, FS_Subset
      <4> QED BY <1>0, <3>5, <4>3, <4>4, <4>5, FS_EmptySet
    <3> QED BY <3>4, <3>6, <3>7
  <2> QED BY <2>3, <2>4
<1>17. Exact'
  <2> SUFFICES ASSUME NEW t \in Wids, NEW c \in Bars
               PROVE  bars'[t][c].events = Cardinality(TxOf(tx', t, c))
    BY DEF Exact
  <2>1. bars[t][c].events = Cardinality(TxOf(tx, t, c)) /\ IsFiniteSet(TxOf(tx, t, c))
    BY <1>2, TxFacts DEF SyncInv, Exact
  <2>2. CASE t = s /\ c = b
    <3>1. TxOf(tx', t, c) = TxOf(tx, t, c) \ {e} /\ e \in TxOf(tx, t, c)
      BY <1>1, <1>4, <2>2 DEF TxOf
    <3>2. Cardinality(TxOf(tx, t, c) \ {e}) = Cardinality(TxOf(tx, t, c)) - 1
      BY <2>1, <3>1, FS_RemoveElement
    <3> QED BY <1>7, <2>1, <2>2, <3>1, <3>2
  <2>3. CASE ~(t = s /\ c = b)
    <3>1. TxOf(tx', t, c) = TxOf(tx, t, c)
      BY <1>0, <1>1, <2>3 DEF TxOf
    <3> QED BY <1>7, <2>1, <2>3, <3>1
  <2> QED BY <2>2, <2>3
<1>18. Expects'
  BY <1>1, <1>8 DEF SyncInv, Expects
<1>19. InSlot'
  <2> SUFFICES ASSUME NEW t \in Wids, NEW c \in Bars, NEW v \in bars'[t][c].wait_mask
               PROVE  v \in bars[t][c].wait_mask
    BY <1>1 DEF SyncInv, InSlot
  <2> QED BY <1>7
<1> QED BY <1>9, <1>10, <1>11, <1>12, <1>13, <1>14, <1>15, <1>16, <1>17, <1>18, <1>19 DEF SyncInv

(* A slot without warps to end has none running and none to start.         *)
LEMMA SlotEmpty ==
  ASSUME NEW act \in SUBSET Wids, NEW W, NEW f, NEW q, NEW d, DispOK(q, d, act, W, f),
         NEW s \in Wids, d.slot_rem[s] = 0
  PROVE  (\A v \in act : W[v].slot # s) /\ ~(d.has_cta /\ d.slot = s)
<1>1. d \in Disps /\ SlotCounts(d, act) /\ Begins(d) /\ Owners(d, act, W)
  BY DEF DispOK
<1> DEFINE X == In(d, act, s)
<1>2. X \in SUBSET Wids
  BY DEF In
<1>3. IsFiniteSet(X) /\ Cardinality(X) \in Nat
  BY <1>2, SizeFacts, FS_Subset, FS_CardinalityType
<1>4. Cardinality(X) + ToStart(d, s) = 0
  BY <1>1 DEF SlotCounts
<1>5. ToStart(d, s) \in Nat /\ (d.has_cta /\ d.slot = s => ToStart(d, s) >= 1)
  BY <1>1, CtaFacts DEF ToStart, Disps, Begins
<1> HIDE DEF X
<1>6. Cardinality(X) = 0 /\ ToStart(d, s) = 0
  BY <1>3, <1>4, <1>5
<1>7. X = {}
  BY <1>3, <1>6, FS_EmptySet
<1>8. \A v \in act : d.slot_of[v] # s
  BY <1>7 DEF X, In
<1> QED BY <1>1, <1>5, <1>6, <1>8 DEF Owners

(* A warp ends.  It has been everywhere; with the last of its block, all   *)
(* have, and the barriers of the slot are at rest.                         *)
LEMMA ExitSync ==
  ASSUME Disciplined, IInv, SyncInv, NEW w \in Wids, Exit(w)
  PROVE  SyncInv'
<1>0. PICK i, k, r, s : /\ i = Head(pipe[w]) /\ k = warp[w].block /\ r = warp[w].rank
                        /\ s = warp[w].slot
  OBVIOUS
<1>1. /\ pipe[w] # <<>> /\ Program[i].op = "exit" /\ pipe' = [pipe EXCEPT ![w] = Tail(@)]
      /\ active' = active \ {w} /\ disp' = WarpDone(disp, w) /\ warp' = [warp EXCEPT ![w] = Retired]
      /\ Reached(w, i) /\ bars' = bars /\ tx' = tx /\ kmu' = kmu
  BY <1>0 DEF Exit, Processes
<1>2. Stalls(i)
  BY <1>1 DEF Stalls, NonStalling
<1>3. /\ i \in Pcs /\ w \in active /\ warp[w].pc = i + 1
      /\ \A t \in Wids, c \in Bars : w \notin bars[t][c].wait_mask
  BY <1>0, <1>1, <1>2, InUnit
<1>4. /\ i = Len(Program) /\ i \in Nat /\ k \in Blocks /\ r \in Ranks /\ s \in Wids
      /\ PlacedAt(disp, active, warp, k, s)
  BY <1>0, <1>1, <1>3, ProgramFacts, WarpFacts
<1>5. /\ warp \in [Wids -> Warps] /\ pipe \in [Wids -> Seq(Pcs)] /\ active \subseteq Wids
      /\ arrived \in [Blocks -> [Pcs -> SUBSET Ranks]]
  BY DEF IInv, Types
<1>6. \A v \in active' : v \in active /\ v # w /\ v \in Wids /\ warp'[v] = warp[v] /\ pipe'[v] = pipe[v]
  BY <1>1, <1>5
<1>7. /\ disp'.has_cta = disp.has_cta /\ disp'.block = disp.block /\ disp'.slot = disp.slot
      /\ disp'.rank = disp.rank
      /\ \A t \in Wids : t # s => disp'.slot_rem[t] = disp.slot_rem[t]
  <2>1. disp \in Disps
    BY DEF IInv, DispOK
  <2>2. disp.slot_of[w] = s
    BY <1>0, <1>3, BlockWarps
  <2>3. disp' = [disp EXCEPT !.slot_of[w] = NumWarps, !.slot_rem[s] = @ - 1]
    BY <1>1, <2>2 DEF WarpDone
  <2> QED BY <1>4, <2>1, <2>3 DEF Disps
<1>8. /\ arrived'[k][i] = arrived[k][i] \cup {r}
      /\ \A q \in Blocks, n \in Pcs : ~(q = k /\ n = i) => arrived'[q][n] = arrived[q][n]
  BY <1>0, <1>1, <1>3, <1>4, <1>5 DEF Reached
<1>9. Meets \subseteq Pcs /\ i \notin Meets /\ At("sync") \subseteq Meets /\ At("sync") \subseteq Pcs
      /\ \A n \in Meets : n < i /\ n \in Nat
  BY <1>4, MeetFacts
<1>10. \A q \in Blocks, n \in Meets : arrived'[q][n] = arrived[q][n]
  BY <1>8, <1>9
<1>11. /\ \A q, t : PlacedAt(disp, active, warp, q, t)' => PlacedAt(disp, active, warp, q, t)
       /\ \A v \in active' : \A q, n : Runs(active, warp, v, q, n)' <=> Runs(active, warp, v, q, n)
       /\ \A q \in Blocks : \A c : MetBy(q, c)' = MetBy(q, c)
       /\ \A v \in active' : \A j : Met(v, j)' <=> Met(v, j)
       /\ \A v \in active' : \A j : HeldAt(v, j)' <=> HeldAt(v, j)
  <2>1. \A q, t : PlacedAt(disp, active, warp, q, t)' => PlacedAt(disp, active, warp, q, t)
    BY <1>6, <1>7 DEF PlacedAt
  <2>2. \A v \in active' : \A q, n : Runs(active, warp, v, q, n)' <=> Runs(active, warp, v, q, n)
    BY <1>6 DEF Runs
  <2>3. \A q \in Blocks : \A c : MetBy(q, c)' = MetBy(q, c)
    BY <1>10 DEF MetBy
  <2>4. \A v \in active' : \A j : Met(v, j)' <=> Met(v, j)
    BY <1>6 DEF Met
  <2>5. \A v \in active' : \A j : HeldAt(v, j)' <=> HeldAt(v, j)
    BY <1>1, <1>6 DEF HeldAt
  <2> QED BY <2>1, <2>2, <2>3, <2>4, <2>5
<1>12. /\ \A j \in Meets : r \in arrived[k][j]
       /\ \A j \in At("sync") : Cleared(w, j) /\ arrived[k][j] = Ranks
  <2>1. ASSUME NEW j \in Meets PROVE Met(w, j)
    <3>1. Front(pipe[w], warp[w].pc) = i
      BY <1>0, <1>1 DEF Front
    <3> QED BY <1>9, <3>1 DEF Met
  <2>2. \A j \in Meets : r \in arrived[k][j]
    BY <1>0, <1>3, <2>1 DEF SyncInv, Tracked
  <2>3. ASSUME NEW j \in At("sync") PROVE Cleared(w, j)
    <3>1. Program[j].bar \in Bars /\ j \in Meets
      BY MeetFacts
    <3> QED BY <1>0, <1>3, <1>4, <2>1, <3>1 DEF Cleared, HeldAt
  <2> QED BY <1>0, <1>3, <2>2, <2>3 DEF SyncInv, Clears
<1>13. Lines'
  BY <1>6 DEF SyncInv, Lines
<1>14. Tracked'
  <2> SUFFICES ASSUME NEW v \in active', NEW j \in Meets
               PROVE  warp'[v].rank \in arrived'[warp'[v].block][j] <=> Met(v, j)'
    BY DEF Tracked
  <2>1. v \in active /\ warp'[v] = warp[v] /\ warp[v].block \in Blocks
    BY <1>6, WarpFacts
  <2>2. warp[v].rank \in arrived[warp[v].block][j] <=> Met(v, j)
    BY <2>1 DEF SyncInv, Tracked
  <2> QED BY <1>10, <1>11, <2>1, <2>2
<1>15. Gone'
  <2> SUFFICES ASSUME NEW q \in Blocks, NEW n \in arrived'[q][i]
               PROVE  /\ \A j \in Meets : n \in arrived[q][j]
                      /\ \A j \in At("sync") : arrived[q][j] = Ranks
    BY <1>4, <1>9, <1>10 DEF Gone
  <2>1. CASE n \in arrived[q][i]
    BY <1>4, <2>1 DEF SyncInv, Gone
  <2>2. CASE n \notin arrived[q][i]
    <3>1. q = k /\ n = r
      BY <1>3, <1>8, <2>2
    <3> QED BY <1>12, <3>1
  <2> QED BY <2>1, <2>2
<1>16. Here'
  <2> SUFFICES ASSUME NEW q \in Blocks, NEW j \in Meets, NEW n \in arrived[q][j]
               PROVE  n \in arrived'[q][i] \/ \E v \in active' : Runs(active, warp, v, q, n)'
    BY <1>4, <1>10 DEF Here
  <2>1. arrived[q][i] \subseteq arrived'[q][i]
    BY <1>3, <1>8
  <2>2. CASE n \in arrived[q][i]
    BY <2>1, <2>2
  <2>3. CASE \E v \in active : Runs(active, warp, v, q, n)
    <3>1. PICK v \in active : Runs(active, warp, v, q, n)
      BY <2>3
    <3>2. CASE v = w
      BY <1>0, <1>8, <3>1, <3>2 DEF Runs
    <3>3. CASE v # w
      <4>1. v \in active'
        BY <1>1, <3>3
      <4> QED BY <1>11, <3>1, <4>1
    <3> QED BY <3>2, <3>3
  <2> QED BY <1>4, <2>2, <2>3 DEF SyncInv, Here
<1>17. OneSlot'
  BY <1>11 DEF SyncInv, OneSlot
<1>18. Counts'
  BY <1>1, <1>11 DEF SyncInv, Counts
<1>19. ASSUME disp'.slot_rem[s] = 0, NEW c \in Bars
       PROVE  bars[s][c].wait_mask = {} /\ bars[s][c].count = 0 /\ bars[s][c].events = 0
  <2>1. /\ DispOK(kmu', disp', active', warp', Fin') /\ active' \in SUBSET Wids
    BY ExitOK DEF IInv, Types
  <2>2. (\A v \in active' : warp'[v].slot # s) /\ ~(disp'.has_cta /\ disp'.slot = s)
    BY <1>4, <1>19, <2>1, SlotEmpty
  <2>3. bars[s][c].wait_mask = {}
    <3> SUFFICES ASSUME NEW v \in bars[s][c].wait_mask PROVE FALSE
      OBVIOUS
    <3>1. v \in active /\ v # w /\ warp[v].slot = s
      BY <1>3, <1>4, WaiterFacts DEF SyncInv, InSlot
    <3> QED BY <1>1, <1>6, <2>2, <3>1
  <2>4. ASSUME NEW n \in Ranks PROVE n \in arrived'[k][i]
    <3>1. Stage(kmu', disp', active', warp', Fin', k, n) /\ Stage(kmu', disp', active', warp', Fin', k, r)
      BY <1>4, <2>1 DEF DispOK
    <3>2. Fin'[k] = arrived'[k][i]
      BY <1>4 DEF Fin
    <3>3. ~Waiting(kmu', disp', k)
      BY <1>8, <3>1, <3>2 DEF Stage
    <3>4. \A t : PlacedAt(disp', active', warp', k, t) /\ t \in Wids => t = s
      <4> SUFFICES ASSUME NEW t \in Wids, PlacedAt(disp', active', warp', k, t) PROVE t = s
        OBVIOUS
      <4>1. PlacedAt(disp, active, warp, k, t)'
        BY DEF PlacedAt
      <4>2. PlacedAt(disp, active, warp, k, t)
        BY <1>11, <4>1
      <4> QED BY <1>4, <4>2 DEF SyncInv, OneSlot
    <3>5. ~Loading(disp', k, n)
      <4> SUFFICES ASSUME Loading(disp', k, n) PROVE FALSE
        OBVIOUS
      <4>1. PlacedAt(disp', active', warp', k, disp'.slot)
        BY DEF Loading, PlacedAt
      <4>2. disp'.slot \in Wids
        <5>1. disp' \in Disps
          BY <2>1 DEF DispOK
        <5>2. disp'.slot \in 0..(UsableSlots - 1)
          BY <5>1 DEF Disps
        <5> QED BY <5>2, SlotFacts, SizeFacts DEF Wids
      <4> QED BY <2>2, <3>4, <4>1, <4>2 DEF Loading
    <3>6. \A v \in active' : ~Runs(active', warp', v, k, n)
      <4> SUFFICES ASSUME NEW v \in active', Runs(active', warp', v, k, n) PROVE FALSE
        OBVIOUS
      <4>1. PlacedAt(disp', active', warp', k, warp'[v].slot)
        BY DEF Runs, PlacedAt
      <4>2. warp'[v].slot \in Wids
        BY <1>6, WarpFacts
      <4> QED BY <2>2, <3>4, <4>1, <4>2
    <3> QED BY <3>1, <3>2, <3>3, <3>5, <3>6 DEF Stage
  <2>5. \A j \in Meets : arrived[k][j] = Ranks
    <3> SUFFICES ASSUME NEW j \in Meets PROVE arrived[k][j] = Ranks
      OBVIOUS
    <3>1. \A n \in Ranks : n \in arrived[k][j]
      BY <1>4, <1>10, <1>15, <2>4 DEF Gone
    <3>2. arrived[k][j] \subseteq Ranks
      BY <1>4, <1>5, <1>9
    <3> QED BY <3>1, <3>2
  <2>6. bars[s][c].count = 0
    <3>1. bars[s][c].count = Rem(Cardinality(MetBy(k, c)), CtaSize)
      BY <1>4 DEF SyncInv, Counts
    <3> QED BY <2>5, <3>1, MetAll
  <2>7. TxOf(tx, s, c) = {}
    <3> SUFFICES ASSUME NEW t \in TxOf(tx, s, c) PROVE FALSE
      OBVIOUS
    <3>1. t \in tx /\ t.slot = s /\ t.bar = c
      BY DEF TxOf
    <3>2. t.pc \in At("expect") /\ Program[t.pc].bar = c /\ t.pc \in Nat
      BY <3>1, ProgramFacts DEF SyncInv, Expects
    <3>3. PICK j \in At("sync") : t.pc < j /\ Program[j].bar = c
      BY <3>2 DEF Disciplined
    <3>4. t.pc > j
      BY <1>0, <1>3, <1>12, <3>3 DEF SyncInv, Clears
    <3>5. j \in Nat
      BY <1>9
    <3> QED BY <3>2, <3>3, <3>4, <3>5
  <2>8. bars[s][c].events = 0
    BY <1>4, <2>7, FS_EmptySet DEF SyncInv, Exact
  <2> QED BY <2>3, <2>6, <2>8
<1>20. Rests'
  <2> SUFFICES ASSUME NEW t \in Wids, NEW c \in Bars, disp'.slot_rem[t] = 0
               PROVE  bars[t][c].wait_mask = {} /\ bars[t][c].count = 0 /\ bars[t][c].events = 0
    BY <1>1 DEF Rests
  <2>1. CASE t = s
    BY <1>19, <2>1
  <2>2. CASE t # s
    BY <1>7, <2>2 DEF SyncInv, Rests
  <2> QED BY <2>1, <2>2
<1>21. Clears'
  <2> SUFFICES ASSUME NEW v \in active', NEW j \in At("sync"), Cleared(v, j)'
               PROVE  /\ arrived'[warp[v].block][j] = Ranks
                      /\ \A t \in TxOf(tx, warp[v].slot, Program[j].bar) : t.pc > j
    BY <1>1, <1>6 DEF Clears
  <2>1. v \in active /\ warp[v].block \in Blocks /\ j \in Meets
    BY <1>6, <1>9, WarpFacts
  <2>2. Cleared(v, j)
    BY <1>11 DEF Cleared
  <2> QED BY <1>10, <2>1, <2>2 DEF SyncInv, Clears
<1>22. Exact'
  BY <1>1 DEF SyncInv, Exact
<1>23. Expects'
  <2>1. tx' = tx
    BY <1>1
  <2> QED BY <1>6, <1>7, <1>11, <2>1 DEF SyncInv, Expects
<1>24. InSlot'
  <2> SUFFICES ASSUME NEW t \in Wids, NEW c \in Bars, NEW v \in bars[t][c].wait_mask
               PROVE  warp'[v].slot = t /\ pipe'[v] = <<>>
    BY <1>1 DEF InSlot
  <2>1. v # w /\ v \in active
    BY <1>3, WaiterFacts
  <2>2. warp[v].slot = t /\ pipe[v] = <<>>
    BY DEF SyncInv, InSlot
  <2>3. v \in active'
    BY <1>1, <2>1
  <2> QED BY <1>6, <2>2, <2>3
<1> QED BY <1>13, <1>14, <1>15, <1>16, <1>17, <1>18, <1>20, <1>21, <1>22, <1>23, <1>24 DEF SyncInv

(* A cycle of the scheduler.  A block goes into a slot whose barriers are  *)
(* at rest and has not been anywhere; a warp that starts has met nothing.  *)
LEMMA ScheduleSync ==
  ASSUME IInv, SyncInv, Schedule
  PROVE  SyncInv'
<1>0. PICK new, d, z : /\ new = IF Starts(active) THEN {StartedWid(active)} ELSE {}
                       /\ d = Loaded /\ z = Activated
  OBVIOUS
<1>1. /\ disp' = Started(active) /\ active' = active \cup new /\ kmu' = KmuAfter
      /\ warp' = [w \in Wids |-> IF w \in new THEN z ELSE warp[w]]
      /\ pipe' = pipe /\ bars' = bars /\ tx' = tx /\ arrived' = arrived
  BY <1>0 DEF Schedule
<1>2. /\ active \in SUBSET Wids /\ DispOK(kmu, disp, active, warp, Fin)
      /\ \A w \in active : warp[w].rank \in Ranks
      /\ arrived \in [Blocks -> [Pcs -> SUBSET Ranks]]
  BY DEF IInv, Types, Warps
<1>3. /\ DispOK(KmuAfter, d, active, warp, Fin) /\ d \in Disps /\ disp \in Disps
  BY <1>0, <1>2, LoadOK DEF DispOK
<1>4. new \subseteq Wids /\ new \cap active = {} /\ (new # {} => z \in Warps /\ z.pc = 1)
  BY <1>0, StartFacts
<1>5. /\ \A w \in active : warp'[w] = warp[w]
      /\ \A w \in new : warp'[w] = z
  BY <1>1, <1>2, <1>4
<1>6. /\ disp'.slot_rem = d.slot_rem /\ disp'.block = d.block /\ disp'.slot = d.slot
      /\ disp'.has_cta => d.has_cta
      /\ disp'.has_cta /\ disp'.rank = 0 => d.rank = 0
      /\ new # {} => d.has_cta
  <2>1. CASE ~Starts(active)
    BY <1>0, <1>1, <2>1 DEF Started
  <2>2. CASE Starts(active)
    <3> DEFINE m == StartedMask
               w == StartedWid(active)
    <3>1. disp' = AfterStart(d, w, m) /\ d.has_cta
      BY <1>0, <1>1, <2>2 DEF Started, AfterStart, Starts
    <3> HIDE DEF m, w
    <3>2. disp'.slot_rem = d.slot_rem /\ disp'.block = d.block /\ disp'.slot = d.slot
          /\ disp'.rank = d.rank + 1
      BY <1>3, <3>1 DEF AfterStart, Disps
    <3>3. d.rank \in Nat
      BY <1>3, CtaFacts DEF Disps
    <3> QED BY <3>1, <3>2, <3>3
  <2> QED BY <2>1, <2>2
<1>7. z.block = d.block /\ z.slot = d.slot /\ z.rank = d.rank
  <2>1. z = [Retired EXCEPT !.tmask = StartedMask, !.block = d.block,
               !.rank = d.rank, !.slot = d.slot, !.tid = d.tid]
    BY <1>0 DEF Activated
  <2> QED BY <2>1, FreshWarps DEF Warps
<1>8. d.has_cta => /\ d.block \in Blocks /\ d.slot \in Wids /\ d.rank \in Ranks
  <2>1. d.block \in Blocks /\ d.slot \in 0..(UsableSlots - 1) /\ d.rank \in 0..CtaSize
    BY <1>3 DEF Disps
  <2>2. d.has_cta => d.rank < CtaSize
    BY <1>3 DEF DispOK, Begins
  <2> QED BY <2>1, <2>2, CtaFacts, SlotFacts, SizeFacts DEF Wids, Ranks
(* The block of the dispatcher is the one it had, or a new one.            *)
<1>9. \/ /\ ~Admits /\ d.has_cta = disp.has_cta /\ d.block = disp.block /\ d.slot = disp.slot
         /\ d.rank = disp.rank /\ d.slot_rem = disp.slot_rem
      \/ /\ Admits /\ d.has_cta /\ d.rank = 0 /\ disp.slot_rem[d.slot] = 0 /\ ~disp.has_cta
         /\ d.slot_rem[d.slot] = CtaSize
         /\ \A s \in Wids : s # d.slot => d.slot_rem[s] = disp.slot_rem[s]
  <2>1. CASE ~Admits
    <3>1. d = [disp EXCEPT !.pending = Pending]
      BY <1>0, <2>1 DEF Loaded
    <3> QED BY <1>3, <2>1, <3>1 DEF Disps
  <2>2. CASE Admits
    <3> DEFINE base == Base(Pending)
               tail == (base + 1) % UsableSlots
               p == Pending.block
    <3>1. base \in Wids /\ disp.slot_rem[base] = 0 /\ ~disp.has_cta
      BY <1>3, <2>2, BaseFacts
    <3>2. d = [disp EXCEPT !.pending = None, !.has_cta = TRUE, !.block = p, !.slot = base,
                 !.rank = 0, !.rem = BlockSize, !.tid = Origin, !.tail = tail,
                 !.slot_rem[base] = CtaSize]
      BY <1>0, <2>2 DEF Loaded, Admitted
    <3> HIDE DEF base, tail, p
    <3>3. d.has_cta /\ d.rank = 0 /\ d.slot = base
          /\ d.slot_rem = [disp.slot_rem EXCEPT ![base] = CtaSize]
      BY <1>3, <3>2 DEF Disps
    <3>4. disp.slot_rem \in [Wids -> 0..CtaSize]
      BY <1>3 DEF Disps
    <3> QED BY <2>2, <3>1, <3>3, <3>4
  <2> QED BY <2>1, <2>2
(* A new block has not been anywhere.                                      *)
<1>10. ASSUME Admits, d.has_cta, d.rank = 0
       PROVE  /\ \A j \in Meets : arrived[d.block][j] = {}
              /\ \A w \in active : warp[w].block # d.block
  <2>1. ASSUME NEW n \in Ranks
        PROVE  n \notin arrived[d.block][Len(Program)] /\ \A w \in active : ~Runs(active, warp, w, d.block, n)
    <3>1. Stage(KmuAfter, d, active, warp, Fin, d.block, n)
      BY <1>3, <1>8, <1>10 DEF DispOK
    <3>2. Loading(d, d.block, n)
      BY <1>10, <2>1 DEF Loading, Ranks
    <3> QED BY <1>8, <1>10, <3>1, <3>2 DEF Stage, Fin
  <2>2. \A w \in active : warp[w].block # d.block
    BY <1>2, <2>1 DEF Runs
  <2>3. ASSUME NEW j \in Meets, NEW n \in arrived[d.block][j] PROVE FALSE
    <3>1. n \in Ranks
      BY <1>2, <1>8, <1>10, MeetFacts
    <3> QED BY <1>8, <1>10, <2>1, <3>1 DEF SyncInv, Here
  <2> QED BY <2>2, <2>3
(* So is a slot: what is in it now was in it, or the slot was empty.       *)
<1>11. ASSUME NEW k \in Blocks, NEW s \in Wids, PlacedAt(disp, active, warp, k, s)'
       PROVE  \/ PlacedAt(disp, active, warp, k, s)
              \/ Admits /\ d.has_cta /\ d.rank = 0 /\ k = d.block /\ s = d.slot /\ disp.slot_rem[s] = 0
  <2>1. PlacedAt(disp, active, warp, k, s) \/ (d.has_cta /\ d.block = k /\ d.slot = s)
    BY <1>1, <1>5, <1>6, <1>7, <1>11 DEF PlacedAt
  <2> QED BY <1>9, <2>1 DEF PlacedAt
<1>12. /\ \A v \in active : \A k, r : Runs(active, warp, v, k, r) => Runs(active, warp, v, k, r)'
       /\ \A k, c : MetBy(k, c)' = MetBy(k, c)
       /\ \A v \in active : \A j : Met(v, j)' <=> Met(v, j)
       /\ \A v \in active : \A j : HeldAt(v, j)' <=> HeldAt(v, j)
  BY <1>1, <1>5 DEF Runs, MetBy, Met, HeldAt
<1>13. ASSUME NEW v \in new, NEW rank
       PROVE  /\ v \in Wids /\ Sorted(pipe'[v], warp'[v].pc, rank)
              /\ \A j \in Once(rank) : ~Met(v, j)'
  <2>1. v \in Wids /\ v \notin active /\ warp'[v].pc = 1
    BY <1>4, <1>5
  <2>2. pipe[v] = <<>>
    BY <2>1 DEF IInv, Flows, Flow
  <2>3. Sorted(<<>>, 1, rank) /\ Front(<<>>, 1) = 1
    BY LineNew
  <2>4. \A j \in Once(rank) : ~(j < 1)
    <3>1. \A j \in Pcs : ~(j < 1)
      BY ProgramFacts DEF Pcs
    <3> QED BY <3>1, MeetFacts
  <2> QED BY <1>1, <2>1, <2>2, <2>3, <2>4 DEF Met
<1>14. Lines'
  <2> SUFFICES ASSUME NEW v \in active' PROVE Sorted(pipe'[v], warp'[v].pc, warp'[v].rank)
    BY DEF Lines
  <2>1. CASE v \in active
    BY <1>1, <1>5, <2>1 DEF SyncInv, Lines
  <2>2. CASE v \in new
    BY <1>13, <2>2
  <2> QED BY <1>1, <2>1, <2>2
<1>15. Tracked'
  <2> SUFFICES ASSUME NEW v \in active', NEW j \in Meets
               PROVE  warp'[v].rank \in arrived[warp'[v].block][j] <=> Met(v, j)'
    BY <1>1 DEF Tracked
  <2>1. CASE v \in active
    BY <1>5, <1>12, <2>1 DEF SyncInv, Tracked
  <2>2. CASE v \in new
    <3>1. ~Met(v, j)'
      BY <1>13, <2>2, MeetFacts
    <3>2. d.has_cta /\ warp'[v].block = d.block /\ warp'[v].rank = d.rank
      BY <1>5, <1>6, <1>7, <2>2
    <3>3. Stage(KmuAfter, d, active, warp, Fin, d.block, d.rank) /\ Loading(d, d.block, d.rank)
      <4>1. d.rank <= d.rank
        BY <1>8, <3>2, CtaFacts DEF Ranks
      <4> QED BY <1>3, <1>8, <3>2, <4>1 DEF DispOK, Loading
    <3>4. /\ d.rank \notin arrived[d.block][Len(Program)]
          /\ \A u \in active : ~Runs(active, warp, u, d.block, d.rank)
      BY <1>8, <3>2, <3>3 DEF Stage, Fin
    <3>5. d.rank \notin arrived[d.block][j]
      BY <1>8, <3>2, <3>4 DEF SyncInv, Here
    <3> QED BY <3>1, <3>2, <3>5
  <2> QED BY <1>1, <2>1, <2>2
<1>16. Gone'
  BY <1>1 DEF SyncInv, Gone
<1>17. Here'
  BY <1>1, <1>12 DEF SyncInv, Here
<1>18. OneSlot'
  <2> SUFFICES ASSUME NEW k \in Blocks, NEW s \in Wids, NEW t \in Wids,
                      PlacedAt(disp, active, warp, k, s)', PlacedAt(disp, active, warp, k, t)'
               PROVE  s = t
    BY DEF OneSlot
  <2>1. ASSUME Admits, d.has_cta, d.rank = 0, ~disp.has_cta, NEW u \in Wids
        PROVE  ~PlacedAt(disp, active, warp, d.block, u)
    BY <1>10, <2>1 DEF PlacedAt
  <2>2. CASE PlacedAt(disp, active, warp, k, s) /\ PlacedAt(disp, active, warp, k, t)
    BY <2>2 DEF SyncInv, OneSlot
  <2> QED BY <1>9, <1>11, <2>1, <2>2
<1>19. Counts'
  <2> SUFFICES ASSUME NEW k \in Blocks, NEW s \in Wids, NEW c \in Bars,
                      PlacedAt(disp, active, warp, k, s)'
               PROVE  bars[s][c].count = Rem(Cardinality(MetBy(k, c)), CtaSize)
    BY <1>1, <1>12 DEF Counts
  <2>1. CASE PlacedAt(disp, active, warp, k, s)
    BY <2>1 DEF SyncInv, Counts
  <2>2. CASE Admits /\ d.has_cta /\ d.rank = 0 /\ k = d.block /\ disp.slot_rem[s] = 0
    <3>1. \A j \in Meets : arrived[k][j] = {}
      BY <1>10, <2>2
    <3>2. MetBy(k, c) = {}
      BY <3>1 DEF MetBy
    <3>3. Cardinality(MetBy(k, c)) = 0
      BY <3>2, FS_EmptySet
    <3>4. bars[s][c].count = 0
      BY <2>2 DEF SyncInv, Rests
    <3>5. 0 \in Nat /\ Rem(0, CtaSize) = 0
      BY RemFacts
    <3> QED BY <3>3, <3>4, <3>5
  <2> QED BY <1>11, <2>1, <2>2
<1>20. Rests'
  <2> SUFFICES ASSUME NEW s \in Wids, NEW c \in Bars, d.slot_rem[s] = 0
               PROVE  disp.slot_rem[s] = 0
    BY <1>1, <1>6 DEF SyncInv, Rests
  <2>1. CtaSize # 0
    BY CtaFacts
  <2> QED BY <1>9, <2>1
<1>21. Clears'
  <2> SUFFICES ASSUME NEW v \in active', NEW j \in At("sync"), Cleared(v, j)'
               PROVE  /\ arrived[warp'[v].block][j] = Ranks
                      /\ \A t \in TxOf(tx, warp'[v].slot, Program[j].bar) : t.pc > j
    BY <1>1 DEF Clears
  <2>1. v \in active
    <3>1. \A rank : j \in Once(rank)
      BY MeetFacts
    <3> QED BY <1>1, <1>13, <3>1 DEF Cleared
  <2>2. Cleared(v, j)
    BY <1>12, <2>1 DEF Cleared
  <2> QED BY <1>5, <2>1, <2>2 DEF SyncInv, Clears
<1>22. Exact'
  BY <1>1 DEF SyncInv, Exact
<1>23. Expects'
  <2> SUFFICES ASSUME NEW t \in tx
               PROVE  /\ t.pc \in At("expect") /\ Program[t.pc].bar = t.bar
                      /\ \A v \in active' : warp'[v].slot = t.slot /\ warp'[v].rank = 0 => Met(v, t.pc)'
                      /\ disp'.has_cta /\ disp'.rank = 0 => t.slot # disp'.slot
    BY <1>1 DEF Expects
  <2>1. /\ t.pc \in At("expect") /\ Program[t.pc].bar = t.bar
        /\ \A v \in active : warp[v].slot = t.slot /\ warp[v].rank = 0 => Met(v, t.pc)
        /\ disp.has_cta /\ disp.rank = 0 => t.slot # disp.slot
    BY DEF SyncInv, Expects
  <2>2. t.slot \in Wids /\ t.bar \in Bars /\ t \in TxOf(tx, t.slot, t.bar)
        /\ IsFiniteSet(TxOf(tx, t.slot, t.bar))
    <3>1. tx \subseteq Transfers /\ IsFiniteSet(tx)
      BY DEF IInv, Types
    <3>2. t.slot \in Wids /\ t.bar \in Bars
      BY <3>1 DEF Transfers
    <3>3. t \in TxOf(tx, t.slot, t.bar)
      BY DEF TxOf
    <3>4. IsFiniteSet(TxOf(tx, t.slot, t.bar))
      BY <3>1, TxFacts
    <3> QED BY <3>2, <3>3, <3>4
  <2>3. disp.slot_rem[t.slot] # 0
    <3> SUFFICES ASSUME disp.slot_rem[t.slot] = 0 PROVE FALSE
      OBVIOUS
    <3>1. bars[t.slot][t.bar].events = 0
      BY <2>2 DEF SyncInv, Rests
    <3>2. Cardinality(TxOf(tx, t.slot, t.bar)) = 0
      BY <2>2, <3>1 DEF SyncInv, Exact
    <3> QED BY <2>2, <3>2, FS_EmptySet
  <2>4. d.has_cta /\ d.rank = 0 => t.slot # d.slot
    BY <1>9, <2>1, <2>3
  <2>5. ASSUME NEW v \in active', warp'[v].slot = t.slot, warp'[v].rank = 0 PROVE Met(v, t.pc)'
    <3>1. CASE v \in active
      BY <1>5, <1>12, <2>1, <2>5, <3>1
    <3>2. CASE v \in new
      BY <1>5, <1>6, <1>7, <2>4, <2>5, <3>2
    <3> QED BY <1>1, <3>1, <3>2
  <2> QED BY <1>6, <2>1, <2>4, <2>5
<1>24. InSlot'
  <2> SUFFICES ASSUME NEW t \in Wids, NEW c \in Bars, NEW v \in bars[t][c].wait_mask
               PROVE  warp'[v].slot = t /\ pipe[v] = <<>>
    BY <1>1 DEF InSlot
  <2>1. v \in active
    BY WaiterFacts
  <2> QED BY <1>5, <2>1 DEF SyncInv, InSlot
<1> QED BY <1>14, <1>15, <1>16, <1>17, <1>18, <1>19, <1>20, <1>21, <1>22, <1>23, <1>24 DEF SyncInv


(* A warp past a sync that is neither in its line nor held has met it: the *)
(* line skips no sync.                                                     *)
LEMMA PastCleared ==
  ASSUME IInv, SyncInv, NEW w, NEW i \in At("sync"), Past(w, i)
  PROVE  w \in active /\ Cleared(w, i)
<1>0. PICK p, pc, rank : p = pipe[w] /\ pc = warp[w].pc /\ rank = warp[w].rank
  OBVIOUS
<1>1. /\ w \in active /\ i < pc /\ \A k \in 1..Len(p) : p[k] # i
      /\ w \notin bars[warp[w].slot][Program[i].bar].wait_mask
  BY <1>0 DEF Past
<1>2. p \in Seq(Pcs) /\ pc \in Nat /\ i \in Nat /\ i \in Once(rank)
  BY <1>0, <1>1, WarpFacts, MeetFacts
<1>3. Sorted(p, pc, rank)
  BY <1>0, <1>1 DEF SyncInv, Lines
<1>4. i < Front(p, pc)
  <2>1. CASE p = <<>>
    BY <1>1, <2>1 DEF Front
  <2>2. CASE p # <<>>
    <3> SUFFICES ASSUME ~(i < p[1]) PROVE FALSE
      <4>1. Head(p) = p[1]
        BY <1>2, <2>2
      <4> QED BY <2>2, <4>1 DEF Front
    <3>1. /\ Len(p) \in Nat /\ 1 \in 1..Len(p)
          /\ \A k \in 1..Len(p) : p[k] \in Pcs /\ p[k] \in Nat
      <4>1. Len(p) \in Nat /\ 1 \in 1..Len(p) /\ \A k \in 1..Len(p) : p[k] \in Pcs
        BY <1>2, <2>2
      <4> QED BY <4>1, ProgramFacts
    <3> DEFINE S == {x \in Pcs : x <= i /\ \E k \in 1..Len(p) : p[k] = x}
    <3>2. p[1] \in S
      BY <1>2, <3>1
    <3>3. PICK x \in S : \A y \in S : y <= x
      BY <3>2, Greatest
    <3>4. PICK k \in 1..Len(p) : p[k] = x
      OBVIOUS
    <3>5. p[k] \in Nat /\ p[k] < i
      BY <1>1, <1>2, <3>1, <3>4
    <3>6. /\ p[k] < After(p, pc, k)
          /\ ~(p[k] < i /\ i < After(p, pc, k))
      BY <1>2, <1>3 DEF Sorted
    <3>7. CASE k < Len(p)
      <4>1. k + 1 \in 1..Len(p) /\ After(p, pc, k) = p[k + 1]
        BY <3>1, <3>7 DEF After
      <4>2. p[k + 1] \in Pcs /\ p[k + 1] \in Nat /\ p[k + 1] <= i
        BY <1>2, <3>1, <3>5, <3>6, <4>1
      <4>3. p[k + 1] \in S
        BY <4>1, <4>2
      <4>4. p[k + 1] <= p[k]
        BY <3>3, <3>4, <4>3
      <4> HIDE DEF S
      <4> QED BY <3>5, <3>6, <4>1, <4>2, <4>4
    <3>8. CASE ~(k < Len(p))
      BY <1>1, <1>2, <3>5, <3>6, <3>8 DEF After
    <3> QED BY <3>7, <3>8
  <2> QED BY <2>1, <2>2
<1> QED BY <1>0, <1>1, <1>4 DEF Cleared, Met, HeldAt

(* At the start there is no warp, no transfer and no arrival.              *)
LEMMA SyncInit ==
  ASSUME Init
  PROVE  SyncInv
<1>1. /\ active = {} /\ tx = {} /\ disp.has_cta = FALSE
      /\ bars = [s \in Wids |-> [b \in Bars |-> Quiet]]
      /\ arrived = [k \in Blocks |-> [i \in Pcs |-> {}]]
  BY DEF Init, DispatchInit
<1>2. \A k, s : ~PlacedAt(disp, active, warp, k, s)
  BY <1>1 DEF PlacedAt
<1>3. \A s \in Wids, b \in Bars : /\ bars[s][b].wait_mask = {} /\ bars[s][b].count = 0
                                  /\ bars[s][b].events = 0
  BY <1>1 DEF Quiet
<1>4. \A k \in Blocks, i \in Pcs : arrived[k][i] = {}
  BY <1>1
<1>5. Meets \subseteq Pcs /\ Len(Program) \in Pcs
  BY ProgramFacts DEF Meets, At
<1>6. Lines /\ Tracked /\ Clears
  BY <1>1 DEF Lines, Tracked, Clears
<1>7. Gone /\ Here
  BY <1>4, <1>5 DEF Gone, Here
<1>8. OneSlot /\ Counts
  BY <1>2 DEF OneSlot, Counts
<1>9. Rests
  BY <1>3 DEF Rests
<1>10. Exact
  <2>1. \A s, b : TxOf(tx, s, b) = {}
    BY <1>1 DEF TxOf
  <2>2. Cardinality({}) = 0
    BY FS_EmptySet
  <2> QED BY <1>3, <2>1, <2>2 DEF Exact
<1>11. Expects
  BY <1>1 DEF Expects
<1>12. InSlot
  BY <1>3 DEF InSlot
<1> QED BY <1>6, <1>7, <1>8, <1>9, <1>10, <1>11, <1>12 DEF SyncInv

(* Every step keeps it.                                                    *)
LEMMA StepSync ==
  ASSUME Disciplined, IInv, SyncInv, [Next]_vars
  PROVE  SyncInv'
<1>1. ASSUME NEW w \in Wids, Commit(w) PROVE SyncInv'
  <2>1. /\ active' = active /\ bars' = bars /\ tx' = tx /\ arrived' = arrived
        /\ disp' = disp /\ warp' = warp /\ pipe' = pipe
    BY <1>1 DEF Commit
  <2> QED BY <2>1, OutsideSync
<1>2. CASE UNCHANGED vars
  <2>1. /\ active' = active /\ bars' = bars /\ tx' = tx /\ arrived' = arrived
        /\ disp' = disp /\ warp' = warp /\ pipe' = pipe
    BY <1>2 DEF vars
  <2> QED BY <2>1, OutsideSync
<1>3. ASSUME NEW w \in Wids, Process(w) PROVE SyncInv'
  <2>1. CASE Exit(w)
    BY <2>1, ExitSync
  <2>2. CASE Split(w)
    BY <2>2, SplitSync
  <2>3. CASE Join(w)
    BY <2>3, JoinSync
  <2>4. CASE BarSync(w)
    BY <2>4, BarSyncSync
  <2>5. CASE BarArrive(w)
    BY <2>5, BarArriveSync
  <2>6. CASE BarWait(w)
    BY <2>6, BarWaitSync
  <2>7. CASE BarExpect(w)
    BY <2>7, BarExpectSync
  <2> QED BY <1>3, <2>1, <2>2, <2>3, <2>4, <2>5, <2>6, <2>7, Zenon DEF Process
<1>4. CASE Schedule
  BY <1>4, ScheduleSync
<1>5. ASSUME NEW w \in Wids, Decode(w) PROVE SyncInv'
  BY <1>5, DecodeSync
<1>6. ASSUME NEW t \in tx, EventRelease(t) PROVE SyncInv'
  BY <1>6, EventReleaseSync
<1> QED BY <1>1, <1>2, <1>3, <1>4, <1>5, <1>6, Zenon DEF Next

(* A warp leaves vx_barrier only after every warp of its block has come to *)
(* that same barrier and the transfers expected before it are complete,    *)
(* and a slot is given up with its barriers at rest: for every number of   *)
(* warps, barriers and blocks, and every program in which no barrier is    *)
(* used by vx_barrier and by vx_barrier_arrive both, and every expected    *)
(* transfer is waited for by a later vx_barrier.                           *)
THEOREM SyncCorrect == Disciplined => (Spec => []SyncHolds)
<1> SUFFICES ASSUME Disciplined PROVE Spec => []SyncHolds
  OBVIOUS
<1>1. Init => SyncInv
  BY SyncInit
<1>2. IInv /\ SyncInv /\ [Next]_vars => SyncInv'
  BY StepSync
<1>3. ASSUME IInv, SyncInv PROVE SyncHolds
  <2>1. ASSUME NEW w \in Wids, NEW i \in At("sync"), Past(w, i)
        PROVE  /\ arrived[warp[w].block][i] = Ranks
               /\ \A t \in tx : t.slot = warp[w].slot /\ t.bar = Program[i].bar => t.pc > i
    <3>1. w \in active /\ Cleared(w, i)
      BY <1>3, <2>1, PastCleared
    <3> QED BY <1>3, <3>1 DEF SyncInv, Clears, TxOf
  <2>2. ASSUME NEW s \in Wids, NEW b \in Bars, disp.slot_rem[s] = 0
        PROVE  bars[s][b] = [Quiet EXCEPT !.phase = bars[s][b].phase]
    <3>1. bars[s][b] \in BarRecs
      BY <1>3 DEF IInv, Types
    <3>2. bars[s][b].wait_mask = {} /\ bars[s][b].count = 0 /\ bars[s][b].events = 0
      BY <1>3, <2>2 DEF SyncInv, Rests
    <3> QED BY <3>1, <3>2 DEF BarRecs, Quiet
  <2> QED BY <2>1, <2>2 DEF SyncHolds
<1> QED BY <1>1, <1>2, <1>3, Invariance, PTL DEF Spec
=============================================================================
