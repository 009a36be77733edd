------------------------------ MODULE Host_proofs -------------------------------
(***************************************************************************)
(* What is around a session: the skills it announces and the requests it   *)
(* assembles, the command line and settings it comes from, the loop at a    *)
(* terminal that drives it, and the answers it reads.                       *)
(***************************************************************************)
EXTENDS Projection_proofs, Context, Settings, Repl, StreamStep,
        FiniteSetTheorems, SequenceTheorems

-------------------------------------------------------------------------------
(***************************************************************************)
(* The folds of both modules, one element at a time                        *)
(***************************************************************************)
\* KeepText keeps a sequence.
LEMMA KeepFold ==
    ASSUME NEW S, NEW s \in Seq(S \union {NoText})
    PROVE  \E w : /\ w[0] = <<>> /\ w[Len(s)] = There(s)
                  /\ \A k \in 0..Len(s) - 1 : w[k + 1] = KeepText(w[k], s[k + 1])
<1> DEFINE n == Len(s)
           Items == S \union {NoText}
           f == [p \in Seq(S) \X Items |-> KeepText(p[1], p[2])]
           F(g) == g = [u \in SUBSET DOMAIN s |->
                           IF u = {} THEN <<>> ELSE KeepText(g[u \ {Max(u)}], s[Max(u)])]
<1>1. n \in Nat /\ DOMAIN s = 1..n /\ \A i \in 1..n : s[i] \in Items
  OBVIOUS
<1>2. f \in [Seq(S) \X Items -> Seq(S)]
  BY DEF KeepText
<1>3. There(s) = (CHOOSE g : F(g))[DOMAIN s]
  BY DEF There, FoldLeft, MapThenFoldSet
<1>4. \E g : F(g)
  <2>1. <<>> \in Seq(S)
    OBVIOUS
  <2> HIDE DEF f, Items
  <2>2. PICK g : FoldBy(f, g, s, <<>>) /\ FoldIn(Seq(S), Items, g, s)
    <3>1. s \in Seq(Items)
      BY DEF Items
    <3> QED
      BY <1>2, <2>1, <3>1, TypedFold
  <2>3. \A a \in Seq(S), e \in Items : f[<<a, e>>] = KeepText(a, e)
    BY DEF f
  <2>4. \A u \in SUBSET DOMAIN s : u # {} =>
           f[<<g[u \ {Max(u)}], s[Max(u)]>>] = KeepText(g[u \ {Max(u)}], s[Max(u)])
    BY <2>2, <2>3 DEF FoldIn
  <2>5. F(g)
    BY <2>2, <2>4 DEF FoldBy
  <2> QED
    BY <2>5
<1> HIDE DEF F
<1>5. PICK g : F(g) /\ There(s) = g[1..n]
  BY <1>1, <1>3, <1>4
<1> HIDE DEF n
<1>6. g[{}] = <<>>
      /\ \A u \in SUBSET (1..n) : u # {} => g[u] = KeepText(g[u \ {Max(u)}], s[Max(u)])
  BY <1>1, <1>5 DEF F
<1>7. g[1..0] = <<>>
  BY <1>1, <1>6, OneIndexMore
<1>8. ASSUME NEW k \in 0..n - 1 PROVE g[1..k + 1] = KeepText(g[1..k], s[k + 1])
  <2> DEFINE u == 1..k + 1
  <2>1. u \in SUBSET (1..n) /\ u # {} /\ Max(u) = k + 1 /\ u \ {k + 1} = 1..k
    BY <1>1, OneIndexMore
  <2> HIDE DEF u
  <2>2. g[u] = KeepText(g[1..k], s[k + 1])
    BY <1>6, <2>1
  <2> QED
    BY <2>2 DEF u
<1> DEFINE w == [k \in 0..n |-> g[1..k]]
<1>9. /\ w[0] = g[1..0] /\ w[n] = g[1..n]
      /\ \A k \in 0..n - 1 : w[k] = g[1..k] /\ w[k + 1] = g[1..k + 1]
  BY <1>1
<1> HIDE DEF w
<1>10. w[0] = <<>> /\ w[n] = There(s)
      /\ \A k \in 0..n - 1 : w[k + 1] = KeepText(w[k], s[k + 1])
  BY <1>5, <1>7, <1>8, <1>9
<1> QED
  BY <1>10 DEF n

\* AddBytes counts.
LEMMA AddFold ==
    ASSUME NEW s \in Seq(Skill)
    PROVE  \E w : /\ w[0] = 0 /\ w[Len(s)] = Used(s)
                  /\ \A k \in 0..Len(s) - 1 : w[k + 1] = AddBytes(w[k], s[k + 1])
<1> DEFINE n == Len(s)
           Items == Skill
           f == [p \in Nat \X Items |-> AddBytes(p[1], p[2])]
           F(g) == g = [u \in SUBSET DOMAIN s |->
                           IF u = {} THEN 0 ELSE AddBytes(g[u \ {Max(u)}], s[Max(u)])]
<1>1. n \in Nat /\ DOMAIN s = 1..n /\ \A i \in 1..n : s[i] \in Items
  OBVIOUS
<1>2. f \in [Nat \X Items -> Nat]
  BY DEF AddBytes, Skill
<1>3. Used(s) = (CHOOSE g : F(g))[DOMAIN s]
  BY DEF Used, FoldLeft, MapThenFoldSet
<1>4. \E g : F(g)
  <2>1. 0 \in Nat
    OBVIOUS
  <2> HIDE DEF f, Items
  <2>2. PICK g : FoldBy(f, g, s, 0) /\ FoldIn(Nat, Items, g, s)
    <3>1. s \in Seq(Items)
      BY DEF Items
    <3> QED
      BY <1>2, <2>1, <3>1, TypedFold
  <2>3. \A a \in Nat, e \in Items : f[<<a, e>>] = AddBytes(a, e)
    BY DEF f
  <2>4. \A u \in SUBSET DOMAIN s : u # {} =>
           f[<<g[u \ {Max(u)}], s[Max(u)]>>] = AddBytes(g[u \ {Max(u)}], s[Max(u)])
    BY <2>2, <2>3 DEF FoldIn
  <2>5. F(g)
    BY <2>2, <2>4 DEF FoldBy
  <2> QED
    BY <2>5
<1> HIDE DEF F
<1>5. PICK g : F(g) /\ Used(s) = g[1..n]
  BY <1>1, <1>3, <1>4
<1> HIDE DEF n
<1>6. g[{}] = 0
      /\ \A u \in SUBSET (1..n) : u # {} => g[u] = AddBytes(g[u \ {Max(u)}], s[Max(u)])
  BY <1>1, <1>5 DEF F
<1>7. g[1..0] = 0
  BY <1>1, <1>6, OneIndexMore
<1>8. ASSUME NEW k \in 0..n - 1 PROVE g[1..k + 1] = AddBytes(g[1..k], s[k + 1])
  <2> DEFINE u == 1..k + 1
  <2>1. u \in SUBSET (1..n) /\ u # {} /\ Max(u) = k + 1 /\ u \ {k + 1} = 1..k
    BY <1>1, OneIndexMore
  <2> HIDE DEF u
  <2>2. g[u] = AddBytes(g[1..k], s[k + 1])
    BY <1>6, <2>1
  <2> QED
    BY <2>2 DEF u
<1> DEFINE w == [k \in 0..n |-> g[1..k]]
<1>9. /\ w[0] = g[1..0] /\ w[n] = g[1..n]
      /\ \A k \in 0..n - 1 : w[k] = g[1..k] /\ w[k + 1] = g[1..k + 1]
  BY <1>1
<1> HIDE DEF w
<1>10. w[0] = 0 /\ w[n] = Used(s)
      /\ \A k \in 0..n - 1 : w[k + 1] = AddBytes(w[k], s[k + 1])
  BY <1>5, <1>7, <1>8, <1>9
<1> QED
  BY <1>10 DEF n

\* What capTotal has so far, and how it begins.
Kept == [kept : Seq(Skill), left : Nat]
NoneKept == [kept |-> <<>>, left |-> MaxTotalBytes]
Capped(s) == FoldLeft(PutSkill, NoneKept, s)

LEMMA MaxOfTwo == ASSUME NEW x \in Int PROVE Max({0, x}) = IF x > 0 THEN x ELSE 0
<1> DEFINE m == IF x > 0 THEN x ELSE 0
<1>1. m \in {0, x} /\ \A y \in {0, x} : m >= y
  OBVIOUS
<1>2. \A z \in {0, x} : (\A y \in {0, x} : z >= y) => z = m
  OBVIOUS
<1> HIDE DEF m
<1> QED
  BY <1>1, <1>2 DEF Max, m

\* A text that is cut has the size of the cap, or of the marker if that is more.
LEMMA CapFacts ==
    ASSUME NEW bytes \in Nat, NEW max \in Nat
    PROVE  /\ CapBytes(bytes, max) \in Nat
           /\ max > 0 /\ bytes > max =>
                 CapBytes(bytes, max) >= max /\ CapBytes(bytes, max) <= max + Marker
<1>1. Marker \in Nat /\ max - Marker \in Int
  BY ContextAssumption
<1>2. Max({0, max - Marker}) = IF max - Marker > 0 THEN max - Marker ELSE 0
  BY <1>1, MaxOfTwo
<1> DEFINE m == Max({0, max - Marker})
<1> HIDE DEF m
<1>3. m = IF max - Marker > 0 THEN max - Marker ELSE 0
  BY <1>2 DEF m
<1>4. CapBytes(bytes, max) = IF max <= 0 THEN 0 ELSE IF bytes <= max THEN bytes ELSE m + Marker
  BY DEF CapBytes, m
<1> QED
  BY <1>1, <1>3, <1>4

\* The cut skill.
CutSkill(s, left) == [s EXCEPT !.bytes = CapBytes(s.bytes, left), !.truncated = TRUE]

LEMMA CutTypes ==
    ASSUME NEW s \in Skill, NEW left \in Nat
    PROVE  /\ CutSkill(s, left) \in Skill /\ CutSkill(s, left).dir = s.dir
           /\ CutSkill(s, left).bytes = CapBytes(s.bytes, left)
<1>1. s.bytes \in Nat
  BY DEF Skill
<1>2. CapBytes(s.bytes, left) \in Nat
  BY <1>1, CapFacts
<1> QED
  BY <1>2 DEF Skill, CutSkill

LEMMA PutSkillTypes ==
    [p \in Kept \X Skill |-> PutSkill(p[1], p[2])] \in [Kept \X Skill -> Kept]
<1> SUFFICES ASSUME NEW acc \in Kept, NEW s \in Skill PROVE PutSkill(acc, s) \in Kept
  OBVIOUS
<1>1. acc.kept \in Seq(Skill) /\ acc.left \in Nat /\ s.bytes \in Nat
  BY DEF Kept, Skill
<1>2. CutSkill(s, acc.left) \in Skill
  BY <1>1, CutTypes
<1>3. CASE acc.left <= 0
  BY <1>3 DEF PutSkill
<1>4. CASE ~(acc.left <= 0) /\ s.bytes <= acc.left
  BY <1>1, <1>4 DEF PutSkill, Kept
<1>5. CASE ~(acc.left <= 0) /\ ~(s.bytes <= acc.left)
  BY <1>1, <1>2, <1>5 DEF PutSkill, Kept, CutSkill
<1> QED
  BY <1>3, <1>4, <1>5

\* PutSkill keeps skills and what is left of the cap.
LEMMA PutFold ==
    ASSUME NEW s \in Seq(Skill)
    PROVE  \E w : /\ w[0] = NoneKept /\ w[Len(s)] = Capped(s)
                  /\ \A k \in 0..Len(s) - 1 : w[k + 1] = PutSkill(w[k], s[k + 1])
<1> DEFINE n == Len(s)
           Items == Skill
           f == [p \in Kept \X Items |-> PutSkill(p[1], p[2])]
           F(g) == g = [u \in SUBSET DOMAIN s |->
                           IF u = {} THEN NoneKept ELSE PutSkill(g[u \ {Max(u)}], s[Max(u)])]
<1>1. n \in Nat /\ DOMAIN s = 1..n /\ \A i \in 1..n : s[i] \in Items
  OBVIOUS
<1>2. f \in [Kept \X Items -> Kept]
  BY PutSkillTypes
<1>3. Capped(s) = (CHOOSE g : F(g))[DOMAIN s]
  BY DEF Capped, FoldLeft, MapThenFoldSet
<1>4. \E g : F(g)
  <2>1. NoneKept \in Kept
    BY ContextAssumption DEF NoneKept, Kept
  <2> HIDE DEF f, Items
  <2>2. PICK g : FoldBy(f, g, s, NoneKept) /\ FoldIn(Kept, Items, g, s)
    <3>1. s \in Seq(Items)
      BY DEF Items
    <3> QED
      BY <1>2, <2>1, <3>1, TypedFold
  <2>3. \A a \in Kept, e \in Items : f[<<a, e>>] = PutSkill(a, e)
    BY DEF f
  <2>4. \A u \in SUBSET DOMAIN s : u # {} =>
           f[<<g[u \ {Max(u)}], s[Max(u)]>>] = PutSkill(g[u \ {Max(u)}], s[Max(u)])
    BY <2>2, <2>3 DEF FoldIn
  <2>5. F(g)
    BY <2>2, <2>4 DEF FoldBy
  <2> QED
    BY <2>5
<1> HIDE DEF F
<1>5. PICK g : F(g) /\ Capped(s) = g[1..n]
  BY <1>1, <1>3, <1>4
<1> HIDE DEF n
<1>6. g[{}] = NoneKept
      /\ \A u \in SUBSET (1..n) : u # {} => g[u] = PutSkill(g[u \ {Max(u)}], s[Max(u)])
  BY <1>1, <1>5 DEF F
<1>7. g[1..0] = NoneKept
  BY <1>1, <1>6, OneIndexMore
<1>8. ASSUME NEW k \in 0..n - 1 PROVE g[1..k + 1] = PutSkill(g[1..k], s[k + 1])
  <2> DEFINE u == 1..k + 1
  <2>1. u \in SUBSET (1..n) /\ u # {} /\ Max(u) = k + 1 /\ u \ {k + 1} = 1..k
    BY <1>1, OneIndexMore
  <2> HIDE DEF u
  <2>2. g[u] = PutSkill(g[1..k], s[k + 1])
    BY <1>6, <2>1
  <2> QED
    BY <2>2 DEF u
<1> DEFINE w == [k \in 0..n |-> g[1..k]]
<1>9. /\ w[0] = g[1..0] /\ w[n] = g[1..n]
      /\ \A k \in 0..n - 1 : w[k] = g[1..k] /\ w[k + 1] = g[1..k + 1]
  BY <1>1
<1> HIDE DEF w
<1>10. w[0] = NoneKept /\ w[n] = Capped(s)
      /\ \A k \in 0..n - 1 : w[k + 1] = PutSkill(w[k], s[k + 1])
  BY <1>5, <1>7, <1>8, <1>9
<1> QED
  BY <1>10 DEF n

\* What is there of a sequence is its elements, but for NoText.
LEMMA ThereFacts ==
    ASSUME NEW S, NEW s \in Seq(S \union {NoText}), NoText \notin S
    PROVE  /\ There(s) \in Seq(S)
           /\ \A x \in S : x \in ToSet(There(s)) <=> x \in ToSet(s)
<1> DEFINE n == Len(s)
<1>1. n \in Nat /\ DOMAIN s = 1..n /\ \A i \in 1..n : s[i] \in S \union {NoText}
  OBVIOUS
<1>2. PICK w : /\ w[0] = <<>> /\ w[n] = There(s)
               /\ \A k \in 0..n - 1 : w[k + 1] = KeepText(w[k], s[k + 1])
  BY KeepFold
<1> HIDE DEF n
<1> DEFINE Right(k) ==
              /\ w[k] \in Seq(S)
              /\ \A x \in S : (\E i \in DOMAIN w[k] : w[k][i] = x) <=> \E i \in 1..k : s[i] = x
           T == {k \in 0..n : Right(k)}
<1>3. 0 \in T
  <2>1. <<>> \in Seq(S) /\ DOMAIN <<>> = {} /\ 1..0 = {} /\ 0 \in 0..n
    BY <1>1
  <2>2. w[0] \in Seq(S) /\ DOMAIN w[0] = {}
    BY <1>2, <2>1
  <2>3. Right(0)
    BY <2>1, <2>2
  <2> QED
    BY <2>1, <2>3
<1>4. ASSUME NEW k \in 0..n - 1, k \in T PROVE k + 1 \in T
  <2>1. k \in 0..n /\ k + 1 \in 0..n /\ k + 1 \in 1..n /\ 1..k + 1 = 1..k \union {k + 1}
    BY <1>1
  <2>2. Right(k)
    BY <1>4
  <2>3. w[k + 1] = KeepText(w[k], s[k + 1]) /\ s[k + 1] \in S \union {NoText}
    BY <1>1, <1>2, <2>1
  <2>4. CASE s[k + 1] = NoText
    <3>1. w[k + 1] = w[k]
      BY <2>3, <2>4 DEF KeepText
    <3>2. \A x \in S : x # s[k + 1]
      BY <2>4
    <3>3. Right(k + 1)
      BY <2>1, <2>2, <3>1, <3>2
    <3> QED
      BY <2>1, <3>3
  <2>5. CASE s[k + 1] # NoText
    <3>1. w[k + 1] = Append(w[k], s[k + 1]) /\ s[k + 1] \in S
      BY <2>3, <2>5 DEF KeepText
    <3>2. /\ w[k + 1] \in Seq(S)
          /\ \A x \in S : (\E i \in DOMAIN w[k + 1] : w[k + 1][i] = x)
                             <=> (x = s[k + 1] \/ \E i \in DOMAIN w[k] : w[k][i] = x)
      <4> DEFINE a == w[k]
                 e == s[k + 1]
      <4>1. a \in Seq(S) /\ e \in S
        BY <2>2, <3>1
      <4>2. w[k + 1] = Append(a, e)
        BY <3>1
      <4> HIDE DEF a, e
      <4>3. /\ Append(a, e) \in Seq(S)
            /\ DOMAIN Append(a, e) = DOMAIN a \union {Len(a) + 1}
            /\ Append(a, e)[Len(a) + 1] = e
            /\ \A i \in DOMAIN a : Append(a, e)[i] = a[i]
        BY <4>1
      <4>4. \A x \in S : (\E i \in DOMAIN Append(a, e) : Append(a, e)[i] = x)
                             <=> (x = e \/ \E i \in DOMAIN a : a[i] = x)
        BY <4>3
      <4> QED
        BY <4>2, <4>3, <4>4 DEF a, e
    <3>3. \A x \in S : (\E i \in 1..k + 1 : s[i] = x)
                        <=> (x = s[k + 1] \/ \E i \in 1..k : s[i] = x)
      BY <2>1
    <3>4. Right(k + 1)
      BY <2>2, <3>2, <3>3
    <3> QED
      BY <2>1, <3>4
  <2> QED
    BY <2>4, <2>5
<1>5. n \in T
  <2>1. n \in 0..n
    BY <1>1
  <2> HIDE DEF T
  <2> QED
    BY <1>1, <1>3, <1>4, <2>1, UpTo
<1>6. /\ w[n] \in Seq(S)
      /\ \A x \in S : (\E i \in DOMAIN w[n] : w[n][i] = x) <=> \E i \in 1..n : s[i] = x
  BY <1>5
<1>7. \A x \in S :
         /\ x \in ToSet(w[n]) <=> \E i \in DOMAIN w[n] : w[n][i] = x
         /\ x \in ToSet(s) <=> \E i \in 1..n : s[i] = x
  BY <1>1 DEF ToSet
<1>8. \A x \in S : x \in ToSet(w[n]) <=> x \in ToSet(s)
  <2> SUFFICES ASSUME NEW x \in S PROVE x \in ToSet(w[n]) <=> x \in ToSet(s)
    OBVIOUS
  <2>1. x \in ToSet(w[n]) <=> \E i \in DOMAIN w[n] : w[n][i] = x
    BY <1>7
  <2>2. x \in ToSet(s) <=> \E i \in 1..n : s[i] = x
    BY <1>7
  <2>3. (\E i \in DOMAIN w[n] : w[n][i] = x) <=> \E i \in 1..n : s[i] = x
    BY <1>6
  <2> QED
    BY <2>1, <2>2, <2>3
<1>9. w[n] = There(s)
  BY <1>2
<1> QED
  BY <1>6, <1>8, <1>9

LEMMA UsedFacts ==
    /\ Used(<<>>) = 0
    /\ \A s \in Seq(Skill), e \in Skill :
          Used(s) \in Nat /\ Used(Append(s, e)) = Used(s) + e.bytes
<1>1. Used(<<>>) = 0
  <2>1. <<>> \in Seq(Skill) /\ Len(<<>>) = 0
    OBVIOUS
  <2>2. PICK w : w[0] = 0 /\ w[0] = Used(<<>>)
    BY <2>1, AddFold
  <2> QED
    BY <2>2
<1>2. ASSUME NEW s \in Seq(Skill), NEW e \in Skill
      PROVE  Used(s) \in Nat /\ Used(Append(s, e)) = Used(s) + e.bytes
  <2> DEFINE n == Len(s)
             t == Append(s, e)
  <2>1. /\ n \in Nat /\ t \in Seq(Skill) /\ Len(t) = n + 1 /\ t[n + 1] = e
        /\ \A i \in 1..n : t[i] = s[i] /\ s[i] \in Skill
    OBVIOUS
  <2>2. PICK v : /\ v[0] = 0 /\ v[n] = Used(s)
                 /\ \A k \in 0..n - 1 : v[k + 1] = AddBytes(v[k], s[k + 1])
    BY AddFold
  <2> HIDE DEF n, t
  <2>3. PICK w : /\ w[0] = 0 /\ w[n + 1] = Used(t)
                 /\ \A k \in 0..(n + 1) - 1 : w[k + 1] = AddBytes(w[k], t[k + 1])
    <3>1. PICK w : /\ w[0] = 0 /\ w[Len(t)] = Used(t)
                   /\ \A k \in 0..Len(t) - 1 : w[k + 1] = AddBytes(w[k], t[k + 1])
      BY <2>1, AddFold
    <3> QED
      BY <2>1, <3>1
  <2> DEFINE T == {k \in 0..n : w[k] = v[k] /\ v[k] \in Nat}
  <2>4. 0 \in T
    BY <2>1, <2>2, <2>3
  <2>5. ASSUME NEW k \in 0..n - 1, k \in T PROVE k + 1 \in T
    <3>1. k + 1 \in 0..n /\ k + 1 \in 1..n /\ k \in 0..(n + 1) - 1
      BY <2>1
    <3>2. v[k + 1] = v[k] + s[k + 1].bytes /\ w[k + 1] = w[k] + t[k + 1].bytes
      BY <2>2, <2>3, <3>1 DEF AddBytes
    <3>3. s[k + 1].bytes \in Nat /\ t[k + 1] = s[k + 1]
      BY <2>1, <3>1 DEF Skill
    <3> QED
      BY <2>5, <3>1, <3>2, <3>3
  <2>6. n \in T
    <3>1. n \in 0..n
      BY <2>1
    <3> HIDE DEF T
    <3> QED
      BY <2>1, <2>4, <2>5, <3>1, UpTo
  <2>7. w[n + 1] = w[n] + t[n + 1].bytes
    <3>1. n \in 0..(n + 1) - 1
      BY <2>1
    <3> QED
      BY <2>3, <3>1 DEF AddBytes
  <2> QED
    BY <2>1, <2>2, <2>3, <2>6, <2>7 DEF t
<1> QED
  BY <1>1, <1>2

\* What is active counts up to the cap, and every skill found is active or the
\* cap is used up.
LEMMA CappedFacts ==
    ASSUME NEW s \in Seq(Skill)
    PROVE  /\ CapTotal(s) \in Seq(Skill)
           /\ Used(CapTotal(s)) <= MaxTotalBytes + Marker
           /\ \A i \in 1..Len(s) :
                 \/ Used(CapTotal(s)) >= MaxTotalBytes
                 \/ \E j \in DOMAIN CapTotal(s) : CapTotal(s)[j].dir = s[i].dir
<1> DEFINE n == Len(s)
<1>1. n \in Nat /\ \A i \in 1..n : s[i] \in Skill
  OBVIOUS
<1>2. PICK w : /\ w[0] = NoneKept /\ w[n] = Capped(s)
               /\ \A k \in 0..n - 1 : w[k + 1] = PutSkill(w[k], s[k + 1])
  BY PutFold
<1>3. MaxTotalBytes \in Nat /\ Marker \in Nat
  BY ContextAssumption
<1> HIDE DEF n
<1> DEFINE Counts(acc) ==
              \/ Used(acc.kept) + acc.left = MaxTotalBytes
              \/ /\ acc.left = 0 /\ Used(acc.kept) >= MaxTotalBytes
                 /\ Used(acc.kept) <= MaxTotalBytes + Marker
           Has(acc, d) == \E j \in DOMAIN acc.kept : acc.kept[j].dir = d
           Goes(acc, e, next) ==
              /\ next \in Kept /\ Counts(next)
              /\ acc.left = 0 => next.left = 0
              /\ next.left = 0 \/ Has(next, e.dir)
              /\ \A d : Has(acc, d) => Has(next, d)
           Right(k) == /\ w[k] \in Kept /\ Counts(w[k])
                       /\ \A i \in 1..k : w[k].left = 0 \/ Has(w[k], s[i].dir)
           T == {k \in 0..n : Right(k)}
<1>4. 0 \in T
  <2>1. NoneKept \in Kept /\ Counts(NoneKept)
    BY <1>3, UsedFacts DEF NoneKept, Kept
  <2>2. 1..0 = {} /\ 0 \in 0..n
    BY <1>1
  <2> QED
    BY <1>2, <2>1, <2>2
<1>5. ASSUME NEW acc \in Kept, NEW e \in Skill, Counts(acc)
      PROVE  Goes(acc, e, PutSkill(acc, e))
  <2> DEFINE c == CutSkill(e, acc.left)
  <2>1. acc.kept \in Seq(Skill) /\ acc.left \in Nat /\ e.bytes \in Nat
        /\ Used(acc.kept) \in Nat
    BY UsedFacts DEF Kept, Skill
  <2>2. c \in Skill /\ c.dir = e.dir /\ c.bytes = CapBytes(e.bytes, acc.left)
    BY <2>1, CutTypes
  <2>3. ASSUME NEW x \in Skill
        PROVE  LET longer == Append(acc.kept, x) IN
               /\ longer \in Seq(Skill) /\ Used(longer) = Used(acc.kept) + x.bytes
               /\ \E j \in DOMAIN longer : longer[j].dir = x.dir
               /\ \A d : Has(acc, d) => \E j \in DOMAIN longer : longer[j].dir = d
    <3> DEFINE a == acc.kept
    <3>1. a \in Seq(Skill)
      BY <2>1
    <3> HIDE DEF a
    <3>2. /\ Append(a, x) \in Seq(Skill) /\ Used(Append(a, x)) = Used(a) + x.bytes
          /\ DOMAIN Append(a, x) = DOMAIN a \union {Len(a) + 1}
          /\ Append(a, x)[Len(a) + 1] = x
          /\ \A i \in DOMAIN a : Append(a, x)[i] = a[i]
      BY <3>1, UsedFacts
    <3>3. \A d : (\E j \in DOMAIN a : a[j].dir = d) =>
                    \E j \in DOMAIN Append(a, x) : Append(a, x)[j].dir = d
      BY <3>2
    <3>4. \E j \in DOMAIN Append(a, x) : Append(a, x)[j].dir = x.dir
      BY <3>2
    <3> QED
      BY <3>2, <3>3, <3>4 DEF a
  <2> HIDE DEF c
  <2>4. CASE acc.left <= 0
    <3>1. PutSkill(acc, e) = acc /\ acc.left = 0
      BY <2>1, <2>4 DEF PutSkill
    <3> HIDE DEF Counts, Has
    <3> QED
      BY <1>5, <3>1
  <2>5. CASE ~(acc.left <= 0) /\ e.bytes <= acc.left
    <3> DEFINE next == [kept |-> Append(acc.kept, e), left |-> acc.left - e.bytes]
    <3>1. PutSkill(acc, e) = next
      BY <2>5 DEF PutSkill
    <3>2. Used(acc.kept) + acc.left = MaxTotalBytes
      BY <2>5, <1>5
    <3>3. Append(acc.kept, e) \in Seq(Skill)
          /\ Used(Append(acc.kept, e)) = Used(acc.kept) + e.bytes
      BY <2>3
    <3>4. next \in Kept /\ Counts(next)
      BY <1>3, <2>1, <2>5, <3>2, <3>3 DEF Kept
    <3>5. Has(next, e.dir) /\ \A d : Has(acc, d) => Has(next, d)
      BY <2>3
    <3> HIDE DEF next
    <3> QED
      BY <2>5, <3>1, <3>4, <3>5
  <2>6. CASE ~(acc.left <= 0) /\ ~(e.bytes <= acc.left)
    <3> DEFINE next == [kept |-> Append(acc.kept, c), left |-> 0]
    <3>1. PutSkill(acc, e) = next
      BY <2>6 DEF PutSkill, c, CutSkill
    <3>2. Used(acc.kept) + acc.left = MaxTotalBytes
      BY <2>6, <1>5
    <3>3. Append(acc.kept, c) \in Seq(Skill)
          /\ Used(Append(acc.kept, c)) = Used(acc.kept) + c.bytes
      BY <2>2, <2>3
    <3>4. c.bytes >= acc.left /\ c.bytes <= acc.left + Marker /\ c.bytes \in Nat
      <4>1. acc.left \in Nat /\ e.bytes \in Nat /\ acc.left > 0 /\ e.bytes > acc.left
        BY <2>1, <2>6
      <4> QED
        BY <2>2, <4>1, CapFacts
    <3>5. next \in Kept /\ Counts(next)
      BY <1>3, <2>1, <3>2, <3>3, <3>4 DEF Kept
    <3>6. Has(next, e.dir) /\ \A d : Has(acc, d) => Has(next, d)
      BY <2>2, <2>3
    <3>7. next.left = 0
      OBVIOUS
    <3> HIDE DEF next
    <3> QED
      BY <3>1, <3>5, <3>6, <3>7
  <2> QED
    BY <2>4, <2>5, <2>6
<1>6. ASSUME NEW k \in 0..n - 1, k \in T PROVE k + 1 \in T
  <2>1. k \in 0..n /\ k + 1 \in 0..n /\ k + 1 \in 1..n /\ 1..k + 1 = 1..k \union {k + 1}
    BY <1>1
  <2>2. Right(k)
    BY <1>6
  <2>3. w[k + 1] = PutSkill(w[k], s[k + 1]) /\ s[k + 1] \in Skill
    BY <1>1, <1>2, <2>1
  <2>4. Goes(w[k], s[k + 1], w[k + 1])
    <3> HIDE DEF Counts, Has, Goes
    <3> QED
      BY <1>5, <2>2, <2>3
  <2>5. \A i \in 1..k : w[k].left = 0 \/ Has(w[k], s[i].dir)
    BY <2>2
  <2> HIDE DEF Has, Counts
  <2>6. \A i \in 1..k + 1 : w[k + 1].left = 0 \/ Has(w[k + 1], s[i].dir)
    BY <2>1, <2>4, <2>5
  <2> QED
    BY <2>1, <2>4, <2>6
<1>7. n \in T
  <2>1. n \in 0..n
    BY <1>1
  <2> HIDE DEF T
  <2> QED
    BY <1>1, <1>4, <1>6, <2>1, UpTo
<1>8. CapTotal(s) = w[n].kept
  BY <1>2 DEF CapTotal, Capped, NoneKept
<1>9. w[n].kept \in Seq(Skill) /\ w[n].left \in Nat /\ Used(w[n].kept) \in Nat
  BY <1>7, UsedFacts DEF Kept
<1>10. Used(w[n].kept) <= MaxTotalBytes + Marker
  BY <1>3, <1>7, <1>9
<1>11. w[n].left = 0 => Used(w[n].kept) >= MaxTotalBytes
  BY <1>3, <1>7, <1>9
<1>12. \A i \in 1..n : w[n].left = 0 \/ \E j \in DOMAIN w[n].kept : w[n].kept[j].dir = s[i].dir
  BY <1>7
<1> QED
  BY <1>8, <1>9, <1>10, <1>11, <1>12 DEF n

-------------------------------------------------------------------------------
(***************************************************************************)
(* Skills                                                                  *)
(***************************************************************************)
LEMMA FoundFacts ==
    ASSUME NEW all \in Seq(Skill), NEW asked
    PROVE  Found(all, asked) \in Skill \union {NoText}
<1> DEFINE called(m) == {i \in DOMAIN all : m \in {all[i].name, Lower[all[i].name], all[i].dir}}
           hits == IF called(asked) # {} THEN called(asked) ELSE called(Lower[asked])
<1>1. hits \subseteq DOMAIN all
  OBVIOUS
<1>2. Found(all, asked) = IF hits = {} THEN NoText ELSE all[Max(hits)]
  BY DEF Found
<1> HIDE DEF hits
<1>3. ASSUME hits # {} PROVE Max(hits) \in hits
  <2>1. Len(all) \in Nat /\ hits \subseteq 0..Len(all) /\ hits \subseteq Nat
    BY <1>1
  <2>2. PICK m \in hits : \A j \in hits : j <= m
    BY <1>3, <2>1, BoundedNatSetHasMaximum
  <2>3. \A j \in hits : m >= j
    BY <2>1, <2>2
  <2> QED
    BY <2>3 DEF Max
<1>4. \A i \in DOMAIN all : all[i] \in Skill
  OBVIOUS
<1> QED
  BY <1>1, <1>2, <1>3, <1>4

LEMMA LoadedFacts ==
    ASSUME NEW dirs \in Seq(DOMAIN SkillFiles)
    PROVE  Loaded(dirs) \in Seq(Skill)
<1> DEFINE s == [i \in DOMAIN dirs |->
                   IF SkillFiles[dirs[i]] = NoText THEN NoText ELSE SnapshotSkill(dirs[i])]
<1>1. ASSUME NEW d \in DOMAIN SkillFiles, SkillFiles[d] # NoText
      PROVE  SnapshotSkill(d) \in Skill
  <2>1. SkillFiles[d].name \in DOMAIN Lower /\ SkillFiles[d].bytes \in Nat /\ MaxSkillBytes \in Nat
    BY <1>1, ContextAssumption
  <2> DEFINE b == CapBytes(SkillFiles[d].bytes, MaxSkillBytes)
  <2>2. b \in Nat
    BY <2>1, CapFacts
  <2> HIDE DEF b
  <2>3. SnapshotSkill(d) = [name |-> SkillFiles[d].name, dir |-> d, bytes |-> b,
                            truncated |-> SkillFiles[d].bytes > b]
    BY DEF SnapshotSkill, b
  <2> QED
    BY <2>1, <2>2, <2>3 DEF Skill
<1>2. \A i \in DOMAIN dirs : s[i] \in Skill \union {NoText}
  BY <1>1
<1>3. s \in Seq(Skill \union {NoText})
  BY <1>2
<1>4. NoText \notin Skill
  BY ContextAssumption
<1> HIDE DEF s
<1>5. There(s) \in Seq(Skill)
  BY <1>3, <1>4, ThereFacts
<1> QED
  BY <1>5 DEF Loaded, s

\* What is told of a skill that was asked for.
LEMMA ToldFacts ==
    ASSUME NEW all \in Seq(Skill), NEW active \in Seq(Skill), NEW asked \in DOMAIN Lower
    PROVE  LET e == Told(all, active, asked) IN
           /\ e \in SkillEvent \union {NoText}
           /\ Found(all, asked) = NoText => e = [type |-> "skipped", name |-> asked, bytes |-> 0]
           /\ e # NoText /\ e.type = "activated" =>
                 \E j \in DOMAIN active : e.name = active[j].dir /\ e.bytes = active[j].bytes
<1> DEFINE s == Found(all, asked)
           shown == {i \in DOMAIN active : active[i].name = s.name \/ active[i].dir = s.dir}
           t == active[Min(shown)]
           e == Told(all, active, asked)
<1>1. e = IF s = NoText THEN [type |-> "skipped", name |-> asked, bytes |-> 0]
          ELSE IF shown = {} THEN NoText
          ELSE [type |-> "activated", name |-> t.dir, bytes |-> t.bytes]
  BY DEF Told
<1>2. shown \subseteq DOMAIN active
  OBVIOUS
<1> HIDE DEF s, shown, e, t
<1>3. CASE s = NoText
  <2>1. e = [type |-> "skipped", name |-> asked, bytes |-> 0]
    BY <1>1, <1>3
  <2>2. e \in SkillEvent /\ e.type = "skipped"
    BY <2>1 DEF SkillEvent
  <2> QED
    BY <2>1, <2>2 DEF e, s
<1>4. CASE s # NoText /\ shown = {}
  BY <1>1, <1>4 DEF e, s
<1>5. CASE s # NoText /\ shown # {}
  <2>1. Min(shown) \in shown
    <3>1. shown \subseteq Nat
      BY <1>2
    <3>2. PICK m \in shown : \A j \in shown : m <= j
      BY <1>5, <3>1, NatSetHasMinimum
    <3> QED
      BY <3>2 DEF Min
  <2>2. Min(shown) \in DOMAIN active /\ t \in Skill
    BY <1>2, <2>1 DEF t
  <2>3. t.dir \in DOMAIN SkillFiles /\ t.bytes \in Nat
    BY <2>2 DEF Skill
  <2>4. e = [type |-> "activated", name |-> t.dir, bytes |-> t.bytes]
    BY <1>1, <1>5
  <2>5. e \in SkillEvent
    BY <2>3, <2>4 DEF SkillEvent
  <2>6. \E j \in DOMAIN active : e.name = active[j].dir /\ e.bytes = active[j].bytes
    BY <2>2, <2>4 DEF t
  <2> QED
    BY <1>5, <2>5, <2>6 DEF e, s
<1> QED
  BY <1>3, <1>4, <1>5

\* SkillsAreAnnounced, of any request, active skills and events.
AnnouncedRight(request, active, events) ==
    LET shown == {[name |-> s.dir, bytes |-> s.bytes] : s \in ToSet(active)}
        told(type) == {[name |-> e.name, bytes |-> e.bytes] :
                          e \in {x \in ToSet(events) : x.type = type}}
    IN  /\ told("activated") \subseteq shown
        /\ Used(active) <= MaxTotalBytes + Marker
        /\ \A i \in DOMAIN request.enabled :
              LET s == Found(Loaded(request.dirs), request.enabled[i]) IN
              IF s = NoText
              THEN \E e \in told("skipped") : e.name = request.enabled[i]
              ELSE (\E t \in shown : t.name = s.dir) \/ Used(active) >= MaxTotalBytes

LEMMA SkillsTold ==
    ASSUME NEW request \in SkillRequests,
           NEW active, active = Active(Loaded(request.dirs), request.enabled),
           NEW events, events = Announced(request, active)
    PROVE  AnnouncedRight(request, active, events)
<1> DEFINE all == Loaded(request.dirs)
           asked == request.enabled
           found == [i \in DOMAIN asked |-> Found(all, asked[i])]
           read == [i \in DOMAIN request.dirs |-> Unread(request.dirs[i])]
           told == [i \in DOMAIN asked |-> Told(all, active, asked[i])]
<1>1. request.dirs \in Seq(DOMAIN SkillFiles) /\ asked \in Seq(DOMAIN Lower)
      /\ NoText \notin Skill /\ NoText \notin SkillEvent
  BY ContextAssumption
<1>2. all \in Seq(Skill)
  BY <1>1, LoadedFacts
<1> HIDE DEF all, asked
<1>3. found \in Seq(Skill \union {NoText}) /\ DOMAIN found = DOMAIN asked
      /\ \A i \in DOMAIN asked : found[i] = Found(all, asked[i])
                                 /\ found[i] \in Skill \union {NoText}
  <2>1. \A i \in DOMAIN asked : Found(all, asked[i]) \in Skill \union {NoText}
    BY <1>2, FoundFacts
  <2> QED
    BY <1>1, <2>1
<1>4. /\ There(found) \in Seq(Skill)
      /\ \A x \in Skill : x \in ToSet(There(found)) <=> x \in ToSet(found)
  <2>1. found \in Seq(Skill \union {NoText}) /\ NoText \notin Skill
    BY <1>1, <1>3
  <2> HIDE DEF found
  <2> QED
    BY <2>1, ThereFacts
<1>5. active = CapTotal(There(found))
  BY DEF Active, all, asked
<1>6. /\ active \in Seq(Skill) /\ Used(active) <= MaxTotalBytes + Marker
      /\ \A i \in DOMAIN There(found) :
            \/ Used(active) >= MaxTotalBytes
            \/ \E j \in DOMAIN active : active[j].dir = There(found)[i].dir
  <2> DEFINE s == There(found)
  <2>1. s \in Seq(Skill) /\ DOMAIN s = 1..Len(s)
    BY <1>4
  <2> HIDE DEF s
  <2> QED
    <3>1. /\ CapTotal(s) \in Seq(Skill) /\ Used(CapTotal(s)) <= MaxTotalBytes + Marker
          /\ \A i \in 1..Len(s) :
                \/ Used(CapTotal(s)) >= MaxTotalBytes
                \/ \E j \in DOMAIN CapTotal(s) : CapTotal(s)[j].dir = s[i].dir
      BY <2>1, CappedFacts
    <3>2. active = CapTotal(s)
      BY <1>5 DEF s
    <3> QED
      BY <2>1, <3>1, <3>2 DEF s
<1>7. read \in Seq(SkillEvent \union {NoText})
      /\ \A i \in DOMAIN read : read[i] # NoText => read[i].type = "error"
  <2>1. \A d \in DOMAIN SkillFiles : /\ Unread(d) \in SkillEvent \union {NoText}
                                     /\ Unread(d) # NoText => Unread(d).type = "error"
    BY DEF Unread, SkillEvent
  <2>2. \A i \in DOMAIN request.dirs : request.dirs[i] \in DOMAIN SkillFiles
    BY <1>1
  <2> QED
    BY <1>1, <2>1, <2>2
<1>8. /\ told \in Seq(SkillEvent \union {NoText}) /\ DOMAIN told = DOMAIN asked
      /\ \A i \in DOMAIN asked :
            /\ Found(all, asked[i]) = NoText =>
                  told[i] = [type |-> "skipped", name |-> asked[i], bytes |-> 0]
            /\ told[i] # NoText /\ told[i].type = "activated" =>
                  \E j \in DOMAIN active : told[i].name = active[j].dir
                                           /\ told[i].bytes = active[j].bytes
  <2>1. \A i \in DOMAIN asked : asked[i] \in DOMAIN Lower
    BY <1>1
  <2>2. \A i \in DOMAIN asked :
           /\ told[i] \in SkillEvent \union {NoText}
           /\ Found(all, asked[i]) = NoText =>
                 told[i] = [type |-> "skipped", name |-> asked[i], bytes |-> 0]
           /\ told[i] # NoText /\ told[i].type = "activated" =>
                 \E j \in DOMAIN active : told[i].name = active[j].dir
                                          /\ told[i].bytes = active[j].bytes
    BY <1>2, <1>6, <2>1, ToldFacts
  <2> HIDE DEF told
  <2>3. told \in Seq(SkillEvent \union {NoText}) /\ DOMAIN told = DOMAIN asked
    <3>1. \A i \in DOMAIN asked : Told(all, active, asked[i]) \in SkillEvent \union {NoText}
      BY <2>2 DEF told
    <3>2. DOMAIN asked = 1..Len(asked) /\ Len(asked) \in Nat
      BY <1>1
    <3> QED
      BY <3>1, <3>2 DEF told
  <2> QED
    BY <2>2, <2>3
<1> HIDE DEF found, read, told
<1>9. events = There(read) \o There(told)
  BY DEF Announced, read, told, all, asked
<1>10. /\ There(read) \in Seq(SkillEvent) /\ There(told) \in Seq(SkillEvent)
       /\ \A x \in SkillEvent :
             /\ x \in ToSet(There(read)) <=> x \in ToSet(read)
             /\ x \in ToSet(There(told)) <=> x \in ToSet(told)
  <2>1. read \in Seq(SkillEvent \union {NoText}) /\ told \in Seq(SkillEvent \union {NoText})
        /\ NoText \notin SkillEvent
    BY <1>1, <1>7, <1>8
  <2> QED
    BY <2>1, ThereFacts
<1>11. ToSet(events) = ToSet(There(read)) \union ToSet(There(told))
       /\ ToSet(events) \subseteq SkillEvent
  <2> DEFINE a == There(read)
             b == There(told)
  <2>1. a \in Seq(SkillEvent) /\ b \in Seq(SkillEvent)
    BY <1>10
  <2> HIDE DEF a, b
  <2>2. /\ DOMAIN a = 1..Len(a) /\ DOMAIN b = 1..Len(b) /\ Len(a) \in Nat /\ Len(b) \in Nat
        /\ DOMAIN (a \o b) = 1..Len(a) + Len(b)
        /\ \A i \in 1..Len(a) : (a \o b)[i] = a[i] /\ i \in DOMAIN (a \o b)
        /\ \A i \in 1..Len(b) : (a \o b)[Len(a) + i] = b[i] /\ Len(a) + i \in DOMAIN (a \o b)
    BY <2>1
  <2>3. \A i \in DOMAIN (a \o b) : i \in 1..Len(a) \/ \E k \in 1..Len(b) : i = Len(a) + k
    <3> SUFFICES ASSUME NEW i \in 1..Len(a) + Len(b), i \notin 1..Len(a)
                 PROVE  \E k \in 1..Len(b) : i = Len(a) + k
      BY <2>2
    <3>1. i - Len(a) \in 1..Len(b) /\ i = Len(a) + (i - Len(a))
      BY <2>2
    <3> QED
      BY <3>1
  <2>4. ToSet(a \o b) = ToSet(a) \union ToSet(b)
    BY <2>2, <2>3 DEF ToSet
  <2>5. ToSet(a) \subseteq SkillEvent /\ ToSet(b) \subseteq SkillEvent
    BY <2>1, <2>2 DEF ToSet
  <2> QED
    BY <1>9, <2>4, <2>5 DEF a, b
<1> DEFINE shown == {[name |-> s.dir, bytes |-> s.bytes] : s \in ToSet(active)}
           of(type) == {[name |-> e.name, bytes |-> e.bytes] :
                           e \in {x \in ToSet(events) : x.type = type}}
<1>12. of("activated") \subseteq shown
  <2> SUFFICES ASSUME NEW e \in ToSet(events), e.type = "activated"
               PROVE  [name |-> e.name, bytes |-> e.bytes] \in shown
    OBVIOUS
  <2>1. e \in SkillEvent /\ e # NoText
    BY <1>1, <1>11
  <2>2. \A i \in DOMAIN read : read[i] # e
    BY <1>7, <2>1
  <2>3. PICK i \in DOMAIN told : told[i] = e
    BY <1>10, <1>11, <2>1, <2>2 DEF ToSet
  <2>4. PICK j \in DOMAIN active : e.name = active[j].dir /\ e.bytes = active[j].bytes
    BY <1>8, <2>1, <2>3
  <2>5. active[j] \in ToSet(active)
    BY DEF ToSet
  <2> QED
    BY <2>4, <2>5
<1>13. ASSUME NEW i \in DOMAIN asked, Found(all, asked[i]) = NoText
       PROVE  \E e \in of("skipped") : e.name = asked[i]
  <2> DEFINE e == [type |-> "skipped", name |-> asked[i], bytes |-> 0]
  <2>1. told[i] = e /\ i \in DOMAIN told
    BY <1>8, <1>13
  <2>2. e \in SkillEvent
    <3>1. asked[i] \in DOMAIN Lower
      BY <1>1
    <3> QED
      BY <3>1 DEF SkillEvent
  <2>3. e \in ToSet(events)
    <3>1. e \in ToSet(told)
      BY <2>1 DEF ToSet
    <3> QED
      BY <1>10, <1>11, <2>2, <3>1
  <2>4. e.type = "skipped" /\ e.name = asked[i]
    OBVIOUS
  <2> HIDE DEF e
  <2>5. [name |-> e.name, bytes |-> e.bytes] \in of("skipped")
    BY <2>3, <2>4
  <2> QED
    BY <2>4, <2>5
<1>14. ASSUME NEW i \in DOMAIN asked, Found(all, asked[i]) # NoText
       PROVE  (\E t \in shown : t.name = Found(all, asked[i]).dir) \/ Used(active) >= MaxTotalBytes
  <2> DEFINE s == Found(all, asked[i])
  <2>1. s \in Skill /\ found[i] = s /\ i \in DOMAIN found
    BY <1>3, <1>14
  <2> HIDE DEF s
  <2>2. PICK j \in DOMAIN There(found) : There(found)[j] = s
    BY <1>4, <2>1 DEF ToSet
  <2>3. CASE ~(Used(active) >= MaxTotalBytes)
    <3>1. PICK k \in DOMAIN active : active[k].dir = s.dir
      BY <1>6, <2>2, <2>3
    <3>2. active[k] \in ToSet(active)
      BY DEF ToSet
    <3>3. [name |-> active[k].dir, bytes |-> active[k].bytes] \in shown
      BY <3>2
    <3> QED
      BY <3>1, <3>3 DEF s
  <2> QED
    BY <2>3
<1> QED
  BY <1>6, <1>12, <1>13, <1>14 DEF AnnouncedRight, all, asked

-------------------------------------------------------------------------------
(***************************************************************************)
(* The parts of a request                                                  *)
(***************************************************************************)
\* What the messages of s are about.
About(s) == {s[i].about : i \in DOMAIN s}

LEMMA AboutJoined ==
    ASSUME NEW S, NEW a \in Seq(S), NEW b \in Seq(S)
    PROVE  a \o b \in Seq(S) /\ About(a \o b) = About(a) \union About(b)
<1>1. /\ DOMAIN a = 1..Len(a) /\ DOMAIN b = 1..Len(b) /\ Len(a) \in Nat /\ Len(b) \in Nat
      /\ a \o b \in Seq(S) /\ DOMAIN (a \o b) = 1..Len(a) + Len(b)
      /\ \A i \in 1..Len(a) : (a \o b)[i] = a[i] /\ i \in DOMAIN (a \o b)
      /\ \A i \in 1..Len(b) : (a \o b)[Len(a) + i] = b[i] /\ Len(a) + i \in DOMAIN (a \o b)
  OBVIOUS
<1>2. \A i \in DOMAIN (a \o b) : i \in 1..Len(a) \/ \E k \in 1..Len(b) : i = Len(a) + k
  <2> SUFFICES ASSUME NEW i \in 1..Len(a) + Len(b), i \notin 1..Len(a)
               PROVE  \E k \in 1..Len(b) : i = Len(a) + k
    BY <1>1
  <2>1. i - Len(a) \in 1..Len(b) /\ i = Len(a) + (i - Len(a))
    BY <1>1
  <2> QED
    BY <2>1
<1>3. \A x : x \in About(a \o b) <=> x \in About(a) \/ x \in About(b)
  <2> DEFINE ab == a \o b
  <2>1. /\ DOMAIN a = 1..Len(a) /\ DOMAIN b = 1..Len(b)
        /\ \A i \in 1..Len(a) : ab[i] = a[i] /\ i \in DOMAIN ab
        /\ \A i \in 1..Len(b) : ab[Len(a) + i] = b[i] /\ Len(a) + i \in DOMAIN ab
        /\ \A i \in DOMAIN ab : i \in 1..Len(a) \/ \E k \in 1..Len(b) : i = Len(a) + k
    BY <1>1, <1>2
  <2> HIDE DEF ab
  <2>2. About(ab) = {ab[i].about : i \in DOMAIN ab}
    BY DEF About
  <2>3. \A x : x \in About(ab) <=> x \in About(a) \/ x \in About(b)
    <3> SUFFICES ASSUME NEW x PROVE x \in About(ab) <=> x \in About(a) \/ x \in About(b)
      OBVIOUS
    <3>1. ASSUME x \in About(ab) PROVE x \in About(a) \/ x \in About(b)
      <4>1. PICK i \in DOMAIN ab : x = ab[i].about
        BY <2>2, <3>1
      <4>2. CASE i \in 1..Len(a)
        BY <2>1, <4>1, <4>2 DEF About
      <4>3. ASSUME NEW k \in 1..Len(b), i = Len(a) + k PROVE x \in About(b)
        BY <2>1, <4>1, <4>3 DEF About
      <4> QED
        BY <2>1, <4>2, <4>3
    <3>2. ASSUME x \in About(a) PROVE x \in About(ab)
      BY <2>1, <3>2 DEF About
    <3>3. ASSUME x \in About(b) PROVE x \in About(ab)
      BY <2>1, <3>3 DEF About
    <3> QED
      BY <3>1, <3>2, <3>3
  <2> QED
    BY <2>3 DEF ab
<1> QED
  BY <1>1, <1>3

LEMMA AboutOnly ==
    ASSUME NEW S, NEW c \in BOOLEAN, NEW m \in S
    PROVE  /\ Only(c, m) \in Seq(S)
           /\ About(Only(c, m)) = IF c THEN {m.about} ELSE {}
<1>1. CASE c
  <2>1. /\ Only(c, m) = <<m>> /\ DOMAIN <<m>> = {1} /\ <<m>>[1] = m /\ <<m>> \in Seq(S)
    BY <1>1 DEF Only
  <2>2. About(<<m>>) = {m.about}
    BY <2>1 DEF About
  <2> QED
    BY <1>1, <2>1, <2>2
<1>2. CASE ~c
  <2>1. Only(c, m) = <<>> /\ DOMAIN <<>> = {} /\ <<>> \in Seq(S)
    BY <1>2 DEF Only
  <2>2. About(<<>>) = {}
    BY <2>1 DEF About
  <2> QED
    BY <1>2, <2>1, <2>2
<1> QED
  BY <1>1, <1>2

\* What the prefix and the tail of a request are about.
LEMMA AboutRequest ==
    ASSUME NEW c
    PROVE  /\ "runtime_facts" \in About(Prefix(c) \o DynamicTail)
           /\ "project_instructions" \in About(Prefix(c) \o DynamicTail)
                  <=> c.agents.status \in {"included", "truncated"}
           /\ "skills_slot" \in About(Prefix(c) \o DynamicTail) <=> c.skills # <<>>
           /\ "mcp_slot" \in About(Prefix(c) \o DynamicTail) <=> c.mcp # NoText
           /\ "todo_slot" \in About(Prefix(c) \o DynamicTail) <=> todo # NoText
<1> DEFINE facts == [about |-> "runtime_facts", text |-> c.facts]
           agents == [about |-> "project_instructions", text |-> c.agents.text]
           skills == [about |-> "skills_slot", text |-> c.skills]
           mcp == [about |-> "mcp_slot", text |-> c.mcp]
           list == [about |-> "todo_slot", text |-> todo]
           S == {facts, agents, skills, mcp, list}
           hasAgents == c.agents.status \in {"included", "truncated"}
           a1 == Only(hasAgents, agents)
           a2 == Only(c.skills # <<>>, skills)
           a3 == Only(c.mcp # NoText, mcp)
           a4 == Only(todo # NoText, list)
<1>1. Prefix(c) \o DynamicTail = (((<<facts>> \o a1) \o a2) \o a3) \o a4
  BY DEF Prefix, DynamicTail
<1>2. /\ facts.about = "runtime_facts" /\ agents.about = "project_instructions"
      /\ skills.about = "skills_slot" /\ mcp.about = "mcp_slot" /\ list.about = "todo_slot"
      /\ facts \in S /\ agents \in S /\ skills \in S /\ mcp \in S /\ list \in S
  OBVIOUS
<1> HIDE DEF facts, agents, skills, mcp, list, S
<1>3. <<facts>> \in Seq(S) /\ About(<<facts>>) = {"runtime_facts"}
  <2>1. <<facts>> \in Seq(S) /\ DOMAIN <<facts>> = {1} /\ <<facts>>[1] = facts
    BY <1>2
  <2> QED
    BY <1>2, <2>1 DEF About
<1>4. /\ a1 \in Seq(S) /\ About(a1) = IF hasAgents THEN {"project_instructions"} ELSE {}
      /\ a2 \in Seq(S) /\ About(a2) = IF c.skills # <<>> THEN {"skills_slot"} ELSE {}
      /\ a3 \in Seq(S) /\ About(a3) = IF c.mcp # NoText THEN {"mcp_slot"} ELSE {}
      /\ a4 \in Seq(S) /\ About(a4) = IF todo # NoText THEN {"todo_slot"} ELSE {}
  <2>1. /\ hasAgents \in BOOLEAN /\ (c.skills # <<>>) \in BOOLEAN
        /\ (c.mcp # NoText) \in BOOLEAN /\ (todo # NoText) \in BOOLEAN
    OBVIOUS
  <2> QED
    BY <1>2, <2>1, AboutOnly
<1> HIDE DEF a1, a2, a3, a4
<1> DEFINE b0 == <<facts>>
           b1 == b0 \o a1
           b2 == b1 \o a2
           b3 == b2 \o a3
           b4 == b3 \o a4
<1>5. b0 \in Seq(S) /\ About(b0) = {"runtime_facts"}
  BY <1>3
<1> HIDE DEF b0
<1>6. b1 \in Seq(S) /\ About(b1) = About(b0) \union About(a1)
  BY <1>4, <1>5, AboutJoined
<1> HIDE DEF b1
<1>7. b2 \in Seq(S) /\ About(b2) = About(b1) \union About(a2)
  BY <1>4, <1>6, AboutJoined
<1> HIDE DEF b2
<1>8. b3 \in Seq(S) /\ About(b3) = About(b2) \union About(a3)
  BY <1>4, <1>7, AboutJoined
<1> HIDE DEF b3
<1>9. About(b4) = About(b3) \union About(a4)
  BY <1>4, <1>8, AboutJoined
<1>10. Prefix(c) \o DynamicTail = b4
  BY <1>1 DEF b0, b1, b2, b3
<1> HIDE DEF b4
<1>11. \A x : x \in About(b4) <=> \/ x = "runtime_facts" \/ x \in About(a1) \/ x \in About(a2)
                                  \/ x \in About(a3) \/ x \in About(a4)
  BY <1>5, <1>6, <1>7, <1>8, <1>9
<1>12. /\ \A x : x \in About(a1) <=> hasAgents /\ x = "project_instructions"
       /\ \A x : x \in About(a2) <=> c.skills # <<>> /\ x = "skills_slot"
       /\ \A x : x \in About(a3) <=> c.mcp # NoText /\ x = "mcp_slot"
       /\ \A x : x \in About(a4) <=> todo # NoText /\ x = "todo_slot"
  BY <1>4
<1>13. /\ "runtime_facts" \in About(b4)
       /\ "project_instructions" \in About(b4) <=> hasAgents
       /\ "skills_slot" \in About(b4) <=> c.skills # <<>>
       /\ "mcp_slot" \in About(b4) <=> c.mcp # NoText
       /\ "todo_slot" \in About(b4) <=> todo # NoText
  BY <1>11, <1>12
<1> QED
  BY <1>10, <1>13

\* The request of the moment.
ThisRequest ==
    [prefix |-> Prefix(frozen), history |-> ProjectedHistory, tail |-> DynamicTail,
     tools |-> toolSchemas, toolSchemaChanged |-> toolSchemas # frozen.tools,
     sources |-> ContextSources(frozen, messages), compactions |-> compactSlot]

LEMMA SourcesTrue == SourcesAreTrue(ThisRequest)
<1> DEFINE r == ThisRequest
           src == ContextSources(frozen, messages)
<1>1. r.prefix = Prefix(frozen) /\ r.tail = DynamicTail /\ r.sources = src
  BY DEF ThisRequest
<1>2. /\ src["runtime_facts"] = "included"
      /\ src["project_instructions"] = frozen.agents.status
      /\ src["todo_slot"] = IF todo = NoText THEN "empty" ELSE "included"
      /\ src["mcp_slot"] = IF frozen.mcp # NoText /\ frozen.mcp.tools # {} THEN "included" ELSE "empty"
      /\ src["skills_slot"] =
            CASE frozen.skills = <<>> -> "empty"
              [] \E i \in DOMAIN frozen.skills : frozen.skills[i].truncated -> "truncated"
              [] OTHER -> "included"
  BY DEF ContextSources
<1>3. /\ frozen.skills = <<>> => src["skills_slot"] = "empty"
      /\ frozen.skills # <<>> => src["skills_slot"] \in {"included", "truncated"}
  <2>1. DOMAIN <<>> = {}
    OBVIOUS
  <2> QED
    BY <1>2, <2>1
<1> HIDE DEF r, src
<1> DEFINE sent == About(Prefix(frozen) \o DynamicTail)
           said(k) == src[k] \in {"included", "truncated"}
<1>4. /\ ("runtime_facts" \in sent) = said("runtime_facts")
      /\ ("project_instructions" \in sent) = said("project_instructions")
      /\ ("todo_slot" \in sent) = said("todo_slot")
      /\ ("skills_slot" \in sent) = said("skills_slot")
      /\ ("mcp_slot" \in sent) = said("mcp_slot") \/ frozen.mcp.tools = {}
  <2>1. /\ "runtime_facts" \in sent
        /\ "project_instructions" \in sent <=> frozen.agents.status \in {"included", "truncated"}
        /\ "skills_slot" \in sent <=> frozen.skills # <<>>
        /\ "mcp_slot" \in sent <=> frozen.mcp # NoText
        /\ "todo_slot" \in sent <=> todo # NoText
    BY AboutRequest
  <2> HIDE DEF sent
  <2> QED
    BY <1>2, <1>3, <2>1
<1> QED
  BY <1>1, <1>4 DEF SourcesAreTrue, About, r

-------------------------------------------------------------------------------
(***************************************************************************)
(* The requests of a session                                               *)
(***************************************************************************)
Entry == [role : {"user", "assistant", "tool"}, bytes : Sizes \union {0}, error : BOOLEAN]

\* How a message is sent that is none of the recent ones.
Old(m) ==
    [message |-> m,
     snipped |-> /\ m.role = "tool"
                 /\ m.bytes > IF m.error THEN SnipErrorBytes ELSE SnipBytes]

\* A request made before: it has the prefix, and up to a compaction its older
\* messages are the first ones of the history.
Made(r) ==
    /\ r.prefix = Prefix(frozen)
    /\ r.toolSchemaChanged = (r.tools # frozen.tools)
    /\ SourcesAreTrue(r)
    /\ r.compactions \in Nat /\ r.compactions <= compactSlot
    /\ Len(r.history) \in Nat
    /\ r.compactions = compactSlot =>
          /\ Len(r.history) <= Len(messages)
          /\ \A i \in 1 .. Len(r.history) - RecentMessages : r.history[i] = Old(messages[i])

ContextInv ==
    /\ stage \in {"new", "extended", "started"}
    /\ skillRequest \in SkillRequests
    /\ messages \in Seq(Entry)
    /\ compactSlot \in Nat
    /\ requests \in Seq(ToSet(requests))
    /\ stage # "started" => requests = <<>>
    /\ stage # "new" => SkillsAreAnnounced
    /\ \A r \in ToSet(requests) : Made(r)
    /\ \A i, j \in DOMAIN requests : i < j => SentStaysSent(requests[i], requests[j])

LEMMA ContextBegins == ContextInit => ContextInv
<1> SUFFICES ASSUME ContextInit PROVE ContextInv
  OBVIOUS
<1>1. /\ stage = "new" /\ messages = <<>> /\ requests = <<>> /\ compactSlot = 0
      /\ skillRequest \in SkillRequests
  BY DEF ContextInit
<1>2. <<>> \in Seq(Entry) /\ <<>> \in Seq(ToSet(<<>>)) /\ DOMAIN <<>> = {}
  OBVIOUS
<1> QED
  BY <1>1, <1>2 DEF ContextInv, ToSet

\* A sequence with one element more.
LEMMA OneAfter ==
    ASSUME NEW s, s \in Seq(ToSet(s)), NEW x
    PROVE  /\ Append(s, x) \in Seq(ToSet(Append(s, x)))
           /\ Len(s) \in Nat /\ DOMAIN s = 1..Len(s)
           /\ DOMAIN Append(s, x) = 1..Len(s) + 1
           /\ Append(s, x)[Len(s) + 1] = x
           /\ \A i \in DOMAIN s : Append(s, x)[i] = s[i]
<1> DEFINE S == ToSet(s) \union {x}
<1>1. s \in Seq(S) /\ x \in S
  <2>1. ToSet(s) \subseteq S
    OBVIOUS
  <2>2. Len(s) \in Nat /\ DOMAIN s = 1..Len(s) /\ \A i \in 1..Len(s) : s[i] \in ToSet(s)
    OBVIOUS
  <2> HIDE DEF S
  <2>3. \A i \in 1..Len(s) : s[i] \in S
    BY <2>1, <2>2
  <2>4. s = [i \in 1..Len(s) |-> s[i]]
    BY <2>2
  <2>5. s \in [1..Len(s) -> S]
    BY <2>3, <2>4
  <2>6. s \in Seq(S)
    BY <2>2, <2>5
  <2> QED
    BY <2>6 DEF S
<1> HIDE DEF S
<1>2. /\ Append(s, x) \in Seq(S) /\ Len(s) \in Nat /\ DOMAIN s = 1..Len(s)
      /\ DOMAIN Append(s, x) = 1..Len(s) + 1 /\ Len(Append(s, x)) = Len(s) + 1
      /\ Append(s, x)[Len(s) + 1] = x
      /\ \A i \in DOMAIN s : Append(s, x)[i] = s[i]
  BY <1>1
<1> DEFINE t == Append(s, x)
<1>3. t \in Seq(ToSet(t))
  <2>1. t \in Seq(S) /\ DOMAIN t = 1..Len(t) /\ Len(t) \in Nat
    BY <1>2
  <2> HIDE DEF t
  <2>2. \A i \in 1..Len(t) : t[i] \in ToSet(t)
    BY <2>1 DEF ToSet
  <2>3. t = [i \in 1..Len(t) |-> t[i]]
    BY <2>1
  <2>4. t \in [1..Len(t) -> ToSet(t)]
    BY <2>2, <2>3
  <2> QED
    BY <2>1, <2>4
<1> QED
  BY <1>2, <1>3

\* Nothing of a request changes as long as these stay.
LEMMA MadeStays ==
    ASSUME NEW r, Made(r), frozen' = frozen, messages' = messages, compactSlot' = compactSlot
    PROVE  Made(r)'
<1>1. SourcesAreTrue(r)'
  BY DEF Made, SourcesAreTrue
<1> QED
  BY <1>1 DEF Made

\* A request is made.
LEMMA AssembleContext ==
    ASSUME ContextInv, AssembleStep
    PROVE  ContextInv'
<1> DEFINE new == ThisRequest
           n == Len(requests)
<1>1. /\ stage = "started" /\ stage' = stage /\ requests' = Append(requests, new)
      /\ frozen' = frozen /\ messages' = messages /\ compactSlot' = compactSlot
      /\ skillRequest' = skillRequest /\ activeSkills' = activeSkills
      /\ announced' = announced
  BY DEF AssembleStep, ThisRequest, extended, world
<1>2. SkillsAreAnnounced'
  BY <1>1 DEF ContextInv, SkillsAreAnnounced
<1>3. /\ requests' \in Seq(ToSet(requests')) /\ n \in Nat /\ DOMAIN requests = 1..n
      /\ DOMAIN requests' = 1..n + 1 /\ requests'[n + 1] = new
      /\ \A i \in DOMAIN requests : requests'[i] = requests[i]
  <2> HIDE DEF new
  <2> QED
    BY <1>1, OneAfter DEF ContextInv
<1>4. /\ new.prefix = Prefix(frozen) /\ new.compactions = compactSlot
      /\ new.toolSchemaChanged = (new.tools # frozen.tools)
      /\ new.history = ProjectedHistory
  BY DEF ThisRequest
<1>5. /\ Len(new.history) = Len(messages) /\ Len(messages) \in Nat /\ RecentMessages \in Nat
      /\ \A i \in 1..Len(messages) - RecentMessages : new.history[i] = Old(messages[i])
  <2>1. messages \in Seq(Entry) /\ RecentMessages \in Nat
    BY ContextAssumption DEF ContextInv
  <2> DEFINE h == [i \in DOMAIN messages |-> [message |-> messages[i], snipped |-> Snipped(i)]]
  <2>2. Len(h) = Len(messages) /\ DOMAIN h = 1..Len(messages) /\ Len(messages) \in Nat
    BY <2>1
  <2>3. ASSUME NEW i \in 1..Len(messages) - RecentMessages PROVE h[i] = Old(messages[i])
    <3>1. i \in DOMAIN messages /\ i <= Len(messages) - RecentMessages
      BY <2>1
    <3>2. Snipped(i) = (/\ messages[i].role = "tool"
                        /\ messages[i].bytes > IF messages[i].error THEN SnipErrorBytes ELSE SnipBytes)
      BY <3>1 DEF Snipped
    <3>3. h[i] = [message |-> messages[i], snipped |-> Snipped(i)]
      BY <3>1
    <3> QED
      BY <3>2, <3>3 DEF Old
  <2>4. new.history = h
    BY <1>4 DEF ProjectedHistory
  <2> QED
    BY <2>1, <2>2, <2>3, <2>4
<1>6. SourcesAreTrue(new)
  BY SourcesTrue
<1> HIDE DEF new
<1>7. Made(new)
  BY <1>4, <1>5, <1>6 DEF Made, ContextInv
<1>8. \A r \in ToSet(requests') : Made(r)'
  <2> SUFFICES ASSUME NEW r \in ToSet(requests') PROVE Made(r)'
    OBVIOUS
  <2>1. Made(r)
    BY <1>3, <1>7 DEF ContextInv, ToSet
  <2> QED
    BY <1>1, <2>1, MadeStays
<1>9. ASSUME NEW r, Made(r) PROVE SentStaysSent(r, new)
  BY <1>4, <1>5, <1>9 DEF Made, SentStaysSent
<1>10. \A i, j \in DOMAIN requests' : i < j => SentStaysSent(requests'[i], requests'[j])
  <2> SUFFICES ASSUME NEW i \in DOMAIN requests', NEW j \in DOMAIN requests', i < j
               PROVE  SentStaysSent(requests'[i], requests'[j])
    OBVIOUS
  <2>1. i \in DOMAIN requests /\ requests'[i] = requests[i]
    BY <1>3
  <2>2. CASE j = n + 1
    <3>1. Made(requests[i])
      BY <2>1 DEF ContextInv, ToSet
    <3> QED
      BY <1>3, <1>9, <2>1, <2>2, <3>1
  <2>3. CASE j # n + 1
    <3>1. j \in DOMAIN requests /\ requests'[j] = requests[j]
      BY <1>3, <2>3
    <3> QED
      BY <2>1, <3>1 DEF ContextInv
  <2> QED
    BY <2>2, <2>3
<1> QED
  BY <1>1, <1>2, <1>3, <1>8, <1>10 DEF ContextInv

LEMMA GrowContext == ASSUME ContextInv, Grow PROVE ContextInv'
<1>1. /\ stage = "started" /\ UNCHANGED <<stage, frozen, compactSlot, requests>>
      /\ UNCHANGED <<skillRequest, activeSkills, announced>>
      /\ \E e \in Entry : messages' = Append(messages, e)
  BY DEF Grow, extended, Entry
<1>2. PICK e \in Entry : messages' = Append(messages, e)
  BY <1>1
<1>3. messages \in Seq(Entry)
  BY DEF ContextInv
<1>4. /\ messages' \in Seq(Entry) /\ Len(messages') = Len(messages) + 1
      /\ Len(messages) \in Nat
      /\ \A i \in 1..Len(messages) : messages'[i] = messages[i]
  BY <1>2, <1>3
<1>5. SkillsAreAnnounced'
  BY <1>1 DEF ContextInv, SkillsAreAnnounced
<1>6. \A r \in ToSet(requests) : Made(r)'
  <2> SUFFICES ASSUME NEW r \in ToSet(requests) PROVE Made(r)'
    OBVIOUS
  <2>1. Made(r)
    BY DEF ContextInv
  <2>2. SourcesAreTrue(r)'
    BY <1>1, <2>1 DEF Made, SourcesAreTrue
  <2>3. r.compactions = compactSlot =>
           /\ Len(r.history) <= Len(messages')
           /\ \A i \in 1 .. Len(r.history) - RecentMessages : r.history[i] = Old(messages'[i])
    <3> SUFFICES ASSUME r.compactions = compactSlot
                 PROVE  /\ Len(r.history) <= Len(messages')
                        /\ \A i \in 1 .. Len(r.history) - RecentMessages :
                              r.history[i] = Old(messages'[i])
      OBVIOUS
    <3>1. /\ Len(r.history) \in Nat /\ Len(r.history) <= Len(messages)
          /\ \A i \in 1 .. Len(r.history) - RecentMessages : r.history[i] = Old(messages[i])
      BY <2>1 DEF Made
    <3>2. RecentMessages \in Nat
      BY ContextAssumption
    <3>3. \A i \in 1 .. Len(r.history) - RecentMessages : i \in 1..Len(messages)
      BY <1>4, <3>1, <3>2
    <3> QED
      BY <1>4, <3>1, <3>3
  <2> QED
    BY <1>1, <2>1, <2>2, <2>3 DEF Made, Old
<1> QED
  BY <1>1, <1>4, <1>5, <1>6 DEF ContextInv

LEMMA CompactContext == ASSUME ContextInv, Compact PROVE ContextInv'
<1>1. /\ stage = "started" /\ UNCHANGED <<stage, frozen, requests>>
      /\ UNCHANGED <<skillRequest, activeSkills, announced>>
      /\ compactSlot' = compactSlot + 1
      /\ Summarized(messages, RecentMessages) # <<>>
      /\ messages' = <<[role |-> "user", bytes |-> 0, error |-> FALSE]>>
                         \o KeptTail(messages, RecentMessages)
  BY DEF Compact, extended, world
<1>2. messages \in Seq(Entry) /\ RecentMessages \in Nat /\ compactSlot \in Nat
  BY ContextAssumption DEF ContextInv
<1>3. messages # <<>>
  <2> SUFFICES ASSUME messages = <<>> PROVE FALSE
    OBVIOUS
  <2>1. Len(<<>>) = 0 /\ ~(RecentMessages < 0)
    BY <1>2
  <2>2. TailStart(<<>>, RecentMessages) = 1
    BY <2>1 DEF TailStart
  <2>3. SubSeq(<<>>, 1, 1 - 1) = <<>>
    OBVIOUS
  <2> QED
    BY <1>1, <2>2, <2>3 DEF Summarized
<1>4. KeptTail(messages, RecentMessages) \in Seq(Entry)
  <2> DEFINE i == TailStart(messages, RecentMessages)
  <2>1. i \in 1..Len(messages)
    BY <1>2, <1>3, TailStartOfAny
  <2> HIDE DEF i
  <2>2. SubSeq(messages, i, Len(messages)) \in Seq(Entry)
    BY <1>2, <2>1
  <2> QED
    BY <2>2 DEF KeptTail, i
<1>5. messages' \in Seq(Entry)
  <2> DEFINE summary == [role |-> "user", bytes |-> 0, error |-> FALSE]
             tail == KeptTail(messages, RecentMessages)
  <2>1. summary \in Entry
    BY DEF Entry
  <2>2. messages' = <<summary>> \o tail /\ tail \in Seq(Entry)
    BY <1>1, <1>4
  <2> HIDE DEF summary, tail
  <2> QED
    BY <2>1, <2>2
<1>6. SkillsAreAnnounced'
  BY <1>1 DEF ContextInv, SkillsAreAnnounced
<1>7. \A r \in ToSet(requests) : Made(r)'
  <2> SUFFICES ASSUME NEW r \in ToSet(requests) PROVE Made(r)'
    OBVIOUS
  <2>1. Made(r)
    BY DEF ContextInv
  <2>2. SourcesAreTrue(r)'
    BY <1>1, <2>1 DEF Made, SourcesAreTrue
  <2>3. r.compactions \in Nat /\ r.compactions <= compactSlot' /\ r.compactions # compactSlot'
    BY <1>1, <1>2, <2>1 DEF Made
  <2> QED
    BY <1>1, <2>1, <2>2, <2>3 DEF Made
<1>8. compactSlot' \in Nat
  BY <1>1, <1>2
<1> QED
  BY <1>1, <1>5, <1>6, <1>7, <1>8 DEF ContextInv

\* The world, or nothing, changes.
LEMMA WorldContext ==
    ASSUME ContextInv,
           UNCHANGED <<stage, extended, frozen, compactSlot, messages, requests>>
    PROVE  ContextInv'
<1>1. UNCHANGED <<skillRequest, activeSkills, announced>>
  BY DEF extended
<1>2. SkillsAreAnnounced' \/ stage' = "new"
  BY <1>1 DEF ContextInv, SkillsAreAnnounced
<1>3. \A r \in ToSet(requests) : Made(r)'
  BY MadeStays DEF ContextInv
<1> QED
  BY <1>1, <1>2, <1>3 DEF ContextInv

LEMMA InitializeContext == ASSUME ContextInv, Initialize PROVE ContextInv'
<1>1. /\ stage = "extended" /\ stage' = "started" /\ requests = <<>>
      /\ UNCHANGED <<compactSlot, messages, requests>>
      /\ UNCHANGED <<skillRequest, activeSkills, announced>>
  BY DEF Initialize, extended, ContextInv
<1>2. SkillsAreAnnounced'
  BY <1>1 DEF ContextInv, SkillsAreAnnounced
<1>3. requests' = <<>> /\ ToSet(<<>>) = {} /\ DOMAIN <<>> = {}
  BY <1>1 DEF ToSet
<1> QED
  BY <1>1, <1>2, <1>3 DEF ContextInv

LEMMA ExtendContext == ASSUME ContextInv, InitializeExtensions PROVE ContextInv'
<1>1. /\ stage = "new" /\ stage' = "extended" /\ requests = <<>>
      /\ UNCHANGED <<compactSlot, messages, requests, skillRequest>>
      /\ activeSkills' = Active(Loaded(skillRequest.dirs), skillRequest.enabled)
      /\ announced' = Announced(skillRequest, activeSkills')
      /\ skillRequest \in SkillRequests
  BY DEF InitializeExtensions, ContextInv
<1>2. AnnouncedRight(skillRequest, activeSkills', announced')
  BY <1>1, SkillsTold
<1>3. SkillsAreAnnounced'
  BY <1>1, <1>2 DEF SkillsAreAnnounced, AnnouncedRight
<1>4. requests' = <<>> /\ ToSet(<<>>) = {} /\ DOMAIN <<>> = {}
  BY <1>1 DEF ToSet
<1> QED
  BY <1>1, <1>3, <1>4 DEF ContextInv

\* What a provider has been sent stays as it was, the sources say what is sent,
\* and every skill that was asked for is told of (ContextAssembler.ts:111-241,
\* AgentSession.ts:345-397).
THEOREM StableRequests == ContextSpec => []RequestsAreStable
<1>1. ContextInv /\ [ContextNext]_contextVars => ContextInv'
  <2> SUFFICES ASSUME ContextInv, [ContextNext]_contextVars PROVE ContextInv'
    OBVIOUS
  <2>1. CASE InitializeExtensions
    BY <2>1, ExtendContext
  <2>2. CASE Initialize
    BY <2>2, InitializeContext
  <2>3. CASE AssembleStep
    BY <2>3, AssembleContext
  <2>4. CASE Grow
    BY <2>4, GrowContext
  <2>5. CASE Compact
    BY <2>5, CompactContext
  <2>6. CASE WorldMoves
    BY <2>6, WorldContext DEF WorldMoves
  <2>7. CASE UNCHANGED contextVars
    BY <2>7, WorldContext DEF contextVars, extended
  <2> QED
    BY <2>1, <2>2, <2>3, <2>4, <2>5, <2>6, <2>7 DEF ContextNext
<1>2. ContextInv => RequestsAreStable
  BY DEF ContextInv, RequestsAreStable, Made, ToSet
<1> QED
  BY <1>1, <1>2, ContextBegins, PTL DEF ContextSpec

-------------------------------------------------------------------------------
(***************************************************************************)
(* The command line                                                        *)
(***************************************************************************)
\* What parseCliArgs has read so far.
Modes == Commands \union {"help", "dry-run", "repl"}
Given == (ValueFlags \union {"profile"}) \X CliWords
Args == [mode : Modes \union {NoSetting}, wants : ValueFlags \union {"resume", "profile", NoSetting},
         on : SUBSET (SwitchFlags \union {"--sandbox"}), values : Seq(Given),
         resume : CliWords \union {"last", NoSetting}, index : Nat, error : BOOLEAN]

\* A session to resume is named, and no value is empty.
Named(s) ==
    /\ s.mode = "resume" => s.resume # NoSetting
    /\ \A i \in DOMAIN s.values : s.values[i][2] # ""

LEMMA StartIsArgs == StartOfArgs \in Args /\ Named(StartOfArgs)
<1>1. <<>> \in Seq(Given) /\ DOMAIN <<>> = {}
  OBVIOUS
<1>2. NoSetting # "resume"
  BY SettingsAssumption
<1> HIDE DEF Given
<1> QED
  BY <1>1, <1>2 DEF StartOfArgs, Args, Named

\* What each field of the state holds.
LEMMA ArgFields ==
    ASSUME NEW s \in Args
    PROVE  /\ s.mode \in Modes \union {NoSetting}
           /\ s.wants \in ValueFlags \union {"resume", "profile", NoSetting}
           /\ s.on \in SUBSET (SwitchFlags \union {"--sandbox"}) /\ s.values \in Seq(Given)
           /\ s.resume \in CliWords \union {"last", NoSetting}
           /\ s.index \in Nat /\ s.error \in BOOLEAN
BY DEF Args

\* One value more.
LEMMA OneValue ==
    ASSUME NEW v \in Seq(Given), NEW g \in Given
    PROVE  /\ Append(v, g) \in Seq(Given)
           /\ g[2] # "" /\ (\A i \in DOMAIN v : v[i][2] # "") =>
                 \A i \in DOMAIN Append(v, g) : Append(v, g)[i][2] # ""
<1> HIDE DEF Given
<1>1. /\ Append(v, g) \in Seq(Given) /\ DOMAIN Append(v, g) = DOMAIN v \union {Len(v) + 1}
      /\ Append(v, g)[Len(v) + 1] = g
      /\ \A i \in DOMAIN v : Append(v, g)[i] = v[i]
  OBVIOUS
<1> QED
  BY <1>1

\* A step of the reading: what it keeps, and where doctor and --sandbox come from.
Reads(s, t, word) ==
    /\ t \in Args /\ t.index = s.index
    /\ Named(s) => Named(t)
    /\ t.mode = "doctor" => s.mode = "doctor" \/ (s.index = 1 /\ word = "doctor")
    /\ "--sandbox" \in t.on => "--sandbox" \in s.on \/ s.mode = "doctor"

LEMMA ReadsWord ==
    ASSUME NEW s \in Args, NEW word \in CliWords
    PROVE  Reads(s, TakeWord(s, word), word)
<1> DEFINE t == TakeWord(s, word)
<1> SUFFICES Reads(s, t, word)
  OBVIOUS
<1>1. /\ s.mode \in Modes \union {NoSetting}
      /\ s.wants \in ValueFlags \union {"resume", "profile", NoSetting}
      /\ s.on \in SUBSET (SwitchFlags \union {"--sandbox"}) /\ s.values \in Seq(Given)
      /\ s.resume \in CliWords \union {"last", NoSetting}
      /\ s.index \in Nat /\ s.error \in BOOLEAN
  BY ArgFields
<1>2. "last" # NoSetting /\ "resume" # NoSetting /\ "doctor" # NoSetting
  BY SettingsAssumption
<1>3. s = [mode |-> s.mode, wants |-> s.wants, on |-> s.on, values |-> s.values,
           resume |-> s.resume, index |-> s.index, error |-> s.error]
  BY DEF Args
<1> HIDE DEF Given
<1>4. CASE s.index = 1 /\ word \in Commands
  <2>1. t = [s EXCEPT !.mode = word, !.resume = IF word = "resume" THEN "last" ELSE @,
                      !.wants = IF word \in {"resume", "profile"} THEN word ELSE @]
    BY <1>4 DEF TakeWord, Commands, ModeFlags, SwitchFlags, ValueFlags
  <2> DEFINE r == IF word = "resume" THEN "last" ELSE s.resume
             w == IF word \in {"resume", "profile"} THEN word ELSE s.wants
  <2>2. t = [mode |-> word, wants |-> w, on |-> s.on, values |-> s.values,
             resume |-> r, index |-> s.index, error |-> s.error]
    BY <1>3, <2>1
  <2>3. r \in CliWords \union {"last", NoSetting} /\ (word = "resume" => r # NoSetting)
        /\ w \in ValueFlags \union {"resume", "profile", NoSetting}
    BY <1>1, <1>2
  <2>4. word \in Modes
    BY <1>4 DEF Modes
  <2> HIDE DEF t, r, w
  <2> QED
    BY <1>1, <1>4, <2>2, <2>3, <2>4 DEF Reads, Args, Named
<1>5. CASE ~(s.index = 1 /\ word \in Commands) /\ word \in DOMAIN ModeFlags
  <2>1. t = [s EXCEPT !.mode = ModeFlags[word]]
    BY <1>5 DEF TakeWord, ModeFlags, SwitchFlags, ValueFlags
  <2>2. ModeFlags[word] \in {"help", "dry-run", "repl"}
    BY <1>5 DEF ModeFlags
  <2> DEFINE m == ModeFlags[word]
  <2> HIDE DEF m
  <2>3. t = [mode |-> m, wants |-> s.wants, on |-> s.on, values |-> s.values,
             resume |-> s.resume, index |-> s.index, error |-> s.error]
    BY <1>3, <2>1 DEF m
  <2>4. m \in Modes /\ m # "doctor" /\ m # "resume"
    BY <2>2 DEF m, Modes
  <2> HIDE DEF t
  <2> QED
    BY <1>1, <2>3, <2>4 DEF Reads, Args, Named
<1>6. CASE ~(s.index = 1 /\ word \in Commands) /\ word \in SwitchFlags
  <2>1. t = [s EXCEPT !.on = @ \union {word}] /\ word # "--sandbox"
    BY <1>6 DEF TakeWord, ModeFlags, SwitchFlags, ValueFlags
  <2> DEFINE on == s.on \union {word}
  <2>2. t = [mode |-> s.mode, wants |-> s.wants, on |-> on, values |-> s.values,
             resume |-> s.resume, index |-> s.index, error |-> s.error]
    BY <1>3, <2>1
  <2>3. on \in SUBSET (SwitchFlags \union {"--sandbox"}) /\ ("--sandbox" \in on => "--sandbox" \in s.on)
    BY <1>1, <1>6, <2>1
  <2> HIDE DEF t, on
  <2> QED
    BY <1>1, <2>2, <2>3 DEF Reads, Args, Named
<1>7. CASE ~(s.index = 1 /\ word \in Commands) /\ word \in ValueFlags
  <2>1. t = [s EXCEPT !.wants = word]
    BY <1>7 DEF TakeWord, ModeFlags, SwitchFlags, ValueFlags
  <2>2. t = [mode |-> s.mode, wants |-> word, on |-> s.on, values |-> s.values,
             resume |-> s.resume, index |-> s.index, error |-> s.error]
    BY <1>3, <2>1
  <2> HIDE DEF t
  <2> QED
    BY <1>1, <1>7, <2>2 DEF Reads, Args, Named
<1>8. CASE word = "--sandbox" /\ s.mode = "doctor"
  <2>1. t = [s EXCEPT !.on = @ \union {word}]
    BY <1>8 DEF TakeWord, Commands, ModeFlags, SwitchFlags, ValueFlags
  <2>2. t = [mode |-> s.mode, wants |-> s.wants, on |-> s.on \union {word}, values |-> s.values,
             resume |-> s.resume, index |-> s.index, error |-> s.error]
    BY <1>3, <2>1
  <2> HIDE DEF t
  <2> QED
    BY <1>1, <1>8, <2>2 DEF Reads, Args, Named
<1>9. CASE word = "--last" /\ s.mode = "resume"
  <2>1. t = [s EXCEPT !.resume = "last"]
    BY <1>9 DEF TakeWord, Commands, ModeFlags, SwitchFlags, ValueFlags
  <2>2. t = [mode |-> s.mode, wants |-> s.wants, on |-> s.on, values |-> s.values,
             resume |-> "last", index |-> s.index, error |-> s.error]
    BY <1>3, <2>1
  <2> HIDE DEF t
  <2> QED
    BY <1>1, <1>2, <2>2 DEF Reads, Args, Named
<1>10. CASE /\ ~(s.index = 1 /\ word \in Commands) /\ word \notin DOMAIN ModeFlags
            /\ word \notin SwitchFlags /\ word \notin ValueFlags
            /\ ~(word = "--sandbox" /\ s.mode = "doctor") /\ ~(word = "--last" /\ s.mode = "resume")
  <2>1. t = [s EXCEPT !.error = TRUE]
    BY <1>10 DEF TakeWord, Failed
  <2>2. t = [mode |-> s.mode, wants |-> s.wants, on |-> s.on, values |-> s.values,
             resume |-> s.resume, index |-> s.index, error |-> TRUE]
    BY <1>3, <2>1
  <2> HIDE DEF t
  <2> QED
    BY <1>1, <2>2 DEF Reads, Args, Named
<1> QED
  BY <1>4, <1>5, <1>6, <1>7, <1>8, <1>9, <1>10

\* A value of a flag.
LEMMA ReadsValue ==
    ASSUME NEW s \in Args, NEW word \in CliWords, s.wants \in ValueFlags
    PROVE  Reads(s, TakeValue(s, word), word)
<1> DEFINE t == TakeValue(s, word)
<1> SUFFICES Reads(s, t, word)
  OBVIOUS
<1>1. /\ s.mode \in Modes \union {NoSetting}
      /\ s.wants \in ValueFlags \union {"resume", "profile", NoSetting}
      /\ s.on \in SUBSET (SwitchFlags \union {"--sandbox"}) /\ s.values \in Seq(Given)
      /\ s.resume \in CliWords \union {"last", NoSetting}
      /\ s.index \in Nat /\ s.error \in BOOLEAN
  BY ArgFields
<1>2. s = [mode |-> s.mode, wants |-> s.wants, on |-> s.on, values |-> s.values,
           resume |-> s.resume, index |-> s.index, error |-> s.error]
  BY DEF Args
<1>3. <<s.wants, word>> \in Given /\ <<s.wants, word>>[2] = word
  BY DEF Given
<1> HIDE DEF Given
<1>4. CASE word = "" \/ (s.wants = "--max-steps" /\ word \notin PositiveIntegers)
  <2>1. t = [s EXCEPT !.error = TRUE]
    BY <1>4 DEF TakeValue, Failed
  <2>2. t = [mode |-> s.mode, wants |-> s.wants, on |-> s.on, values |-> s.values,
             resume |-> s.resume, index |-> s.index, error |-> TRUE]
    BY <1>2, <2>1
  <2> HIDE DEF t
  <2> QED
    BY <1>1, <2>2 DEF Reads, Args, Named
<1>5. CASE ~(word = "" \/ (s.wants = "--max-steps" /\ word \notin PositiveIntegers))
  <2> DEFINE v == Append(s.values, <<s.wants, word>>)
  <2>1. t = [s EXCEPT !.values = v, !.wants = NoSetting] /\ word # ""
    BY <1>5 DEF TakeValue
  <2>2. v \in Seq(Given)
        /\ ((\A i \in DOMAIN s.values : s.values[i][2] # "") => \A i \in DOMAIN v : v[i][2] # "")
    BY <1>1, <1>3, <2>1, OneValue
  <2> HIDE DEF v
  <2>3. t = [mode |-> s.mode, wants |-> NoSetting, on |-> s.on, values |-> v,
             resume |-> s.resume, index |-> s.index, error |-> s.error]
    BY <1>2, <2>1
  <2> HIDE DEF t
  <2> QED
    BY <1>1, <2>2, <2>3 DEF Reads, Args, Named
<1> QED
  BY <1>4, <1>5

\* The next word.
NextWord(s) == [s EXCEPT !.index = @ + 1]

LEMMA ReadsNext ==
    ASSUME NEW p \in Args, NEW word \in CliWords
    PROVE  /\ NextWord(p) \in Args /\ NextWord(p).index = p.index + 1
           /\ NextWord(p).mode = p.mode /\ NextWord(p).on = p.on
           /\ Named(p) => Named(NextWord(p))
           /\ Reads(NextWord(p), ParseWord(p, word), word)
<1> DEFINE s == NextWord(p)
           t == ParseWord(p, word)
<1>1. /\ s = [mode |-> p.mode, wants |-> p.wants, on |-> p.on, values |-> p.values,
              resume |-> p.resume, index |-> p.index + 1, error |-> p.error]
      /\ p.index + 1 \in Nat
  BY DEF NextWord, Args
<1>2. /\ s \in Args /\ s.index = p.index + 1
      /\ s.mode = p.mode /\ s.on = p.on /\ s.values = p.values /\ s.resume = p.resume
  <2> HIDE DEF s, Given
  <2> QED
    BY <1>1 DEF Args
<1>3. Named(p) => Named(s)
  BY <1>2 DEF Named
<1>4. t = IF s.error THEN s
          ELSE IF s.wants \in {"resume", "profile"}
          THEN IF word = "" \/ IsFlag(word) THEN TakeWord([s EXCEPT !.wants = NoSetting], word)
               ELSE IF s.wants = "resume" THEN [[s EXCEPT !.wants = NoSetting] EXCEPT !.resume = word]
               ELSE [[s EXCEPT !.wants = NoSetting] EXCEPT !.values = Append(@, <<"profile", word>>)]
          ELSE IF s.wants # NoSetting THEN TakeValue(s, word)
          ELSE TakeWord(s, word)
  BY DEF ParseWord, NextWord
<1> HIDE DEF s, t
<1>5. /\ s.mode \in Modes \union {NoSetting}
      /\ s.wants \in ValueFlags \union {"resume", "profile", NoSetting}
      /\ s.on \in SUBSET (SwitchFlags \union {"--sandbox"}) /\ s.values \in Seq(Given)
      /\ s.resume \in CliWords \union {"last", NoSetting}
      /\ s.index \in Nat /\ s.error \in BOOLEAN
  BY <1>2, ArgFields
<1>6. word # NoSetting
  BY SettingsAssumption
<1> DEFINE free == [s EXCEPT !.wants = NoSetting]
<1>7. free = [mode |-> s.mode, wants |-> NoSetting, on |-> s.on, values |-> s.values,
              resume |-> s.resume, index |-> s.index, error |-> s.error]
  BY <1>2 DEF Args
<1> HIDE DEF free, Given
<1>8. /\ free \in Args /\ free.index = s.index /\ free.mode = s.mode /\ free.on = s.on
      /\ Named(s) => Named(free)
  BY <1>5, <1>7 DEF Args, Named
<1>9. Reads(s, t, word)
  <2>1. CASE s.error
    BY <1>2, <1>4, <2>1 DEF Reads
  <2>2. CASE ~s.error /\ s.wants \in {"resume", "profile"} /\ (word = "" \/ IsFlag(word))
    <3>1. t = TakeWord(free, word)
      BY <1>4, <2>2 DEF free
    <3>2. Reads(free, TakeWord(free, word), word)
      BY <1>8, ReadsWord
    <3> QED
      BY <1>8, <3>1, <3>2 DEF Reads
  <2>3. CASE ~s.error /\ s.wants = "resume" /\ ~(word = "" \/ IsFlag(word))
    <3>1. t = [free EXCEPT !.resume = word]
      BY <1>4, <2>3 DEF free
    <3>2. t = [mode |-> s.mode, wants |-> NoSetting, on |-> s.on, values |-> s.values,
               resume |-> word, index |-> s.index, error |-> s.error]
      BY <1>7, <3>1
    <3> QED
      BY <1>5, <1>6, <3>2 DEF Reads, Args, Named
  <2>4. CASE ~s.error /\ s.wants = "profile" /\ ~(word = "" \/ IsFlag(word))
    <3> DEFINE v == Append(s.values, <<"profile", word>>)
    <3>1. t = [free EXCEPT !.values = v]
      BY <1>4, <1>7, <2>4 DEF free
    <3>2. <<"profile", word>> \in Given /\ <<"profile", word>>[2] = word /\ word # ""
      BY <2>4 DEF Given
    <3>3. v \in Seq(Given)
          /\ ((\A i \in DOMAIN s.values : s.values[i][2] # "") => \A i \in DOMAIN v : v[i][2] # "")
      BY <1>5, <3>2, OneValue
    <3> HIDE DEF v
    <3>4. t = [mode |-> s.mode, wants |-> NoSetting, on |-> s.on, values |-> v,
               resume |-> s.resume, index |-> s.index, error |-> s.error]
      BY <1>7, <3>1
    <3> QED
      BY <1>5, <3>3, <3>4 DEF Reads, Args, Named
  <2>5. CASE ~s.error /\ s.wants \notin {"resume", "profile"} /\ s.wants # NoSetting
    <3>1. t = TakeValue(s, word) /\ s.wants \in ValueFlags
      BY <1>4, <1>5, <2>5
    <3> QED
      BY <1>2, <3>1, ReadsValue
  <2>6. CASE ~s.error /\ s.wants \notin {"resume", "profile"} /\ s.wants = NoSetting
    <3>1. t = TakeWord(s, word)
      BY <1>4, <2>6
    <3> QED
      BY <1>2, <3>1, ReadsWord
  <2> QED
    BY <2>1, <2>2, <2>3, <2>4, <2>5, <2>6
<1> QED
  BY <1>2, <1>3, <1>9 DEF s, t

LEMMA ParseTypes ==
    [p \in Args \X CliWords |-> ParseWord(p[1], p[2])] \in [Args \X CliWords -> Args]
<1>1. \A a \in Args, word \in CliWords : ParseWord(a, word) \in Args
  BY ReadsNext DEF Reads
<1> HIDE DEF Args
<1> QED
  BY <1>1

\* ParseWord reads one word after the other.
LEMMA ParseFold ==
    ASSUME NEW s \in Seq(CliWords)
    PROVE  \E w : /\ w[0] = StartOfArgs /\ w[Len(s)] = ParseCliArgs(s)
                  /\ \A k \in 0..Len(s) - 1 : w[k + 1] = ParseWord(w[k], s[k + 1])
<1> DEFINE n == Len(s)
           Items == CliWords
           f == [p \in Args \X Items |-> ParseWord(p[1], p[2])]
           F(g) == g = [u \in SUBSET DOMAIN s |->
                           IF u = {} THEN StartOfArgs ELSE ParseWord(g[u \ {Max(u)}], s[Max(u)])]
<1>1. n \in Nat /\ DOMAIN s = 1..n /\ \A i \in 1..n : s[i] \in Items
  OBVIOUS
<1>2. f \in [Args \X Items -> Args]
  BY ParseTypes
<1>3. ParseCliArgs(s) = (CHOOSE g : F(g))[DOMAIN s]
  BY DEF ParseCliArgs, FoldLeft, MapThenFoldSet
<1>4. \E g : F(g)
  <2>1. StartOfArgs \in Args
    BY StartIsArgs
  <2> HIDE DEF f, Items
  <2>2. PICK g : FoldBy(f, g, s, StartOfArgs) /\ FoldIn(Args, Items, g, s)
    <3>1. s \in Seq(Items)
      BY DEF Items
    <3> QED
      BY <1>2, <2>1, <3>1, TypedFold
  <2>3. \A a \in Args, e \in Items : f[<<a, e>>] = ParseWord(a, e)
    BY DEF f
  <2>4. \A u \in SUBSET DOMAIN s : u # {} =>
           f[<<g[u \ {Max(u)}], s[Max(u)]>>] = ParseWord(g[u \ {Max(u)}], s[Max(u)])
    BY <2>2, <2>3 DEF FoldIn
  <2>5. F(g)
    BY <2>2, <2>4 DEF FoldBy
  <2> QED
    BY <2>5
<1> HIDE DEF F
<1>5. PICK g : F(g) /\ ParseCliArgs(s) = g[1..n]
  BY <1>1, <1>3, <1>4
<1> HIDE DEF n
<1>6. g[{}] = StartOfArgs
      /\ \A u \in SUBSET (1..n) : u # {} => g[u] = ParseWord(g[u \ {Max(u)}], s[Max(u)])
  BY <1>1, <1>5 DEF F
<1>7. g[1..0] = StartOfArgs
  BY <1>1, <1>6, OneIndexMore
<1>8. ASSUME NEW k \in 0..n - 1 PROVE g[1..k + 1] = ParseWord(g[1..k], s[k + 1])
  <2> DEFINE u == 1..k + 1
  <2>1. u \in SUBSET (1..n) /\ u # {} /\ Max(u) = k + 1 /\ u \ {k + 1} = 1..k
    BY <1>1, OneIndexMore
  <2> HIDE DEF u
  <2>2. g[u] = ParseWord(g[1..k], s[k + 1])
    BY <1>6, <2>1
  <2> QED
    BY <2>2 DEF u
<1> DEFINE w == [k \in 0..n |-> g[1..k]]
<1>9. /\ w[0] = g[1..0] /\ w[n] = g[1..n]
      /\ \A k \in 0..n - 1 : w[k] = g[1..k] /\ w[k + 1] = g[1..k + 1]
  BY <1>1
<1> HIDE DEF w
<1>10. w[0] = StartOfArgs /\ w[n] = ParseCliArgs(s)
      /\ \A k \in 0..n - 1 : w[k + 1] = ParseWord(w[k], s[k + 1])
  BY <1>5, <1>7, <1>8, <1>9
<1> QED
  BY <1>10 DEF n

\* What a command line read to its end shows of its words.
LEMMA ParsedFacts ==
    ASSUME NEW s \in Seq(CliWords)
    PROVE  LET args == ParseCliArgs(s)
           IN  /\ args \in Args /\ Named(args)
               /\ args.mode = "doctor" \/ "--sandbox" \in args.on => s[1] = "doctor"
<1> DEFINE n == Len(s)
<1>1. n \in Nat /\ \A i \in 1..n : s[i] \in CliWords
  OBVIOUS
<1>2. PICK w : /\ w[0] = StartOfArgs /\ w[n] = ParseCliArgs(s)
               /\ \A k \in 0..n - 1 : w[k + 1] = ParseWord(w[k], s[k + 1])
  BY ParseFold
<1> HIDE DEF n
<1> DEFINE Right(k) ==
              /\ w[k] \in Args /\ Named(w[k]) /\ w[k].index = k
              /\ w[k].mode = "doctor" \/ "--sandbox" \in w[k].on => s[1] = "doctor"
           T == {k \in 0..n : Right(k)}
<1>3. 0 \in T
  <2>1. w[0] \in Args /\ Named(w[0])
    BY <1>2, StartIsArgs
  <2>2. w[0].index = 0 /\ w[0].mode # "doctor" /\ w[0].on = {}
    BY <1>2, SettingsAssumption DEF StartOfArgs
  <2> QED
    BY <1>1, <2>1, <2>2
<1>4. ASSUME NEW k \in 0..n - 1, k \in T PROVE k + 1 \in T
  <2>1. k \in Nat /\ k + 1 \in 0..n /\ k + 1 \in 1..n
    BY <1>1
  <2>2. Right(k)
    BY <1>4
  <2> DEFINE p == w[k]
             word == s[k + 1]
             t == w[k + 1]
  <2>3. t = ParseWord(p, word) /\ word \in CliWords /\ p \in Args
    BY <1>1, <1>2, <2>1, <2>2
  <2>4. p.index = k /\ Named(p) /\ (p.mode = "doctor" \/ "--sandbox" \in p.on => s[1] = "doctor")
    BY <2>2
  <2>5. k + 1 = 1 => word = s[1]
    OBVIOUS
  <2> HIDE DEF p, word, t
  <2>6. /\ NextWord(p).index = p.index + 1 /\ NextWord(p).mode = p.mode /\ NextWord(p).on = p.on
        /\ Named(p) => Named(NextWord(p))
        /\ Reads(NextWord(p), t, word)
    BY <2>3, ReadsNext
  <2>7. /\ t \in Args /\ Named(t) /\ t.index = k + 1
        /\ t.mode = "doctor" \/ "--sandbox" \in t.on => s[1] = "doctor"
    BY <2>4, <2>5, <2>6 DEF Reads
  <2>8. Right(k + 1)
    BY <2>7 DEF t
  <2> QED
    BY <2>1, <2>8
<1>5. n \in T
  <2>1. n \in 0..n
    BY <1>1
  <2> HIDE DEF T
  <2> QED
    BY <1>1, <1>3, <1>4, <2>1, UpTo
<1> QED
  BY <1>2, <1>5

LEMMA CompleteCommands ==
    ASSUME cliWords \in Seq(CliWords) PROVE CommandsAreComplete
<1> DEFINE args == ParseCliArgs(cliWords)
<1>1. /\ args \in Args /\ Named(args)
      /\ args.mode = "doctor" \/ "--sandbox" \in args.on => cliWords[1] = "doctor"
  BY ParsedFacts
<1> HIDE DEF args
<1>2. args.mode \in Modes \union {NoSetting}
  BY <1>1, ArgFields
<1> DEFINE outputs == args.on \intersect {"--json", "--output-json", "--json-events"}
<1>3. Cardinality(outputs) \in Nat
  <2>1. IsFiniteSet({"--json", "--output-json", "--json-events"})
    <3>1. IsFiniteSet({})
      BY FS_EmptySet
    <3>2. IsFiniteSet({} \union {"--json"})
      BY <3>1, FS_AddElement
    <3>3. IsFiniteSet(({} \union {"--json"}) \union {"--output-json"})
      BY <3>2, FS_AddElement
    <3>4. IsFiniteSet((({} \union {"--json"}) \union {"--output-json"}) \union {"--json-events"})
      BY <3>3, FS_AddElement
    <3>5. (({} \union {"--json"}) \union {"--output-json"}) \union {"--json-events"}
             = {"--json", "--output-json", "--json-events"}
      OBVIOUS
    <3> QED
      BY <3>4, <3>5
  <2>2. IsFiniteSet(outputs)
    BY <2>1, FS_Subset
  <2> QED
    BY <2>2, FS_CardinalityType
<1>4. /\ NoSetting # "one-shot" /\ NoSetting # "profile" /\ NoSetting # "resume"
      /\ NoSetting # "doctor" /\ NoSetting # "repl" /\ NoSetting # "help" /\ NoSetting # "dry-run"
      /\ NoSetting # "sessions"
  BY SettingsAssumption
<1> DEFINE many == Cardinality(outputs) > 1
<1>5. ~many => Cardinality(outputs) <= 1
  BY <1>3
<1>6. Conflicting(args) <=>
         \/ args.wants \in ValueFlags
         \/ "--json" \in args.on /\ args.mode \notin {NoSetting, "doctor", "profile"}
         \/ many
         \/ args.mode = "profile" /\ ValueOf(args, "profile") = NoSetting
  BY DEF Conflicting
<1>7. ASSUME ModeOf(args, FALSE) # NoSetting
      PROVE  /\ ~many
             /\ ModeOf(args, FALSE) = "one-shot" => HasPrompt(args)
             /\ ModeOf(args, FALSE) = "profile" => ValueOf(args, "profile") # NoSetting
             /\ ModeOf(args, FALSE) = "resume" => args.mode = "resume"
             /\ "--json" \in args.on => ModeOf(args, FALSE) \in {"doctor", "profile", "one-shot"}
  <2> HIDE DEF many
  <2> QED
    BY <1>2, <1>4, <1>6, <1>7 DEF ModeOf, Modes, Commands
<1>8. args.mode = "resume" => args.resume # NoSetting
  BY <1>1 DEF Named
<1>9. \A i \in DOMAIN args.values : args.values[i][2] # ""
  BY <1>1 DEF Named
<1>10. ModeOf(args, TRUE) # ModeOf(args, FALSE) => ~HasPrompt(args) /\ ModeOf(args, TRUE) = "repl"
  BY <1>4 DEF ModeOf
<1> HIDE DEF many
<1>11. CommandsAreComplete <=>
          /\ ModeOf(args, FALSE) # NoSetting =>
                /\ ModeOf(args, FALSE) = "one-shot" => HasPrompt(args)
                /\ ModeOf(args, FALSE) = "profile" => ValueOf(args, "profile") # NoSetting
                /\ ModeOf(args, FALSE) = "resume" => args.resume # NoSetting
                /\ "--json" \in args.on => ModeOf(args, FALSE) \in {"doctor", "profile", "one-shot"}
                /\ Cardinality(outputs) <= 1
                /\ \A i \in DOMAIN args.values : args.values[i][2] # ""
                /\ "--sandbox" \in args.on => cliWords[1] = "doctor"
          /\ ModeOf(args, TRUE) # ModeOf(args, FALSE) =>
                ~HasPrompt(args) /\ ModeOf(args, TRUE) = "repl"
  BY DEF CommandsAreComplete, args
<1> HIDE DEF outputs
<1> QED
  BY <1>1, <1>5, <1>7, <1>8, <1>9, <1>10, <1>11

-------------------------------------------------------------------------------
(***************************************************************************)
(* The settings                                                            *)
(***************************************************************************)
LEMMA OrderFacts ==
    /\ SourceOrder \in Seq(Sources) /\ Len(SourceOrder) = 5
    /\ SourceOrder[1] = "global config" /\ SourceOrder[2] = "project config"
    /\ SourceOrder[3] = "fallback" /\ SourceOrder[4] = "env" /\ SourceOrder[5] = "cli"
    /\ Sources = {SourceOrder[i] : i \in 1..5}
    /\ Sources = {"global config", "project config", "fallback", "env", "cli"}
    /\ \A i, j \in 1..5 : SourceOrder[i] = SourceOrder[j] => i = j
<1>1. /\ SourceOrder[1] = "global config" /\ SourceOrder[2] = "project config"
      /\ SourceOrder[3] = "fallback" /\ SourceOrder[4] = "env" /\ SourceOrder[5] = "cli"
      /\ Len(SourceOrder) = 5 /\ DOMAIN SourceOrder = 1..5
  BY DEF SourceOrder
<1>2. \A i \in 1..5 : i \in {1, 2, 3, 4, 5}
  OBVIOUS
<1>3. Sources = {SourceOrder[i] : i \in 1..5}
  BY <1>1 DEF Sources
<1>4. \A i \in 1..5 : SourceOrder[i] \in {"global config", "project config", "fallback", "env", "cli"}
  BY <1>1, <1>2
<1>5. {"global config", "project config", "fallback", "env", "cli"} \subseteq Sources
  <2>1. \A i \in 1..5 : SourceOrder[i] \in Sources
    BY <1>3
  <2>2. 1 \in 1..5 /\ 2 \in 1..5 /\ 3 \in 1..5 /\ 4 \in 1..5 /\ 5 \in 1..5
    OBVIOUS
  <2> QED
    BY <1>1, <2>1, <2>2
<1>6. Sources = {"global config", "project config", "fallback", "env", "cli"}
  BY <1>3, <1>4, <1>5
<1>7. \A i, j \in 1..5 : SourceOrder[i] = SourceOrder[j] => i = j
  BY <1>1, <1>2
<1>8. SourceOrder \in Seq(Sources)
  <2>1. SourceOrder = <<"global config", "project config", "fallback", "env", "cli">>
    BY DEF SourceOrder
  <2> DEFINE S == {"global config", "project config", "fallback", "env", "cli"}
  <2>2. <<"global config", "project config", "fallback", "env", "cli">> \in Seq(S)
    OBVIOUS
  <2> QED
    BY <1>6, <2>1, <2>2
<1> QED
  BY <1>1, <1>3, <1>6, <1>7, <1>8

\* A value that is read is the one the source holds, and is not refused.
LEMMA ReadFacts ==
    ASSUME NEW kind \in Kinds, NEW source \in Sources, NEW raw, IsRaw(raw)
    PROVE  LET r == Read(source, kind, raw)
           IN  /\ r.set \in BOOLEAN /\ r.bad \in BOOLEAN
               /\ r.set => r.value.value = raw.value
               /\ r.set /\ source = "project config" => kind # "key"
               /\ r.set /\ source \in {"env", "cli"} /\ kind \in {"switch", "profile"} => raw.ok
<1> DEFINE r == Read(source, kind, raw)
           Good(x) == /\ x.set \in BOOLEAN /\ x.bad \in BOOLEAN
                      /\ x.set => x.value.value = raw.value
<1>1. Good(Unset) /\ Good(Bad) /\ Good(Value(raw)) /\ ~Unset.set /\ ~Bad.set
  BY DEF Unset, Bad, Value
<1>2. Good(Value([raw EXCEPT !.type = "boolean"]))
  <2>1. raw = [type |-> raw.type, ok |-> raw.ok, empty |-> raw.empty, value |-> raw.value]
    BY DEF IsRaw
  <2>2. [raw EXCEPT !.type = "boolean"].value = raw.value
    BY <2>1
  <2> QED
    BY <2>2 DEF Value
<1> HIDE DEF Good
<1>3. Good(FromFile(kind, raw))
  BY <1>1 DEF FromFile, Kinds
<1>4. /\ Good(FromEnvironment(kind, raw))
      /\ kind \in {"switch", "profile"} /\ FromEnvironment(kind, raw).set => raw.ok
  <2>1. CASE raw.type # "string" \/ raw.empty \/ kind = "switch"
    BY <1>1, <2>1 DEF FromEnvironment
  <2>2. CASE ~(raw.type # "string" \/ raw.empty \/ kind = "switch") /\ kind = "profile"
    <3>1. FromEnvironment(kind, raw)
             = IF raw.ok THEN Value([raw EXCEPT !.type = "boolean"]) ELSE Unset
      BY <2>2 DEF FromEnvironment
    <3> QED
      BY <1>1, <1>2, <3>1
  <2>3. CASE ~(raw.type # "string" \/ raw.empty \/ kind = "switch") /\ kind # "profile"
    <3>1. FromEnvironment(kind, raw)
             = IF kind \in {"number", "choice"} /\ ~raw.ok THEN Bad ELSE Value(raw)
      BY <2>3 DEF FromEnvironment
    <3> QED
      BY <1>1, <2>3, <3>1
  <2> QED
    BY <2>1, <2>2, <2>3
<1>5. /\ Good(FromCli(kind, raw))
      /\ kind \in {"switch", "profile"} /\ FromCli(kind, raw).set => raw.ok
  BY <1>1 DEF FromCli
<1>6. source \in {"global config", "project config", "fallback", "env", "cli"}
  BY OrderFacts
<1>7. CASE source = "project config" /\ kind = "key"
  <2>1. r = IF raw.type = "string" THEN Bad ELSE Unset
    BY <1>7 DEF Read
  <2> QED
    BY <1>1, <1>7, <2>1 DEF Good
<1>8. CASE source = "global config" \/ (source = "project config" /\ kind # "key")
  <2>1. r = FromFile(kind, raw)
    BY <1>8 DEF Read
  <2> QED
    BY <1>3, <1>8, <2>1 DEF Good
<1>9. CASE source = "fallback"
  <2>1. r = IF kind = "text" THEN FromCli(kind, raw) ELSE Unset
    BY <1>9 DEF Read
  <2> QED
    BY <1>1, <1>5, <1>9, <2>1 DEF Good
<1>10. CASE source = "env"
  <2>1. r = FromEnvironment(kind, raw)
    BY <1>10 DEF Read
  <2> QED
    BY <1>4, <1>10, <2>1 DEF Good
<1>11. CASE source = "cli"
  <2>1. r = FromCli(kind, raw)
    BY <1>11 DEF Read
  <2> QED
    BY <1>5, <1>11, <2>1 DEF Good
<1> QED
  BY <1>6, <1>7, <1>8, <1>9, <1>10, <1>11

\* What resolveConfig may have so far.
Outcomes(kind, raws) ==
    [error : BOOLEAN,
     setting : {DefaultSetting.setting}
                  \union {[value |-> Read(s, kind, raws[s]).value, source |-> s] : s \in Sources}]
ApplyAll(kind, raws, sources) ==
    FoldLeft(LAMBDA acc, source : ApplySource(acc, source, kind, raws), DefaultSetting, sources)

LEMMA ApplyTypes ==
    ASSUME NEW kind \in Kinds, NEW raws, \A s \in Sources : IsRaw(raws[s])
    PROVE  /\ DefaultSetting \in Outcomes(kind, raws)
           /\ [p \in Outcomes(kind, raws) \X Sources |-> ApplySource(p[1], p[2], kind, raws)]
                 \in [Outcomes(kind, raws) \X Sources -> Outcomes(kind, raws)]
<1>1. DefaultSetting \in Outcomes(kind, raws)
  BY DEF DefaultSetting, Outcomes
<1>2. ASSUME NEW acc \in Outcomes(kind, raws), NEW source \in Sources
      PROVE  ApplySource(acc, source, kind, raws) \in Outcomes(kind, raws)
  <2> DEFINE r == Read(source, kind, raws[source])
             set == [value |-> r.value, source |-> source]
             next == IF r.set THEN set ELSE acc.setting
  <2>1. r.set \in BOOLEAN /\ r.bad \in BOOLEAN
    BY ReadFacts
  <2>2. acc.error \in BOOLEAN
        /\ acc.setting \in {DefaultSetting.setting}
              \union {[value |-> Read(s, kind, raws[s]).value, source |-> s] : s \in Sources}
    BY DEF Outcomes
  <2>3. set \in {[value |-> Read(s, kind, raws[s]).value, source |-> s] : s \in Sources}
    OBVIOUS
  <2> DEFINE settings == {DefaultSetting.setting}
                \union {[value |-> Read(s, kind, raws[s]).value, source |-> s] : s \in Sources}
  <2>4. ApplySource(acc, source, kind, raws) = [error |-> acc.error \/ r.bad, setting |-> next]
    BY DEF ApplySource
  <2>5. next \in settings
    BY <2>2, <2>3
  <2>6. (acc.error \/ r.bad) \in BOOLEAN
    BY <2>1, <2>2
  <2>7. Outcomes(kind, raws) = [error : BOOLEAN, setting : settings]
    BY DEF Outcomes
  <2> HIDE DEF settings, next
  <2> QED
    BY <2>4, <2>5, <2>6, <2>7
<1> DEFINE States == Outcomes(kind, raws)
<1> HIDE DEF States
<1>3. \A acc \in States, source \in Sources : ApplySource(acc, source, kind, raws) \in States
  BY <1>2 DEF States
<1>4. [p \in States \X Sources |-> ApplySource(p[1], p[2], kind, raws)]
         \in [States \X Sources -> States]
  BY <1>3
<1> QED
  BY <1>1, <1>4 DEF States

\* ApplySource puts one source over the other.
LEMMA ApplyFold ==
    ASSUME NEW kind \in Kinds, NEW raws, \A source \in Sources : IsRaw(raws[source]),
           NEW s \in Seq(Sources)
    PROVE  \E w : /\ w[0] = DefaultSetting /\ w[Len(s)] = ApplyAll(kind, raws, s)
                  /\ \A k \in 0..Len(s) - 1 : w[k + 1] = ApplySource(w[k], s[k + 1], kind, raws)
<1> DEFINE n == Len(s)
           Items == Sources
           f == [p \in Outcomes(kind, raws) \X Items |-> ApplySource(p[1], p[2], kind, raws)]
           F(g) == g = [u \in SUBSET DOMAIN s |->
                           IF u = {} THEN DefaultSetting ELSE ApplySource(g[u \ {Max(u)}], s[Max(u)], kind, raws)]
<1>1. n \in Nat /\ DOMAIN s = 1..n /\ \A i \in 1..n : s[i] \in Items
  OBVIOUS
<1>2. f \in [Outcomes(kind, raws) \X Items -> Outcomes(kind, raws)]
  BY ApplyTypes
<1>3. ApplyAll(kind, raws, s) = (CHOOSE g : F(g))[DOMAIN s]
  BY DEF ApplyAll, FoldLeft, MapThenFoldSet
<1>4. \E g : F(g)
  <2>1. DefaultSetting \in Outcomes(kind, raws)
    BY ApplyTypes
  <2> HIDE DEF f, Items
  <2>2. PICK g : FoldBy(f, g, s, DefaultSetting) /\ FoldIn(Outcomes(kind, raws), Items, g, s)
    <3>1. s \in Seq(Items)
      BY DEF Items
    <3> QED
      BY <1>2, <2>1, <3>1, TypedFold
  <2>3. \A a \in Outcomes(kind, raws), e \in Items : f[<<a, e>>] = ApplySource(a, e, kind, raws)
    BY DEF f
  <2>4. \A u \in SUBSET DOMAIN s : u # {} =>
           f[<<g[u \ {Max(u)}], s[Max(u)]>>] = ApplySource(g[u \ {Max(u)}], s[Max(u)], kind, raws)
    BY <2>2, <2>3 DEF FoldIn
  <2>5. F(g)
    BY <2>2, <2>4 DEF FoldBy
  <2> QED
    BY <2>5
<1> HIDE DEF F
<1>5. PICK g : F(g) /\ ApplyAll(kind, raws, s) = g[1..n]
  BY <1>1, <1>3, <1>4
<1> HIDE DEF n
<1>6. g[{}] = DefaultSetting
      /\ \A u \in SUBSET (1..n) : u # {} => g[u] = ApplySource(g[u \ {Max(u)}], s[Max(u)], kind, raws)
  BY <1>1, <1>5 DEF F
<1>7. g[1..0] = DefaultSetting
  BY <1>1, <1>6, OneIndexMore
<1>8. ASSUME NEW k \in 0..n - 1 PROVE g[1..k + 1] = ApplySource(g[1..k], s[k + 1], kind, raws)
  <2> DEFINE u == 1..k + 1
  <2>1. u \in SUBSET (1..n) /\ u # {} /\ Max(u) = k + 1 /\ u \ {k + 1} = 1..k
    BY <1>1, OneIndexMore
  <2> HIDE DEF u
  <2>2. g[u] = ApplySource(g[1..k], s[k + 1], kind, raws)
    BY <1>6, <2>1
  <2> QED
    BY <2>2 DEF u
<1> DEFINE w == [k \in 0..n |-> g[1..k]]
<1>9. /\ w[0] = g[1..0] /\ w[n] = g[1..n]
      /\ \A k \in 0..n - 1 : w[k] = g[1..k] /\ w[k + 1] = g[1..k + 1]
  BY <1>1
<1> HIDE DEF w
<1>10. w[0] = DefaultSetting /\ w[n] = ApplyAll(kind, raws, s)
      /\ \A k \in 0..n - 1 : w[k + 1] = ApplySource(w[k], s[k + 1], kind, raws)
  BY <1>5, <1>7, <1>8, <1>9
<1> QED
  BY <1>10 DEF n

\* What the sources hold of the setting looked at.
HeldBySources == lookedAt.kind \in Kinds /\ \A s \in Sources : IsRaw(lookedAt.raws[s])

\* The sources applied so far: the value set by the last that has one, and an error if
\* any is bad.
Applied(acc, reads, k) ==
    /\ acc.error = \E i \in 1..k : reads[i].bad
    /\ \/ acc.setting = DefaultSetting.setting /\ \A i \in 1..k : ~reads[i].set
       \/ \E j \in 1..k :
             /\ reads[j].set /\ acc.setting = [value |-> reads[j].value, source |-> SourceOrder[j]]
             /\ \A i \in 1..k : reads[i].set => i <= j

LEMMA OneSourceMore ==
    ASSUME NEW k \in Nat, NEW reads, NEW acc, NEW next,
           reads[k + 1].set \in BOOLEAN, reads[k + 1].bad \in BOOLEAN,
           next = [error |-> acc.error \/ reads[k + 1].bad,
                   setting |-> IF reads[k + 1].set
                               THEN [value |-> reads[k + 1].value, source |-> SourceOrder[k + 1]]
                               ELSE acc.setting],
           Applied(acc, reads, k)
    PROVE  Applied(next, reads, k + 1)
<1>1. 1..k + 1 = 1..k \union {k + 1} /\ k + 1 \in 1..k + 1 /\ \A i \in 1..k : i \in Int /\ i <= k + 1
  OBVIOUS
<1>2. next.error = \E i \in 1..k + 1 : reads[i].bad
  <2>1. next.error = (acc.error \/ reads[k + 1].bad)
    OBVIOUS
  <2>2. acc.error = \E i \in 1..k : reads[i].bad
    BY DEF Applied
  <2> QED
    BY <1>1, <2>1, <2>2
<1>3. CASE reads[k + 1].set
  <2>1. next.setting = [value |-> reads[k + 1].value, source |-> SourceOrder[k + 1]]
    BY <1>3
  <2>2. \A i \in 1..k + 1 : i <= k + 1
    OBVIOUS
  <2> QED
    BY <1>1, <1>2, <1>3, <2>1, <2>2 DEF Applied
<1>4. CASE ~reads[k + 1].set
  <2>1. next.setting = acc.setting
    BY <1>4
  <2>2. CASE acc.setting = DefaultSetting.setting /\ \A i \in 1..k : ~reads[i].set
    BY <1>1, <1>2, <1>4, <2>1, <2>2 DEF Applied
  <2>3. CASE \E j \in 1..k :
                /\ reads[j].set /\ acc.setting = [value |-> reads[j].value, source |-> SourceOrder[j]]
                /\ \A i \in 1..k : reads[i].set => i <= j
    <3>1. PICK j \in 1..k :
                /\ reads[j].set /\ acc.setting = [value |-> reads[j].value, source |-> SourceOrder[j]]
                /\ \A i \in 1..k : reads[i].set => i <= j
      BY <2>3
    <3>2. j \in 1..k + 1 /\ \A i \in 1..k + 1 : reads[i].set => i <= j
      BY <1>1, <1>4, <3>1
    <3> QED
      BY <1>2, <2>1, <3>1, <3>2 DEF Applied
  <2> QED
    BY <2>2, <2>3 DEF Applied
<1> QED
  BY <1>3, <1>4

LEMMA AppliedFacts ==
    ASSUME NEW kind \in Kinds, NEW raws, \A s \in Sources : IsRaw(raws[s]),
           NEW reads, \A i \in 1..5 : reads[i] = Read(SourceOrder[i], kind, raws[SourceOrder[i]])
    PROVE  Applied(Apply(kind, raws), reads, 5)
<1>1. SourceOrder \in Seq(Sources) /\ Len(SourceOrder) = 5 /\ \A i \in 1..5 : SourceOrder[i] \in Sources
  BY OrderFacts
<1>2. PICK w : /\ w[0] = DefaultSetting /\ w[5] = ApplyAll(kind, raws, SourceOrder)
               /\ \A k \in 0..4 : w[k + 1] = ApplySource(w[k], SourceOrder[k + 1], kind, raws)
  <2>1. \E w : /\ w[0] = DefaultSetting /\ w[Len(SourceOrder)] = ApplyAll(kind, raws, SourceOrder)
               /\ \A k \in 0..Len(SourceOrder) - 1 :
                     w[k + 1] = ApplySource(w[k], SourceOrder[k + 1], kind, raws)
    BY <1>1, ApplyFold
  <2>2. Len(SourceOrder) = 5 /\ 0..Len(SourceOrder) - 1 = 0..4
    BY <1>1
  <2> QED
    BY <2>1, <2>2
<1>3. ApplyAll(kind, raws, SourceOrder) = Apply(kind, raws)
  BY DEF ApplyAll, Apply
<1> DEFINE T == {k \in 0..5 : Applied(w[k], reads, k)}
<1>4. 0 \in T
  <2>1. 1..0 = {} /\ 0 \in 0..5 /\ DefaultSetting.error = FALSE
    BY DEF DefaultSetting
  <2>2. Applied(w[0], reads, 0)
    BY <1>2, <2>1 DEF Applied
  <2> QED
    BY <2>1, <2>2
<1>5. ASSUME NEW k \in 0..5 - 1, k \in T PROVE k + 1 \in T
  <2>1. k \in Nat /\ k \in 0..4 /\ k + 1 \in 0..5 /\ k + 1 \in 1..5
    OBVIOUS
  <2>2. w[k + 1] = ApplySource(w[k], SourceOrder[k + 1], kind, raws)
    BY <1>2, <2>1
  <2>3. reads[k + 1] = Read(SourceOrder[k + 1], kind, raws[SourceOrder[k + 1]])
        /\ SourceOrder[k + 1] \in Sources
    BY <1>1, <2>1
  <2>4. reads[k + 1].set \in BOOLEAN /\ reads[k + 1].bad \in BOOLEAN
    BY <2>3, ReadFacts
  <2>5. w[k + 1] = [error |-> w[k].error \/ reads[k + 1].bad,
                    setting |-> IF reads[k + 1].set
                                THEN [value |-> reads[k + 1].value, source |-> SourceOrder[k + 1]]
                                ELSE w[k].setting]
    BY <2>2, <2>3 DEF ApplySource
  <2>6. Applied(w[k], reads, k)
    BY <1>5
  <2>7. Applied(w[k + 1], reads, k + 1)
    BY <2>1, <2>4, <2>5, <2>6, OneSourceMore
  <2> QED
    BY <2>1, <2>7
<1>6. 5 \in T
  <2>1. 5 \in Nat /\ 5 \in 0..5
    OBVIOUS
  <2> HIDE DEF T
  <2> QED
    BY <1>4, <1>5, <2>1, UpTo
<1> QED
  BY <1>2, <1>3, <1>6

LEMMA RankedSources == ASSUME HeldBySources PROVE SourcesAreRanked
<1> DEFINE raws == lookedAt.raws
           k == lookedAt.kind
           reads == [i \in 1..5 |-> Read(SourceOrder[i], k, raws[SourceOrder[i]])]
           result == Apply(k, raws)
           usable(s) == Read(s, k, raws[s]).set
           rank(s) == CHOOSE i \in DOMAIN SourceOrder : SourceOrder[i] = s
<1>1. k \in Kinds /\ \A s \in Sources : IsRaw(raws[s])
  BY DEF HeldBySources
<1>2. \A i \in 1..5 : reads[i] = Read(SourceOrder[i], k, raws[SourceOrder[i]])
  OBVIOUS
<1> HIDE DEF k, raws, reads
<1>3. Applied(result, reads, 5)
  BY <1>1, <1>2, AppliedFacts
<1>4. /\ DOMAIN SourceOrder = 1..5 /\ Sources = {SourceOrder[i] : i \in 1..5}
      /\ \A i, j \in 1..5 : SourceOrder[i] = SourceOrder[j] => i = j
  <2>1. SourceOrder \in Seq(Sources) /\ Len(SourceOrder) = 5
    BY OrderFacts
  <2>2. DOMAIN SourceOrder = 1..5
    BY <2>1
  <2>3. Sources = {SourceOrder[i] : i \in 1..5}
    BY OrderFacts
  <2>4. \A i, j \in 1..5 : SourceOrder[i] = SourceOrder[j] => i = j
    BY OrderFacts
  <2> QED
    BY <2>2, <2>3, <2>4
<1>5. \A s \in Sources : s # "default"
  BY OrderFacts
<1>6. \A i \in 1..5 : rank(SourceOrder[i]) = i
  BY <1>4
<1>7. ASSUME NEW i \in 1..5
      PROVE  /\ SourceOrder[i] \in Sources
             /\ reads[i].set \in BOOLEAN /\ reads[i].bad \in BOOLEAN
             /\ reads[i].set => reads[i].value.value = raws[SourceOrder[i]].value
             /\ reads[i].set /\ SourceOrder[i] = "project config" => k # "key"
             /\ reads[i].set /\ SourceOrder[i] \in {"env", "cli"} /\ k \in {"switch", "profile"} =>
                   raws[SourceOrder[i]].ok
  <2>1. SourceOrder[i] \in Sources
    BY <1>4
  <2> DEFINE source == SourceOrder[i]
             raw == raws[source]
             r == reads[i]
  <2>2. r = Read(source, k, raw) /\ source \in Sources /\ IsRaw(raw)
    BY <1>1, <1>2, <2>1
  <2> HIDE DEF source, raw, r
  <2>3. /\ r.set \in BOOLEAN /\ r.bad \in BOOLEAN
        /\ r.set => r.value.value = raw.value
        /\ r.set /\ source = "project config" => k # "key"
        /\ r.set /\ source \in {"env", "cli"} /\ k \in {"switch", "profile"} => raw.ok
    BY <1>1, <2>2, ReadFacts
  <2> QED
    BY <2>1, <2>3 DEF source, raw, r
<1> HIDE DEF result, rank
<1>8. result.error = \E s \in Sources : Read(s, k, raws[s]).bad
  <2>1. result.error = \E i \in 1..5 : reads[i].bad
    BY <1>3 DEF Applied
  <2>2. (\E i \in 1..5 : reads[i].bad) <=> \E s \in Sources : Read(s, k, raws[s]).bad
    BY <1>2, <1>4
  <2> QED
    BY <2>1, <2>2
<1>9. \A s \in Sources : \E i \in 1..5 : s = SourceOrder[i] /\ (usable(s) <=> reads[i].set)
  BY <1>2, <1>4
<1>10. /\ result.setting.source = "default" <=> ~\E s \in Sources : usable(s)
       /\ \A s \in Sources : usable(s) => rank(s) <= rank(result.setting.source)
       /\ k = "key" => result.setting.source # "project config"
       /\ result.setting.source # "default" =>
             result.setting.value.value = raws[result.setting.source].value
       /\ k \in {"switch", "profile"} /\ result.setting.source \in {"env", "cli"} =>
             raws[result.setting.source].ok
  <2>1. CASE result.setting = DefaultSetting.setting /\ \A i \in 1..5 : ~reads[i].set
    <3>1. result.setting.source = "default"
      BY <2>1 DEF DefaultSetting
    <3>2. \A s \in Sources : ~usable(s)
      BY <1>9, <2>1
    <3> HIDE DEF usable
    <3> QED
      BY <3>1, <3>2
  <2>2. CASE \E j \in 1..5 :
                /\ reads[j].set
                /\ result.setting = [value |-> reads[j].value, source |-> SourceOrder[j]]
                /\ \A i \in 1..5 : reads[i].set => i <= j
    <3>1. PICK j \in 1..5 :
                /\ reads[j].set
                /\ result.setting = [value |-> reads[j].value, source |-> SourceOrder[j]]
                /\ \A i \in 1..5 : reads[i].set => i <= j
      BY <2>2
    <3>2. result.setting.source = SourceOrder[j] /\ result.setting.value = reads[j].value
          /\ SourceOrder[j] \in Sources /\ SourceOrder[j] # "default"
      <4>1. SourceOrder[j] \in Sources
        BY <1>4
      <4>2. SourceOrder[j] # "default"
        BY <1>5, <4>1
      <4> QED
        BY <3>1, <4>1, <4>2
    <3>3. usable(SourceOrder[j])
      BY <1>2, <3>1
    <3>4. ASSUME NEW s \in Sources, usable(s) PROVE rank(s) <= rank(SourceOrder[j])
      <4>1. PICK i \in 1..5 : s = SourceOrder[i] /\ reads[i].set
        BY <1>9, <3>4
      <4> QED
        BY <1>6, <3>1, <4>1
    <3>5. /\ reads[j].value.value = raws[SourceOrder[j]].value
          /\ SourceOrder[j] = "project config" => k # "key"
          /\ SourceOrder[j] \in {"env", "cli"} /\ k \in {"switch", "profile"} =>
                raws[SourceOrder[j]].ok
      BY <1>7, <3>1
    <3> HIDE DEF usable
    <3> QED
      BY <3>2, <3>3, <3>4, <3>5
  <2> QED
    BY <1>3, <2>1, <2>2 DEF Applied
<1> QED
  BY <1>8, <1>10 DEF SourcesAreRanked, result, rank, k, raws

-------------------------------------------------------------------------------
\* What is typed is words, and a source holds what its kind may hold.
SettingsInv ==
    /\ cliWords \in Seq(CliWords)
    /\ \E k \in Kinds : \E raws \in [Sources -> RawValues[k] \union {Absent}] :
          lookedAt = [kind |-> k, raws |-> raws]

LEMMA HeldTypes == ASSUME SettingsInv PROVE HeldBySources
<1>1. PICK k \in Kinds : \E raws \in [Sources -> RawValues[k] \union {Absent}] :
         lookedAt = [kind |-> k, raws |-> raws]
  BY DEF SettingsInv
<1> PICK raws \in [Sources -> RawValues[k] \union {Absent}] : lookedAt = [kind |-> k, raws |-> raws]
  BY <1>1
<1>2. IsRaw(Absent)
  BY DEF IsRaw, Absent
<1>3. \A s \in Sources : IsRaw(raws[s])
  BY <1>2, RawValuesAssumption
<1> QED
  BY <1>1, <1>3 DEF HeldBySources

LEMMA SettingsStep == ASSUME SettingsInv, [SettingsNext]_settingsVars PROVE SettingsInv'
<1>1. CASE UNCHANGED settingsVars
  BY <1>1 DEF settingsVars, SettingsInv
<1>2. ASSUME NEW w \in CliWords, cliWords' = Append(cliWords, w), UNCHANGED lookedAt
      PROVE  SettingsInv'
  BY <1>2 DEF SettingsInv
<1>3. ASSUME NEW s \in Sources, NEW r \in RawValues[lookedAt.kind],
             lookedAt' = [lookedAt EXCEPT !.raws[s] = r], UNCHANGED cliWords
      PROVE  SettingsInv'
  <2>1. PICK k \in Kinds : \E raws \in [Sources -> RawValues[k] \union {Absent}] :
           lookedAt = [kind |-> k, raws |-> raws]
    BY DEF SettingsInv
  <2> PICK raws \in [Sources -> RawValues[k] \union {Absent}] : lookedAt = [kind |-> k, raws |-> raws]
    BY <2>1
  <2> DEFINE next == [raws EXCEPT ![s] = r]
  <2>2. lookedAt.kind = k /\ lookedAt' = [kind |-> k, raws |-> next]
    BY <1>3, <2>1
  <2>3. next \in [Sources -> RawValues[k] \union {Absent}]
    BY <1>3, <2>2
  <2> QED
    BY <1>3, <2>2, <2>3 DEF SettingsInv
<1> QED
  BY <1>1, <1>2, <1>3 DEF SettingsNext

\* A command line that is accepted has what its mode needs, every setting comes from the
\* source that counts most, and a list of servers is complete or refused: whatever words
\* are typed and whatever the sources hold (args.ts:56-172, config.ts:61-270,
\* sessionFactory.ts:143-191).
THEOREM TraceableSettings == SettingsSpec => []SettingsAreTraceable
<1>1. SettingsInit => SettingsInv
  <2> SUFFICES ASSUME SettingsInit PROVE SettingsInv
    OBVIOUS
  <2>1. PICK k \in Kinds : lookedAt = [kind |-> k, raws |-> [s \in Sources |-> Absent]]
    BY DEF SettingsInit
  <2>2. [s \in Sources |-> Absent] \in [Sources -> RawValues[k] \union {Absent}]
    OBVIOUS
  <2>3. cliWords \in Seq(CliWords)
    BY DEF SettingsInit
  <2> QED
    BY <2>1, <2>2, <2>3 DEF SettingsInv
<1>2. SettingsInv /\ [SettingsNext]_settingsVars => SettingsInv'
  BY SettingsStep
<1>3. SettingsInv => SettingsAreTraceable
  <2> SUFFICES ASSUME SettingsInv PROVE SettingsAreTraceable
    OBVIOUS
  <2>1. CommandsAreComplete
    BY CompleteCommands DEF SettingsInv
  <2>2. SourcesAreRanked
    BY HeldTypes, RankedSources
  <2>3. \A f \in McpFiles : LoadMcpConfig(f) # NoSetting =>
           \A i \in DOMAIN f.entries : f.entries[i].named
    BY DEF LoadMcpConfig
  <2> QED
    BY <2>1, <2>2, <2>3 DEF SettingsAreTraceable
<1> QED
  BY <1>1, <1>2, <1>3, PTL DEF SettingsSpec

----------------------------------------------------------------------------
(***************************************************************************)
(* Repl: the inductive invariant                                           *)
(***************************************************************************)
\* Who waits, by the list of waiters.
MainWaits(w) == w \in {<<"main">>, <<"main", "approval">>, <<"approval", "main">>}
AskWaits(w) == w \in {<<"approval">>, <<"main", "approval">>, <<"approval", "main">>}

\* Who waits for a line has found none, at a terminal.
LinesInv ==
    /\ typed = taken \o queue
    /\ main = "waiting" <=> MainWaits(waiters)
    /\ consumer = "asking" <=> AskWaits(waiters)
    /\ waiters # <<>> => tty /\ queue = <<>>
    /\ row <= interrupts /\ idleInterrupts <= interrupts

\* An iterator that waits or is done has had every event.
EventsInv ==
    /\ index = rendered + (IF consumer \in {"has", "asking", "responding"} THEN 1 ELSE 0)
    /\ consumer = "parked" => index = Len(values)
    /\ consumer = "done" => index = Len(values) /\ queueClosed

\* A line, or an event, of a kind.
Had(some, kind) == \E i \in 1..Len(some) : KindOf[some[i]] = kind
Tells(events, kind) == \E i \in 1..Len(events) : events[i].kind = kind

\* The input is closed only when the end is asked for; who counts an interrupt from
\* before the last line, or leaves, knows of a /quit.
EndAsked == excused \/ row >= 2 \/ ~tty \/ Had(taken, "/quit")
Ending == {"leaving", "closing last", "draining last", "exited"}
AskedInv ==
    /\ main \in Ending => EndAsked
    /\ closed => EndAsked
    /\ exitRequested => Had(taken, "/quit") \/ ~tty \/ closed
    /\ idleInterrupts <= row \/ Had(taken, "/quit") \/ ~tty
    /\ given = "/quit" => Had(taken, "/quit")
    /\ Tells(values, "/quit") => Had(taken, "/quit")

\* While something is left of a /clear, it is one that began no session yet.
Clears(some) == Cardinality({i \in 1..Len(some) : KindOf[some[i]] = "/clear"})
ClearDue ==
    \/ main \in {"fresh", "closing", "draining"}
    \/ main \in Submitting /\ pendingHostAction = "/clear"
    \/ main = "submitting" /\ given = "/clear"
    \/ Tells(values, "/clear")
SwitchInv ==
    /\ turn # "none" => main = "submitting" /\ given = "text"
    /\ session <= Clears(taken) + 1
    /\ ClearDue => session <= Clears(taken)

\* TypeOK, in parts.
LinesTyped ==
    /\ tty \in BOOLEAN /\ closed \in BOOLEAN
    /\ typed \in Seq(Lines) /\ taken \in Seq(Lines) /\ queue \in Seq(Lines)
    /\ waiters \in {<<>>, <<"main">>, <<"approval">>, <<"main", "approval">>,
                    <<"approval", "main">>}
LoopTyped ==
    /\ main \in Inactive \union Submitting
    /\ given \in {"text", "/clear", "/quit"}
    /\ exitRequested \in BOOLEAN
    /\ idleInterrupts \in 0..MaxInterrupts /\ row \in 0..MaxInterrupts
    /\ pendingHostAction \in {"none", "/clear", "/quit"}
UserTyped == interrupts \in 0..MaxInterrupts /\ excused \in BOOLEAN
EventsTyped ==
    /\ session \in Nat \ {0}
    /\ values \in Seq(ReplEvent) /\ index \in 0..Len(values) /\ rendered \in 0..Len(values)
    /\ queueClosed \in BOOLEAN
    /\ consumer \in {"next", "parked", "has", "asking", "responding", "done"}
TurnTyped ==
    /\ turn \in {"none", "running", "aborted"}
    /\ approvals \in [Approvals -> {"none", "writing", "stale", "pending", "settled"}]

ReplInv ==
    /\ LinesTyped /\ LoopTyped /\ UserTyped /\ EventsTyped /\ TurnTyped
    /\ LinesInv /\ EventsInv /\ AskedInv /\ SwitchInv

-------------------------------------------------------------------------------
(***************************************************************************)
(* Repl: lines and events                                                  *)
(***************************************************************************)
LEMMA ClearsTyped == ASSUME NEW s \in Seq(Lines) PROVE Clears(s) \in Nat
<1>1. IsFiniteSet({i \in 1..Len(s) : KindOf[s[i]] = "/clear"})
  <2>1. Len(s) \in Nat /\ IsFiniteSet(1..Len(s))
    BY FS_Interval
  <2>2. {i \in 1..Len(s) : KindOf[s[i]] = "/clear"} \subseteq 1..Len(s)
    OBVIOUS
  <2> QED
    BY <2>1, <2>2, FS_Subset
<1> QED
  BY <1>1, FS_CardinalityType DEF Clears

\* A line more.
LEMMA OneLineMore ==
    ASSUME ReplAssumption, NEW s \in Seq(Lines), NEW line \in Lines
    PROVE  /\ Append(s, line) \in Seq(Lines)
           /\ \A kind : Had(s, kind) => Had(Append(s, line), kind)
           /\ Had(Append(s, line), KindOf[line])
           /\ Clears(s) \in Nat /\ Clears(Append(s, line)) \in Nat
           /\ Clears(s) <= Clears(Append(s, line))
           /\ KindOf[line] = "/clear" => Clears(Append(s, line)) = Clears(s) + 1
<1> DEFINE t == Append(s, line)
           n == Len(s)
           C(u) == {i \in 1..Len(u) : KindOf[u[i]] = "/clear"}
<1>1. t \in Seq(Lines) /\ n \in Nat /\ Len(t) = n + 1 /\ t[n + 1] = line
      /\ \A i \in 1..n : t[i] = s[i]
  OBVIOUS
<1>2. /\ \A kind : Had(s, kind) => Had(t, kind)
      /\ Had(t, KindOf[line])
  BY <1>1 DEF Had
<1>3. C(t) = IF KindOf[line] = "/clear" THEN C(s) \union {n + 1} ELSE C(s)
  BY <1>1
<1>4. IsFiniteSet(C(s)) /\ n + 1 \notin C(s)
  <2>1. IsFiniteSet(1..n) /\ C(s) \subseteq 1..n
    BY <1>1, FS_Interval
  <2> QED
    BY <1>1, <2>1, FS_Subset
<1> HIDE DEF C, n
<1>5. Cardinality(C(s)) \in Nat
      /\ Cardinality(C(t)) = IF KindOf[line] = "/clear" THEN Cardinality(C(s)) + 1
                             ELSE Cardinality(C(s))
  BY <1>3, <1>4, FS_CardinalityType, FS_AddElement
<1>6. Clears(s) = Cardinality(C(s)) /\ Clears(t) = Cardinality(C(t))
  BY DEF Clears, C
<1> QED
  BY <1>1, <1>2, <1>5, <1>6

\* No line at all.
LEMMA NoLines == Clears(<<>>) = 0 /\ \A kind : ~Had(<<>>, kind)
<1>1. {i \in 1..Len(<<>>) : KindOf[<<>>[i]] = "/clear"} = {}
  OBVIOUS
<1> QED
  BY <1>1, FS_EmptySet DEF Clears, Had

\* An event more.
LEMMA OneEventMore ==
    ASSUME NEW s \in Seq(ReplEvent), NEW e \in ReplEvent
    PROVE  /\ Append(s, e) \in Seq(ReplEvent) /\ Len(Append(s, e)) = Len(s) + 1
           /\ \A kind : Tells(Append(s, e), kind) => Tells(s, kind) \/ e.kind = kind
<1> HIDE DEF ReplEvent
<1>1. Append(s, e) \in Seq(ReplEvent) /\ Len(Append(s, e)) = Len(s) + 1
      /\ Append(s, e)[Len(s) + 1] = e /\ \A i \in 1..Len(s) : Append(s, e)[i] = s[i]
  OBVIOUS
<1> QED
  BY <1>1 DEF Tells

LEMMA PlainEvents ==
    /\ \A kind \in {"print", "/clear", "/quit"} :
          Plain(kind) \in ReplEvent /\ Plain(kind).kind = kind
    /\ \A a \in Approvals : [kind |-> "approval", of |-> a] \in ReplEvent
  BY DEF Plain, ReplEvent

LEMMA TwoWait == ASSUME NEW x, NEW y PROVE Append(<<x>>, y) = <<x, y>>
<1> DEFINE s == Append(<<x>>, y)
           t == <<x, y>>
<1>1. <<x>> \in Seq({x, y}) /\ Len(<<x>>) = 1 /\ <<x>>[1] = x
  OBVIOUS
<1>2. s \in Seq({x, y}) /\ Len(s) = 2 /\ s[1] = x /\ s[2] = y
  BY <1>1
<1>3. t \in Seq({x, y}) /\ Len(t) = 2 /\ t[1] = x /\ t[2] = y
  OBVIOUS
<1> SUFFICES s = t
  OBVIOUS
<1> HIDE DEF s, t
<1>4. \A i \in 1..2 : s[i] = t[i]
  <2>1. \A i \in 1..2 : i = 1 \/ i = 2
    OBVIOUS
  <2> QED
    BY <1>2, <1>3, <2>1
<1> QED
  BY <1>2, <1>3, <1>4, SeqEqual

\* Waiters come last and go first.
LEMMA Waiters ==
    ASSUME NEW w \in {<<>>, <<"main">>, <<"approval">>, <<"main", "approval">>,
                      <<"approval", "main">>}
    PROVE  /\ ~MainWaits(w) => /\ w \in {<<>>, <<"approval">>}
                               /\ MainWaits(Append(w, "main"))
                               /\ AskWaits(Append(w, "main")) <=> AskWaits(w)
           /\ ~AskWaits(w) => /\ w \in {<<>>, <<"main">>}
                              /\ AskWaits(Append(w, "approval"))
                              /\ MainWaits(Append(w, "approval")) <=> MainWaits(w)
           /\ w # <<>> =>
                /\ Tail(w) \in {<<>>, <<"main">>, <<"approval">>}
                /\ Head(w) \in {"main", "approval"}
                /\ Head(w) = "main" => MainWaits(w) /\ ~MainWaits(Tail(w))
                                       /\ (AskWaits(Tail(w)) <=> AskWaits(w))
                /\ Head(w) = "approval" => AskWaits(w) /\ ~AskWaits(Tail(w))
                                           /\ (MainWaits(Tail(w)) <=> MainWaits(w))
           /\ MainWaits(w) <=> \E i \in 1..Len(w) : w[i] = "main"
           /\ AskWaits(w) <=> \E i \in 1..Len(w) : w[i] = "approval"
           /\ ~MainWaits(<<>>) /\ ~AskWaits(<<>>)
<1>1. CASE w = <<>>
  BY <1>1 DEF MainWaits, AskWaits
<1>2. CASE w = <<"main">>
  <2>1. Tail(w) = <<>> /\ Head(w) = "main"
    BY <1>2
  <2>2. Append(w, "approval") = <<"main", "approval">>
    BY TwoWait, <1>2
  <2>3. \A x : (\E i \in 1..Len(w) : w[i] = x) <=> x = "main"
    BY <1>2
  <2> QED
    BY <2>1, <2>3, <2>2, <1>2 DEF MainWaits, AskWaits
<1>3. CASE w = <<"approval">>
  <2>1. Tail(w) = <<>> /\ Head(w) = "approval"
    BY <1>3
  <2>2. Append(w, "main") = <<"approval", "main">>
    BY TwoWait, <1>3
  <2>3. \A x : (\E i \in 1..Len(w) : w[i] = x) <=> x = "approval"
    BY <1>3
  <2> QED
    BY <2>1, <2>3, <2>2, <1>3 DEF MainWaits, AskWaits
<1>4. CASE w = <<"main", "approval">>
  BY <1>4 DEF MainWaits, AskWaits
<1>5. CASE w = <<"approval", "main">>
  BY <1>5 DEF MainWaits, AskWaits
<1> QED
  BY <1>1, <1>2, <1>3, <1>4, <1>5

\* What the one who comes makes of the list.
LEMMA MainComes ==
    ASSUME NEW w \in {<<>>, <<"main">>, <<"approval">>, <<"main", "approval">>,
                      <<"approval", "main">>}, ~MainWaits(w)
    PROVE  /\ Append(w, "main") \in {<<"main">>, <<"approval", "main">>}
           /\ MainWaits(Append(w, "main"))
           /\ AskWaits(Append(w, "main")) <=> AskWaits(w)
<1>1. w \in {<<>>, <<"approval">>}
  BY DEF MainWaits
<1>2. Append(<<>>, "main") = <<"main">> 
      /\ Append(<<"approval">>, "main") = <<"approval", "main">>
  BY TwoWait
<1> QED
  BY <1>1, <1>2, Waiters

LEMMA ApprovalComes ==
    ASSUME NEW w \in {<<>>, <<"main">>, <<"approval">>, <<"main", "approval">>,
                      <<"approval", "main">>}, ~AskWaits(w)
    PROVE  /\ Append(w, "approval") \in {<<"approval">>, <<"main", "approval">>}
           /\ AskWaits(Append(w, "approval"))
           /\ MainWaits(Append(w, "approval")) <=> MainWaits(w)
<1>1. w \in {<<>>, <<"main">>}
  BY DEF AskWaits
<1>2. Append(<<>>, "approval") = <<"approval">> 
      /\ Append(<<"main">>, "approval") = <<"main", "approval">>
  BY TwoWait
<1> QED
  BY <1>1, <1>2, Waiters

\* A line taken, and a line typed.
LEMMA LinesMove ==
    ASSUME NEW s \in Seq(Lines), NEW t \in Seq(Lines), NEW line \in Lines
    PROVE  /\ s \o <<>> = s
           /\ s \o Append(t, line) = Append(s \o t, line)
           /\ t # <<>> => /\ Head(t) \in Lines /\ Tail(t) \in Seq(Lines)
                          /\ Append(s, Head(t)) \o Tail(t) = s \o t
<1>1. s \o <<>> = s
  OBVIOUS
<1>2. s \o Append(t, line) = Append(s \o t, line)
  OBVIOUS
<1>3. ASSUME t # <<>>
      PROVE  /\ Head(t) \in Lines /\ Tail(t) \in Seq(Lines)
             /\ Append(s, Head(t)) \o Tail(t) = s \o t
  <2>1. Head(t) \in Lines /\ Tail(t) \in Seq(Lines) /\ Len(Tail(t)) = Len(t) - 1
        /\ Len(t) \in Nat \ {0} /\ Head(t) = t[1]
        /\ \A i \in 1..Len(t) - 1 : Tail(t)[i] = t[i + 1]
    BY <1>3
  <2> DEFINE a == Append(s, Head(t))
             u == a \o Tail(t)
             v == s \o t
             n == Len(s)
  <2>2. a \in Seq(Lines) /\ n \in Nat /\ Len(a) = n + 1 /\ a[n + 1] = t[1]
        /\ \A i \in 1..n : a[i] = s[i]
    BY <2>1
  <2> HIDE DEF a
  <2>3. v \in Seq(Lines) /\ Len(v) = n + Len(t)
        /\ \A i \in 1..n + Len(t) : v[i] = IF i <= n THEN s[i] ELSE t[i - n]
    OBVIOUS
  <2>4. u \in Seq(Lines) /\ Len(u) = n + 1 + (Len(t) - 1)
        /\ \A i \in 1..n + 1 + (Len(t) - 1) :
              u[i] = IF i <= n + 1 THEN a[i] ELSE Tail(t)[i - (n + 1)]
    BY <2>1, <2>2
  <2>5. \A i \in 1..n + Len(t) : u[i] = v[i]
    BY <2>1, <2>2, <2>3, <2>4
  <2> HIDE DEF u, v
  <2>6. u = v
    BY <2>1, <2>2, <2>3, <2>4, <2>5, SeqEqual
  <2> QED
    BY <2>1, <2>6 DEF u, v, a
<1> QED
  BY <1>1, <1>2, <1>3

-------------------------------------------------------------------------------
(***************************************************************************)
(* Repl: its steps, each of which keeps the invariant                      *)
(***************************************************************************)
\* What a step does that leaves lines, waiters and the user alone, and has runRepl
\* neither wait nor submit.
LEMMA OnwardStep ==
    ASSUME ReplAssumption, ReplInv, main \in Submitting,
           NEW action, ClearDue \/ action # "/clear",
           main' = Onward(action, exitRequested),
           UNCHANGED <<lineVars, given, exitRequested, idleInterrupts, row, userVars, session>>,
           pendingHostAction' \in {"none", "/clear", "/quit"},
           EventsTyped', TurnTyped', EventsInv', turn' = "none",
           \A kind \in {"/clear", "/quit"} :
              Tells(values', kind) =>
                  Tells(values, kind) \/ (main = "submitting" /\ given = kind),
           consumer' = "asking" <=> consumer = "asking"
    PROVE  ReplInv'
<1> USE DEF Submitting, Inactive, Onward
<1>1. /\ LinesTyped /\ LoopTyped /\ UserTyped /\ EventsTyped /\ TurnTyped
      /\ LinesInv /\ EventsInv /\ AskedInv /\ SwitchInv
  BY DEF ReplInv
<1>2. LinesTyped'
  BY <1>1 DEF LinesTyped, lineVars
<1>3. LoopTyped'
  BY <1>1 DEF LoopTyped
<1>4. UserTyped'
  BY <1>1 DEF UserTyped, userVars
<1>5. LinesInv'
  BY <1>1 DEF LinesInv, lineVars, userVars
<1>6. AskedInv'
  BY <1>1 DEF AskedInv, EndAsked, Ending, lineVars, userVars
<1>7. SwitchInv'
  BY <1>1 DEF SwitchInv, ClearDue, lineVars
<1> QED
  BY <1>1, <1>2, <1>3, <1>4, <1>5, <1>6, <1>7 DEF ReplInv

\* An event that is pushed.
LEMMA PushStep ==
    ASSUME ReplInv, NEW e \in ReplEvent, Pushed(e), rendered' = rendered, session' = session
    PROVE  /\ EventsTyped' /\ EventsInv'
           /\ consumer' = "asking" <=> consumer = "asking"
           /\ \A kind : Tells(values', kind) => Tells(values, kind) \/ e.kind = kind
<1> HIDE DEF ReplEvent
<1>1. EventsTyped /\ EventsInv
  BY DEF ReplInv
<1>2. CASE queueClosed
  BY <1>1, <1>2 DEF Pushed, EventsInv, EventsTyped
<1>3. CASE ~queueClosed
  <2>1. values' = Append(values, e) /\ queueClosed' = queueClosed
    BY <1>3 DEF Pushed
  <2>2. /\ Len(values') = Len(values) + 1
        /\ values' \in Seq(ReplEvent) /\ Len(values) \in Nat
        /\ \A kind : Tells(values', kind) => Tells(values, kind) \/ e.kind = kind
    BY <1>1, <2>1, OneEventMore DEF EventsTyped
  <2>3. EventsInv'
    BY <1>1, <1>3, <2>2 DEF Pushed, EventsInv, EventsTyped
  <2>4. EventsTyped'
    BY <1>1, <1>3, <2>2 DEF Pushed, EventsTyped
  <2> QED
    BY <1>1, <1>3, <2>2, <2>3, <2>4 DEF Pushed
<1> QED
  BY <1>2, <1>3

LEMMA OutputStep ==
    ASSUME ReplAssumption, ReplInv, Output PROVE ReplInv'
<1> USE DEF Submitting, Inactive
<1>1. /\ LinesTyped /\ LoopTyped /\ UserTyped /\ EventsTyped /\ TurnTyped
      /\ LinesInv /\ EventsInv /\ AskedInv /\ SwitchInv
  BY DEF ReplInv
<1>2. given \in {"/clear", "/quit"} /\ Plain(given) \in ReplEvent /\ Plain(given).kind = given
  BY <1>1, PlainEvents DEF LoopTyped, Output
<1>3. /\ EventsTyped' /\ EventsInv'
      /\ consumer' = "asking" <=> consumer = "asking"
      /\ \A kind : Tells(values', kind) => Tells(values, kind) \/ given = kind
  <2>1. Pushed(Plain(given)) /\ rendered' = rendered /\ session' = session
    BY DEF Output
  <2> QED
    BY <1>2, <2>1, PushStep
<1>4. TurnTyped' /\ turn' = "none" /\ main = "submitting"
  BY <1>1, <1>2 DEF TurnTyped, Output, SwitchInv
<1>5. CASE pendingHostAction # "none"
  <2>1. main' = Onward(pendingHostAction, exitRequested)
        /\ (ClearDue \/ pendingHostAction # "/clear")
    BY <1>4, <1>5 DEF Output, ClearDue
  <2>2. pendingHostAction' \in {"none", "/clear", "/quit"}
        /\ UNCHANGED <<lineVars, given, exitRequested, idleInterrupts, row, userVars, session>>
    BY <1>1 DEF Output, LoopTyped
  <2> QED
    BY <1>3, <1>4, <2>1, <2>2, OnwardStep
<1>6. CASE pendingHostAction = "none"
  <2>1. main' = "hostWait" /\ pendingHostAction' = "none"
    BY <1>6 DEF Output
  <2>2. LinesTyped'
    BY <1>1, <1>3, <1>4, <2>1 DEF LinesTyped, Output, lineVars
  <2>3. LoopTyped'
    BY <1>1, <1>3, <1>4, <2>1 DEF LoopTyped, Output
  <2>4. UserTyped'
    BY <1>1, <1>3, <1>4, <2>1 DEF UserTyped, Output, userVars
  <2>5. LinesInv'
    BY <1>1, <1>3, <1>4, <2>1 DEF LinesInv, Output, lineVars, userVars
  <2>6. AskedInv'
    BY <1>1, <1>3, <1>4, <2>1 DEF AskedInv, EndAsked, Ending, Output, lineVars, userVars
  <2>7. SwitchInv'
    BY <1>1, <1>3, <1>4, <2>1 DEF SwitchInv, ClearDue, Output, lineVars
  <2> QED
    BY <1>3, <1>4, <2>2, <2>3, <2>4, <2>5, <2>6, <2>7 DEF ReplInv
<1> QED
  BY <1>5, <1>6

LEMMA TurnEndsStep ==
    ASSUME ReplAssumption, ReplInv, TurnEnds PROVE ReplInv'
<1> USE DEF Submitting, Inactive
<1>1. /\ LinesTyped /\ LoopTyped /\ UserTyped /\ EventsTyped /\ TurnTyped
      /\ LinesInv /\ EventsInv /\ AskedInv /\ SwitchInv
  BY DEF ReplInv
<1>2. Plain("print") \in ReplEvent /\ Plain("print").kind = "print"
  BY PlainEvents
<1>3. /\ EventsTyped' /\ EventsInv'
      /\ consumer' = "asking" <=> consumer = "asking"
      /\ \A kind \in {"/clear", "/quit"} : Tells(values', kind) => Tells(values, kind)
  <2>1. Pushed(Plain("print")) /\ rendered' = rendered /\ session' = session
    BY DEF TurnEnds
  <2> QED
    BY <1>2, <2>1, PushStep
<1>4. main = "submitting" /\ main' = Onward(pendingHostAction, exitRequested)
      /\ TurnTyped' /\ turn' = "none" /\ (ClearDue \/ pendingHostAction # "/clear")
  BY <1>1 DEF TurnEnds, TurnTyped, SwitchInv, ClearDue
<1>5. pendingHostAction' \in {"none", "/clear", "/quit"}
      /\ UNCHANGED <<lineVars, given, exitRequested, idleInterrupts, row, userVars, session>>
  BY <1>1 DEF TurnEnds, LoopTyped
<1> QED
  BY <1>3, <1>4, <1>5, OnwardStep

LEMMA HostTimeoutStep ==
    ASSUME ReplAssumption, ReplInv, HostTimeout PROVE ReplInv'
<1> USE DEF Submitting, Inactive
<1>1. /\ LinesTyped /\ LoopTyped /\ UserTyped /\ EventsTyped /\ TurnTyped
      /\ LinesInv /\ EventsInv /\ AskedInv /\ SwitchInv
  BY DEF ReplInv
<1>2. EventsTyped' /\ EventsInv' /\ values' = values /\ consumer' = consumer
  BY <1>1 DEF EventsTyped, EventsInv, HostTimeout, eventVars
<1>3. main = "hostWait" /\ main' = Onward("none", exitRequested) /\ TurnTyped' /\ turn' = "none"
  BY <1>1 DEF HostTimeout, TurnTyped, SwitchInv
<1>4. pendingHostAction' \in {"none", "/clear", "/quit"}
      /\ UNCHANGED <<lineVars, given, exitRequested, idleInterrupts, row, userVars, session>>
  BY <1>1 DEF HostTimeout, LoopTyped
<1> QED
  BY <1>2, <1>3, <1>4, OnwardStep

LEMMA CreateFreshStep ==
    ASSUME ReplAssumption, ReplInv, CreateFresh PROVE ReplInv'
<1> USE DEF Submitting, Inactive
<1>1. /\ LinesTyped /\ LoopTyped /\ UserTyped /\ EventsTyped /\ TurnTyped
      /\ LinesInv /\ EventsInv /\ AskedInv /\ SwitchInv
  BY DEF ReplInv
<1>2. LinesTyped'
  BY <1>1 DEF LinesTyped, CreateFresh, lineVars
<1>3. LoopTyped'
  BY <1>1 DEF LoopTyped, CreateFresh
<1>4. UserTyped'
  BY <1>1 DEF UserTyped, CreateFresh
<1>5. EventsTyped'
  BY <1>1 DEF EventsTyped, CreateFresh, eventVars
<1>6. TurnTyped'
  BY <1>1 DEF TurnTyped, CreateFresh
<1>7. LinesInv'
  BY <1>1 DEF LinesInv, CreateFresh, lineVars, eventVars
<1>8. EventsInv'
  BY <1>1 DEF EventsInv, CreateFresh, eventVars
<1>9. AskedInv'
  BY <1>1 DEF AskedInv, EndAsked, Ending, CreateFresh, lineVars, eventVars
<1>10. SwitchInv'
  BY <1>1 DEF SwitchInv, ClearDue, CreateFresh, lineVars, eventVars
<1> QED
  BY <1>2, <1>3, <1>4, <1>5, <1>6, <1>7, <1>8, <1>9, <1>10 DEF ReplInv

LEMMA LeaveStep ==
    ASSUME ReplAssumption, ReplInv, Leave PROVE ReplInv'
<1> USE DEF Submitting, Inactive
<1>1. /\ LinesTyped /\ LoopTyped /\ UserTyped /\ EventsTyped /\ TurnTyped
      /\ LinesInv /\ EventsInv /\ AskedInv /\ SwitchInv
  BY DEF ReplInv
<1>2. /\ waiters' = <<>> /\ consumer' # "asking" /\ main' = "closing last"
      /\ consumer = "asking" => consumer' = "next" /\ rendered' = rendered + 1
      /\ consumer # "asking" => consumer' = consumer /\ rendered' = rendered
      /\ ~MainWaits(<<>>) /\ ~AskWaits(<<>>)
      /\ values' = values /\ index' = index /\ queueClosed' = queueClosed
  <2>1. consumer = "asking" => tty
    BY <1>1, Waiters DEF LinesInv, LinesTyped
  <2> QED
    BY <1>1, <2>1, Waiters DEF Leave, LinesTyped
<1>3. LinesTyped'
  BY <1>1, <1>2 DEF LinesTyped, Leave
<1>4. LoopTyped'
  BY <1>1, <1>2 DEF LoopTyped, Leave
<1>5. UserTyped'
  BY <1>1, <1>2 DEF UserTyped, Leave, userVars
<1>6. EventsTyped'
  BY <1>1, <1>2 DEF EventsTyped, Leave, EventsInv
<1>7. TurnTyped'
  BY <1>1, <1>2 DEF TurnTyped, Leave
<1>8. LinesInv'
  BY <1>1, <1>2 DEF LinesInv, Leave, userVars
<1>9. EventsInv'
  <2>1. index \in Nat /\ rendered \in Nat
    BY <1>1 DEF EventsTyped
  <2>2. CASE consumer = "asking"
    <3>1. index = rendered + 1
      BY <1>1, <2>2 DEF EventsInv
    <3>2. index' = index /\ rendered' = rendered + 1 /\ consumer' = "next"
      BY <1>2, <2>2
    <3> QED
      BY <2>1, <3>1, <3>2 DEF EventsInv
  <2>3. CASE consumer # "asking"
    BY <1>1, <1>2, <2>3 DEF EventsInv
  <2> QED
    BY <2>2, <2>3
<1>10. AskedInv'
  BY <1>1, <1>2 DEF AskedInv, EndAsked, Ending, Leave, userVars
<1>11. SwitchInv'
  BY <1>1, <1>2 DEF SwitchInv, ClearDue, Leave
<1> QED
  BY <1>3, <1>4, <1>5, <1>6, <1>7, <1>8, <1>9, <1>10, <1>11 DEF ReplInv

LEMMA CloseSessionStep ==
    ASSUME ReplAssumption, ReplInv, CloseSession PROVE ReplInv'
<1> USE DEF Submitting, Inactive
<1>1. /\ LinesTyped /\ LoopTyped /\ UserTyped /\ EventsTyped /\ TurnTyped
      /\ LinesInv /\ EventsInv /\ AskedInv /\ SwitchInv
  BY DEF ReplInv
<1>2. /\ queueClosed' = TRUE /\ values' = values /\ index' = index /\ rendered' = rendered
      /\ consumer' = IF consumer = "parked" THEN "done" ELSE consumer
  BY DEF CloseSession, QueueCloses
<1>3. LinesTyped'
  BY <1>1, <1>2 DEF LinesTyped, CloseSession, lineVars
<1>4. LoopTyped'
  BY <1>1, <1>2 DEF LoopTyped, CloseSession
<1>5. UserTyped'
  BY <1>1, <1>2 DEF UserTyped, CloseSession, userVars
<1>6. EventsTyped'
  BY <1>1, <1>2 DEF EventsTyped, CloseSession
<1>7. TurnTyped'
  BY <1>1, <1>2 DEF TurnTyped, CloseSession
<1>8. LinesInv'
  BY <1>1, <1>2 DEF LinesInv, CloseSession, lineVars, userVars
<1>9. EventsInv'
  BY <1>1, <1>2 DEF EventsInv, CloseSession
<1>10. AskedInv'
  BY <1>1, <1>2 DEF AskedInv, EndAsked, Ending, CloseSession, lineVars, userVars
<1>11. SwitchInv'
  BY <1>1, <1>2 DEF SwitchInv, ClearDue, CloseSession, lineVars
<1> QED
  BY <1>3, <1>4, <1>5, <1>6, <1>7, <1>8, <1>9, <1>10, <1>11 DEF ReplInv

LEMMA SwitchStep ==
    ASSUME ReplAssumption, ReplInv, Switch PROVE ReplInv'
<1> USE DEF Submitting, Inactive
<1>1. /\ LinesTyped /\ LoopTyped /\ UserTyped /\ EventsTyped /\ TurnTyped
      /\ LinesInv /\ EventsInv /\ AskedInv /\ SwitchInv
  BY DEF ReplInv
<1>2. /\ main = "draining" /\ consumer = "done" /\ consumer' = "next" /\ values' = <<>>
      /\ index' = 0 /\ rendered' = 0 /\ session' = session + 1
      /\ main' = IF exitRequested THEN "leaving" ELSE "prompt"
  BY DEF Switch, NewSession
<1>3. \A kind : ~Tells(values', kind)
  BY <1>2 DEF Tells
<1>4. taken' = taken /\ session <= Clears(taken) /\ Clears(taken) \in Nat
  BY <1>1, <1>2, ClearsTyped DEF SwitchInv, ClearDue, LinesTyped, Switch, NewSession, lineVars
<1>5. values' \in Seq(ReplEvent) /\ Len(values') = 0 /\ queueClosed' \in BOOLEAN
      /\ session' \in Nat \ {0}
  <2>1. queueClosed' = FALSE
    BY DEF Switch, NewSession
  <2> HIDE DEF ReplEvent
  <2>2. <<>> \in Seq(ReplEvent) /\ Len(<<>>) = 0
    OBVIOUS
  <2>3. values' = <<>>
    BY <1>2
  <2>4. values' \in Seq(ReplEvent) /\ Len(values') = 0
    BY <2>2, <2>3
  <2>5. queueClosed' \in BOOLEAN
    BY <2>1
  <2>6. session' \in Nat \ {0}
    BY <1>1, <1>2 DEF EventsTyped
  <2> QED
    BY <2>4, <2>5, <2>6
<1>6. index' = 0 /\ rendered' = 0 /\ consumer' = "next"
  BY <1>2
<1>7. LinesTyped'
  BY <1>1, <1>2 DEF LinesTyped, Switch, NewSession, lineVars
<1>8. LoopTyped'
  BY <1>1, <1>2 DEF LoopTyped, Switch, NewSession
<1>9. UserTyped'
  BY <1>1, <1>2 DEF UserTyped, Switch, NewSession, userVars
<1>10. EventsTyped'
  BY <1>5, <1>6 DEF EventsTyped
<1>11. TurnTyped'
  BY <1>1, <1>2 DEF TurnTyped, Switch, NewSession
<1>12. LinesInv'
  BY <1>1, <1>2 DEF LinesInv, Switch, NewSession, lineVars, userVars
<1>13. EventsInv'
  BY <1>1, <1>2 DEF EventsInv, Switch, NewSession
<1>14. AskedInv'
  BY <1>1, <1>2, <1>3 DEF AskedInv, EndAsked, Ending, Switch, NewSession, lineVars,
         userVars
<1>15. SwitchInv'
  BY <1>1, <1>2, <1>3, <1>4 DEF SwitchInv, ClearDue, Switch, NewSession, lineVars,
         EventsTyped
<1> QED
  BY <1>7, <1>8, <1>9, <1>10, <1>11, <1>12, <1>13, <1>14, <1>15 DEF ReplInv

LEMMA ExitedStep ==
    ASSUME ReplAssumption, ReplInv, Exited PROVE ReplInv'
<1> USE DEF Submitting, Inactive
<1>1. /\ LinesTyped /\ LoopTyped /\ UserTyped /\ EventsTyped /\ TurnTyped
      /\ LinesInv /\ EventsInv /\ AskedInv /\ SwitchInv
  BY DEF ReplInv
<1>2. LinesTyped'
  BY <1>1 DEF LinesTyped, Exited, lineVars
<1>3. LoopTyped'
  BY <1>1 DEF LoopTyped, Exited
<1>4. UserTyped'
  BY <1>1 DEF UserTyped, Exited, userVars
<1>5. EventsTyped'
  BY <1>1 DEF EventsTyped, Exited, eventVars
<1>6. TurnTyped'
  BY <1>1 DEF TurnTyped, Exited
<1>7. LinesInv'
  BY <1>1 DEF LinesInv, Exited, lineVars, userVars, eventVars
<1>8. EventsInv'
  BY <1>1 DEF EventsInv, Exited, eventVars
<1>9. AskedInv'
  BY <1>1 DEF AskedInv, EndAsked, Ending, Exited, lineVars, userVars, eventVars
<1>10. SwitchInv'
  BY <1>1 DEF SwitchInv, ClearDue, Exited, lineVars, eventVars
<1> QED
  BY <1>2, <1>3, <1>4, <1>5, <1>6, <1>7, <1>8, <1>9, <1>10 DEF ReplInv

\* A line that runRepl has waited for, or found, is handed to it.
Handed(line) ==
    /\ HasLine(line)
    /\ main \in {"prompt", "waiting"} /\ taken' = Append(taken, line)
    /\ UNCHANGED <<tty, closed, userVars, session, eventVars, rendered, approvals>>
    /\ ~closed \/ ~tty
    /\ LinesTyped' /\ typed' = taken' \o queue'
    /\ waiters' # <<>> => tty /\ queue' = <<>>
    /\ ~MainWaits(waiters') /\ (AskWaits(waiters') <=> AskWaits(waiters))

LEMMA HandedStep ==
    ASSUME ReplAssumption, ReplInv, NEW line \in Lines, Handed(line) PROVE ReplInv'
<1> USE DEF Submitting, Inactive
<1>1. /\ LinesTyped /\ LoopTyped /\ UserTyped /\ EventsTyped /\ TurnTyped
      /\ LinesInv /\ EventsInv /\ AskedInv /\ SwitchInv
  BY DEF ReplInv
<1>2. /\ \A kind : Had(taken, kind) => Had(taken', kind)
      /\ Had(taken', KindOf[line])
      /\ Clears(taken) \in Nat /\ Clears(taken') \in Nat /\ Clears(taken) <= Clears(taken')
      /\ KindOf[line] = "/clear" => Clears(taken') = Clears(taken) + 1
  BY <1>1, OneLineMore DEF LinesTyped, Handed
<1>3. KindOf[line] \in {"text", "blank", "/clear", "/quit"}
  BY ReplAssumption
<1>4. /\ turn = "none" /\ row' = 0 /\ interrupts' = interrupts
      /\ session' = session /\ values' = values /\ index' = index /\ consumer' = consumer
      /\ rendered' = rendered /\ approvals' = approvals
      /\ main \in {"prompt", "waiting"}
  BY <1>1 DEF SwitchInv, Handed, HasLine, userVars, eventVars
<1>5. UserTyped' /\ EventsTyped' /\ EventsInv'
  BY <1>1 DEF Handed, UserTyped, EventsTyped, EventsInv, userVars, eventVars
<1>6. /\ exitRequested' \in BOOLEAN /\ (exitRequested' <=> exitRequested)
      /\ (tty' <=> tty) /\ (closed' <=> closed) /\ (excused' <=> excused)
  <2>1. exitRequested' = exitRequested /\ tty' = tty /\ closed' = closed /\ excused' = excused
    BY DEF Handed, HasLine, userVars
  <2>2. exitRequested' \in BOOLEAN
    BY <1>1, <2>1 DEF LoopTyped
  <2> QED
    BY <2>1, <2>2
<1>7. MaxInterrupts \in Nat /\ 0 \in 0..MaxInterrupts
  <2>1. MaxInterrupts \in Nat
    BY ReplAssumption
  <2> QED
    BY <2>1
<1>8. LinesTyped' /\ (closed => ~tty)
  BY DEF Handed
<1>9. CASE exitRequested
  <2>1. main' = "leaving" /\ given' = given /\ pendingHostAction' = pendingHostAction
        /\ turn' = turn /\ idleInterrupts' = idleInterrupts
    BY <1>9 DEF Handed, HasLine
  <2>2. LoopTyped' /\ TurnTyped'
    BY <1>1, <1>4, <1>6, <2>1, <1>7 DEF LoopTyped, TurnTyped
  <2>3. LinesInv'
    BY <1>1, <1>4, <2>1 DEF LinesInv, Handed, UserTyped, userVars
  <2>4. AskedInv'
    BY <1>1, <1>2, <1>4, <1>9, <1>6, <1>8, <2>1 DEF AskedInv, EndAsked, Ending
  <2>5. SwitchInv'
    BY <1>1, <1>2, <1>4, <2>1 DEF SwitchInv, ClearDue, EventsTyped
  <2> QED
    BY <1>5, <1>8, <2>2, <2>3, <2>4, <2>5 DEF ReplInv
<1>10. CASE ~exitRequested /\ KindOf[line] = "blank"
  <2>1. main' = "prompt" /\ given' = given /\ pendingHostAction' = pendingHostAction
        /\ turn' = turn /\ idleInterrupts' = 0
    BY <1>10 DEF Handed, HasLine
  <2>2. LoopTyped' /\ TurnTyped'
    BY <1>1, <1>4, <1>6, <2>1, <1>7 DEF LoopTyped, TurnTyped
  <2>3. LinesInv'
    BY <1>1, <1>4, <2>1 DEF LinesInv, Handed, UserTyped, userVars
  <2>4. AskedInv'
    <3>1. main' \notin Ending /\ idleInterrupts' <= row'
      BY <1>4, <2>1 DEF Ending
    <3>2. closed' => EndAsked'
      BY <1>6, <1>8 DEF EndAsked
    <3>3. ~exitRequested'
      BY <1>10, <1>6
    <3>4. given' = "/quit" => Had(taken', "/quit")
      BY <1>1, <1>2, <2>1 DEF AskedInv
    <3>5. Tells(values', "/quit") => Had(taken', "/quit")
      BY <1>1, <1>2, <1>4 DEF AskedInv
    <3> QED
      BY <3>1, <3>2, <3>3, <3>4, <3>5 DEF AskedInv
  <2>5. SwitchInv'
    BY <1>1, <1>2, <1>4, <2>1 DEF SwitchInv, ClearDue, EventsTyped
  <2> QED
    BY <1>5, <1>8, <2>2, <2>3, <2>4, <2>5 DEF ReplInv
<1>11. CASE ~exitRequested /\ KindOf[line] # "blank"
  <2>1. main' = "submitting" /\ given' = KindOf[line] /\ pendingHostAction' = "none"
        /\ turn' \in {"none", "running"} /\ (turn' # "none" => given' = "text")
        /\ idleInterrupts' = 0
    BY <1>11 DEF Handed, HasLine
  <2>2. LoopTyped' /\ TurnTyped'
    BY <1>1, <1>3, <1>4, <1>11, <1>6, <2>1, <1>7 DEF LoopTyped, TurnTyped
  <2>3. LinesInv'
    BY <1>1, <1>4, <2>1 DEF LinesInv, Handed, UserTyped, userVars
  <2>4. AskedInv'
    <3>1. main' \notin Ending /\ idleInterrupts' <= row'
      BY <1>4, <2>1 DEF Ending
    <3>2. closed' => EndAsked'
      BY <1>6, <1>8 DEF EndAsked
    <3>3. ~exitRequested'
      BY <1>11, <1>6
    <3>4. given' = "/quit" => Had(taken', "/quit")
      BY <1>2, <2>1 DEF AskedInv
    <3>5. Tells(values', "/quit") => Had(taken', "/quit")
      BY <1>1, <1>2, <1>4 DEF AskedInv
    <3> QED
      BY <3>1, <3>2, <3>3, <3>4, <3>5 DEF AskedInv
  <2>5. SwitchInv'
    BY <1>1, <1>2, <1>4, <2>1 DEF SwitchInv, ClearDue, EventsTyped
  <2> QED
    BY <1>5, <1>8, <2>2, <2>3, <2>4, <2>5 DEF ReplInv
<1> QED
  BY <1>9, <1>10, <1>11

LEMMA PromptStep ==
    ASSUME ReplAssumption, ReplInv, Prompt PROVE ReplInv'
<1> USE DEF Submitting, Inactive
<1>1. /\ LinesTyped /\ LoopTyped /\ UserTyped /\ EventsTyped /\ TurnTyped
      /\ LinesInv /\ EventsInv /\ AskedInv /\ SwitchInv
  BY DEF ReplInv
<1>2. /\ main = "prompt" /\ ~MainWaits(waiters)
      /\ UNCHANGED <<userVars, session, eventVars, rendered, approvals>>
  BY <1>1 DEF LinesInv, Prompt
<1>3. CASE NoMoreLines /\ main' = "leaving"
           /\ UNCHANGED <<lineVars, given, exitRequested, idleInterrupts,
                          pendingHostAction, row, turn>>
  <2>1. LinesTyped'
    BY <1>1, <1>2, <1>3 DEF LinesTyped, lineVars
  <2>2. LoopTyped'
    BY <1>1, <1>2, <1>3 DEF LoopTyped
  <2>3. UserTyped'
    BY <1>1, <1>2, <1>3 DEF UserTyped, userVars
  <2>4. EventsTyped'
    BY <1>1, <1>2, <1>3 DEF EventsTyped, eventVars
  <2>5. TurnTyped'
    BY <1>1, <1>2, <1>3 DEF TurnTyped
  <2>6. LinesInv'
    BY <1>1, <1>2, <1>3 DEF LinesInv, lineVars, userVars, eventVars
  <2>7. EventsInv'
    BY <1>1, <1>2, <1>3 DEF EventsInv, eventVars
  <2>8. AskedInv'
    BY <1>1, <1>2, <1>3 DEF AskedInv, EndAsked, Ending, NoMoreLines, lineVars, userVars,
           eventVars
  <2>9. SwitchInv'
    BY <1>1, <1>2, <1>3 DEF SwitchInv, ClearDue, lineVars, eventVars
  <2> QED
    BY <2>1, <2>2, <2>3, <2>4, <2>5, <2>6, <2>7, <2>8, <2>9 DEF ReplInv
<1>4. CASE LineThere /\ TakeLine /\ HasLine(Head(queue))
  <2>1. /\ queue # <<>> /\ taken' = Append(taken, Head(queue)) /\ queue' = Tail(queue)
        /\ UNCHANGED <<tty, typed, waiters, closed>> /\ (~closed \/ ~tty)
    BY <1>4 DEF LineThere, NoMoreLines, TakeLine
  <2>2. Head(queue) \in Lines /\ Tail(queue) \in Seq(Lines)
    BY <1>1, <2>1 DEF LinesTyped
  <2>3. Append(taken, Head(queue)) \in Seq(Lines)
        /\ Append(taken, Head(queue)) \o Tail(queue) = taken \o queue
    BY <1>1, <2>1, <2>2, LinesMove, OneLineMore DEF LinesTyped
  <2>4. queue' \in Seq(Lines) /\ taken' \in Seq(Lines) /\ taken' \o queue' = taken \o queue
    BY <2>1, <2>2, <2>3
  <2>5. LinesTyped' /\ typed' = taken' \o queue' /\ waiters' = <<>> /\ waiters = <<>>
    BY <1>1, <2>1, <2>4 DEF LinesTyped, LinesInv
  <2>6. Handed(Head(queue))
    BY <1>2, <1>4, <2>1, <2>5 DEF Handed
  <2> QED
    BY <2>6, <2>2, HandedStep
<1>5. CASE ~NoMoreLines /\ ~LineThere /\ Wait("main") /\ main' = "waiting"
           /\ UNCHANGED <<given, exitRequested, idleInterrupts, pendingHostAction, row, turn>>
  <2>1. /\ tty /\ queue = <<>> /\ waiters' = Append(waiters, "main")
        /\ UNCHANGED <<tty, typed, taken, queue, closed>>
    BY <1>5 DEF NoMoreLines, LineThere, Wait
  <2>2. waiters' \in {<<"main">>, <<"approval", "main">>} /\ MainWaits(waiters')
        /\ (AskWaits(waiters') <=> AskWaits(waiters))
    BY <1>1, <1>2, <2>1, MainComes DEF LinesTyped
  <2>3. LinesTyped'
    BY <1>1, <1>2, <1>5, <2>1, <2>2 DEF LinesTyped
  <2>4. LoopTyped'
    BY <1>1, <1>2, <1>5, <2>1, <2>2 DEF LoopTyped
  <2>5. UserTyped'
    BY <1>1, <1>2, <1>5, <2>1, <2>2 DEF UserTyped, userVars
  <2>6. EventsTyped'
    BY <1>1, <1>2, <1>5, <2>1, <2>2 DEF EventsTyped, eventVars
  <2>7. TurnTyped'
    BY <1>1, <1>2, <1>5, <2>1, <2>2 DEF TurnTyped
  <2>8. LinesInv'
    BY <1>1, <1>2, <1>5, <2>1, <2>2 DEF LinesInv, userVars, eventVars
  <2>9. EventsInv'
    BY <1>1, <1>2, <1>5, <2>1, <2>2 DEF EventsInv, eventVars
  <2>10. AskedInv'
    BY <1>1, <1>2, <1>5, <2>1, <2>2 DEF AskedInv, EndAsked, Ending, userVars, eventVars
  <2>11. SwitchInv'
    BY <1>1, <1>2, <1>5, <2>1, <2>2 DEF SwitchInv, ClearDue, eventVars
  <2> QED
    BY <2>3, <2>4, <2>5, <2>6, <2>7, <2>8, <2>9, <2>10, <2>11 DEF ReplInv
<1> QED
  BY <1>3, <1>4, <1>5 DEF Prompt

LEMMA NextEventStep ==
    ASSUME ReplAssumption, ReplInv, NextEvent PROVE ReplInv'
<1> USE DEF Submitting, Inactive
<1>1. /\ LinesTyped /\ LoopTyped /\ UserTyped /\ EventsTyped /\ TurnTyped
      /\ LinesInv /\ EventsInv /\ AskedInv /\ SwitchInv
  BY DEF ReplInv
<1>2. index \in Nat /\ Len(values) \in Nat /\ index <= Len(values) /\ index = rendered
      /\ consumer = "next" /\ values' = values /\ rendered' = rendered
  BY <1>1 DEF EventsTyped, EventsInv, NextEvent
<1>3. \/ consumer' = "has" /\ index' = index + 1
      \/ consumer' = "done" /\ index' = index /\ index = Len(values) /\ queueClosed'
      \/ consumer' = "parked" /\ index' = index /\ index = Len(values)
  <2>1. CASE index < Len(values)
    BY <2>1 DEF NextEvent
  <2>2. CASE ~(index < Len(values))
    <3>1. index = Len(values) /\ index' = index
      BY <1>2, <2>2 DEF NextEvent
    <3>2. queueClosed' = queueClosed
          /\ consumer' = IF queueClosed THEN "done" ELSE "parked"
      BY <2>2 DEF NextEvent
    <3> QED
      BY <3>1, <3>2
  <2> QED
    BY <2>1, <2>2
<1>4. LinesTyped'
  BY <1>1 DEF LinesTyped, NextEvent, lineVars
<1>5. LoopTyped'
  BY <1>1 DEF LoopTyped, NextEvent, loopVars
<1>6. UserTyped'
  BY <1>1 DEF UserTyped, NextEvent, userVars
<1>7. EventsTyped'
  BY <1>1 DEF EventsTyped, NextEvent
<1>8. TurnTyped'
  BY <1>1 DEF TurnTyped, NextEvent
<1>9. LinesInv'
  BY <1>1 DEF LinesInv, NextEvent, lineVars, loopVars, userVars
<1>10. EventsInv'
  BY <1>2, <1>3 DEF EventsInv
<1>11. AskedInv'
  BY <1>1 DEF AskedInv, EndAsked, Ending, NextEvent, lineVars, loopVars, userVars
<1>12. SwitchInv'
  BY <1>1 DEF SwitchInv, ClearDue, NextEvent, lineVars, loopVars
<1> QED
  BY <1>4, <1>5, <1>6, <1>7, <1>8, <1>9, <1>10, <1>11, <1>12 DEF ReplInv

\* The event in hand.
LEMMA InHand ==
    ASSUME ReplInv, consumer \in {"has", "asking", "responding"}
    PROVE  /\ index \in 1..Len(values) /\ values[index] \in ReplEvent
           /\ index = rendered + 1 /\ Tells(values, values[index].kind)
<1> HIDE DEF ReplEvent
<1>1. EventsTyped /\ EventsInv
  BY DEF ReplInv
<1>2. index = rendered + 1 /\ index \in 1..Len(values)
  BY <1>1 DEF EventsTyped, EventsInv
<1>3. values[index] \in ReplEvent
  BY <1>1, <1>2 DEF EventsTyped
<1> QED
  BY <1>2, <1>3 DEF Tells

LEMMA ShowStep ==
    ASSUME ReplAssumption, ReplInv, Show PROVE ReplInv'
<1> USE DEF Submitting, Inactive
<1>1. /\ LinesTyped /\ LoopTyped /\ UserTyped /\ EventsTyped /\ TurnTyped
      /\ LinesInv /\ EventsInv /\ AskedInv /\ SwitchInv
  BY DEF ReplInv
<1>2. index \in Nat /\ rendered \in Nat /\ index = rendered + 1 /\ index <= Len(values)
  BY <1>1, InHand DEF Show, Rendering, EventsTyped
<1>3. index' = index /\ rendered' = rendered + 1 /\ consumer' = "next" /\ values' = values
  BY DEF Show
<1>4. LinesTyped'
  BY <1>1 DEF LinesTyped, Show, lineVars
<1>5. LoopTyped'
  BY <1>1 DEF LoopTyped, Show, loopVars
<1>6. UserTyped'
  BY <1>1 DEF UserTyped, Show, userVars
<1>7. EventsTyped'
  BY <1>1, <1>2 DEF EventsTyped, Show
<1>8. TurnTyped'
  BY <1>1 DEF TurnTyped, Show
<1>9. LinesInv'
  BY <1>1 DEF LinesInv, Show, lineVars, loopVars, userVars, Rendering
<1>10. EventsInv'
  BY <1>2, <1>3 DEF EventsInv
<1>11. AskedInv'
  BY <1>1 DEF AskedInv, EndAsked, Ending, Show, lineVars, loopVars, userVars
<1>12. SwitchInv'
  BY <1>1 DEF SwitchInv, ClearDue, Show, lineVars, loopVars
<1> QED
  BY <1>4, <1>5, <1>6, <1>7, <1>8, <1>9, <1>10, <1>11, <1>12 DEF ReplInv

LEMMA HostActionStep ==
    ASSUME ReplAssumption, ReplInv, NEW kind \in {"/clear", "/quit"}, HostAction(kind)
    PROVE  ReplInv'
<1> USE DEF Submitting, Inactive
<1>1. /\ LinesTyped /\ LoopTyped /\ UserTyped /\ EventsTyped /\ TurnTyped
      /\ LinesInv /\ EventsInv /\ AskedInv /\ SwitchInv
  BY DEF ReplInv
<1>2. Tells(values, kind)
  BY InHand DEF HostAction, Rendering
<1>3. index \in Nat /\ rendered \in Nat /\ index = rendered + 1 /\ index <= Len(values)
  BY <1>1, InHand DEF HostAction, Rendering, EventsTyped
<1>4. /\ consumer = "has" /\ consumer' = "next" /\ rendered' = rendered + 1
      /\ UNCHANGED <<lineVars, given, idleInterrupts, row, userVars, session, values, index,
                     queueClosed, turn, approvals>>
      /\ pendingHostAction' = kind
  BY DEF HostAction, Rendering
<1>5. /\ exitRequested' \in BOOLEAN
      /\ exitRequested' <=> exitRequested \/ kind = "/quit"
      /\ main # "hostWait" => main' = main
      /\ main = "hostWait" => /\ kind = "/clear" => main' = "fresh"
                              /\ kind # "/clear" => main' = "leaving"
  BY <1>1 DEF HostAction, LoopTyped, Onward
<1>6. LinesTyped'
  BY <1>1, <1>2, <1>4, <1>5 DEF LinesTyped, lineVars
<1>7. LoopTyped'
  BY <1>1, <1>2, <1>4, <1>5 DEF LoopTyped
<1>8. UserTyped'
  BY <1>1, <1>2, <1>4, <1>5 DEF UserTyped, userVars
<1>9. EventsTyped'
  BY <1>1, <1>4, <1>3 DEF EventsTyped
<1>10. TurnTyped'
  BY <1>1, <1>2, <1>4, <1>5 DEF TurnTyped
<1>11. LinesInv'
  BY <1>1, <1>2, <1>4, <1>5 DEF LinesInv, lineVars, userVars
<1>12. EventsInv'
  BY <1>4, <1>3 DEF EventsInv
<1>13. AskedInv'
  BY <1>1, <1>2, <1>4, <1>5 DEF AskedInv, EndAsked, Ending, lineVars, userVars
<1>14. SwitchInv'
  BY <1>1, <1>2, <1>4, <1>5 DEF SwitchInv, ClearDue, lineVars
<1> QED
  BY <1>6, <1>7, <1>8, <1>9, <1>10, <1>11, <1>12, <1>13, <1>14 DEF ReplInv

LEMMA AskStep ==
    ASSUME ReplAssumption, ReplInv, Ask PROVE ReplInv'
<1> USE DEF Submitting, Inactive
<1>1. /\ LinesTyped /\ LoopTyped /\ UserTyped /\ EventsTyped /\ TurnTyped
      /\ LinesInv /\ EventsInv /\ AskedInv /\ SwitchInv
  BY DEF ReplInv
<1>2. index \in Nat /\ rendered \in Nat /\ index = rendered + 1 /\ index <= Len(values)
  BY <1>1, InHand DEF Ask, Rendering, EventsTyped
<1>3. /\ consumer = "has" /\ ~AskWaits(waiters)
      /\ UNCHANGED <<loopVars, userVars, session, values, index, queueClosed, turn, approvals>>
  BY <1>1 DEF LinesInv, Ask, Rendering
<1>4. LoopTyped' /\ UserTyped' /\ TurnTyped'
  BY <1>1, <1>3 DEF LoopTyped, UserTyped, TurnTyped, loopVars, userVars
<1>5. CASE NoMoreLines /\ consumer' = "next" /\ rendered' = rendered + 1 /\ UNCHANGED lineVars
  <2>1. LinesTyped'
    BY <1>1, <1>3, <1>5 DEF LinesTyped, lineVars
  <2>2. EventsTyped'
    BY <1>1, <1>3, <1>5, <1>2 DEF EventsTyped
  <2>3. LinesInv'
    BY <1>1, <1>3, <1>5 DEF LinesInv, lineVars, loopVars, userVars
  <2>4. EventsInv'
    BY <1>2, <1>3, <1>5 DEF EventsInv
  <2>5. AskedInv'
    BY <1>1, <1>3, <1>5 DEF AskedInv, EndAsked, Ending, lineVars, loopVars, userVars
  <2>6. SwitchInv'
    BY <1>1, <1>3, <1>5 DEF SwitchInv, ClearDue, lineVars, loopVars
  <2> QED
    BY <1>4, <2>1, <2>2, <2>3, <2>4, <2>5, <2>6 DEF ReplInv
<1>6. CASE LineThere /\ TakeLine /\ consumer' = "responding" /\ UNCHANGED rendered
  <2>1. /\ queue # <<>> /\ taken' = Append(taken, Head(queue)) /\ queue' = Tail(queue)
        /\ UNCHANGED <<tty, typed, waiters, closed>>
    BY <1>6 DEF LineThere, TakeLine
  <2>2. Head(queue) \in Lines /\ Tail(queue) \in Seq(Lines)
    BY <1>1, <2>1 DEF LinesTyped
  <2>3. /\ Append(taken, Head(queue)) \in Seq(Lines)
        /\ Append(taken, Head(queue)) \o Tail(queue) = taken \o queue
    BY <1>1, <2>1, <2>2, LinesMove, OneLineMore DEF LinesTyped
  <2>4. /\ \A kind : Had(taken, kind) => Had(taken', kind)
        /\ Clears(taken) \in Nat /\ Clears(taken') \in Nat /\ Clears(taken) <= Clears(taken')
    BY <1>1, <2>1, <2>2, OneLineMore DEF LinesTyped
  <2>5. waiters = <<>>
    BY <1>1, <2>1 DEF LinesInv
  <2>6. LinesTyped'
    BY <1>1, <2>1, <2>2, <2>3 DEF LinesTyped
  <2>7. EventsTyped'
    BY <1>1, <1>3, <1>6 DEF EventsTyped
  <2>8. LinesInv'
    BY <1>1, <1>3, <1>6, <2>1, <2>3, <2>5 DEF LinesInv, loopVars, userVars
  <2>9. EventsInv'
    BY <1>2, <1>3, <1>6 DEF EventsInv
  <2>10. AskedInv'
    BY <1>1, <1>3, <2>1, <2>4 DEF AskedInv, EndAsked, Ending, loopVars, userVars
  <2>11. SwitchInv'
    BY <1>1, <1>3, <2>4 DEF SwitchInv, ClearDue, EventsTyped, loopVars
  <2> QED
    BY <1>4, <2>6, <2>7, <2>8, <2>9, <2>10, <2>11 DEF ReplInv
<1>7. CASE ~NoMoreLines /\ ~LineThere /\ Wait("approval") /\ consumer' = "asking"
           /\ UNCHANGED rendered
  <2>1. /\ tty /\ queue = <<>> /\ waiters' = Append(waiters, "approval")
        /\ UNCHANGED <<tty, typed, taken, queue, closed>>
    BY <1>7 DEF NoMoreLines, LineThere, Wait
  <2>2. waiters' \in {<<"approval">>, <<"main", "approval">>} /\ AskWaits(waiters')
        /\ (MainWaits(waiters') <=> MainWaits(waiters))
    BY <1>1, <1>3, <2>1, ApprovalComes DEF LinesTyped
  <2>3. LinesTyped'
    BY <1>1, <2>1, <2>2 DEF LinesTyped
  <2>4. EventsTyped'
    BY <1>1, <1>3, <1>7 DEF EventsTyped
  <2>5. LinesInv'
    BY <1>1, <1>3, <1>7, <2>1, <2>2 DEF LinesInv, loopVars, userVars
  <2>6. EventsInv'
    BY <1>2, <1>3, <1>7 DEF EventsInv
  <2>7. AskedInv'
    BY <1>1, <1>3, <2>1 DEF AskedInv, EndAsked, Ending, loopVars, userVars
  <2>8. SwitchInv'
    BY <1>1, <1>3, <2>1 DEF SwitchInv, ClearDue, loopVars
  <2> QED
    BY <1>4, <2>3, <2>4, <2>5, <2>6, <2>7, <2>8 DEF ReplInv
<1> QED
  BY <1>5, <1>6, <1>7 DEF Ask

LEMMA RespondStep ==
    ASSUME ReplAssumption, ReplInv, Respond PROVE ReplInv'
<1> USE DEF Submitting, Inactive
<1>1. /\ LinesTyped /\ LoopTyped /\ UserTyped /\ EventsTyped /\ TurnTyped
      /\ LinesInv /\ EventsInv /\ AskedInv /\ SwitchInv
  BY DEF ReplInv
<1>2. index \in Nat /\ rendered \in Nat /\ index = rendered + 1 /\ index <= Len(values)
  BY <1>1, InHand DEF Respond, EventsTyped
<1>3. /\ consumer = "responding" /\ consumer' = "next" /\ rendered' = rendered + 1
      /\ UNCHANGED <<lineVars, loopVars, userVars, session, index, queueClosed, turn>>
  BY DEF Respond
<1>4. /\ values' \in {values, Append(values, Plain("print"))}
      /\ approvals' \in [Approvals -> {"none", "writing", "stale", "pending", "settled"}]
  BY <1>1 DEF Respond, TurnTyped
<1>5. /\ values' \in Seq(ReplEvent) /\ Len(values') \in Nat /\ Len(values) <= Len(values')
      /\ \A kind \in {"/clear", "/quit"} : Tells(values', kind) => Tells(values, kind)
  <2>1. CASE values' = values
    BY <1>1, <2>1 DEF EventsTyped
  <2>2. CASE values' = Append(values, Plain("print"))
    <3>1. Plain("print") \in ReplEvent /\ Plain("print").kind = "print"
      BY PlainEvents
    <3>2. values' \in Seq(ReplEvent) /\ Len(values') = Len(values) + 1
          /\ \A kind : Tells(values', kind) => Tells(values, kind) \/ "print" = kind
      BY <1>1, <2>2, <3>1, OneEventMore DEF EventsTyped
    <3>3. Len(values) \in Nat
      BY <1>1 DEF EventsTyped
    <3> QED
      BY <3>2, <3>3
  <2> QED
    BY <1>4, <2>1, <2>2
<1>6. EventsTyped'
  <2>1. index' \in 0..Len(values') /\ rendered' \in 0..Len(values')
    BY <1>1, <1>2, <1>3, <1>5 DEF EventsTyped
  <2> QED
    BY <1>1, <1>3, <1>5, <2>1 DEF EventsTyped
<1>7. TurnTyped'
  BY <1>1, <1>3, <1>4 DEF TurnTyped
<1>8. LinesTyped' /\ LoopTyped' /\ UserTyped'
  BY <1>1, <1>3 DEF LinesTyped, LoopTyped, UserTyped, lineVars, loopVars, userVars
<1>9. LinesInv'
  BY <1>1, <1>3 DEF LinesInv, lineVars, loopVars, userVars
<1>10. EventsInv'
  BY <1>2, <1>3 DEF EventsInv
<1>11. AskedInv'
  BY <1>1, <1>3, <1>5 DEF AskedInv, EndAsked, Ending, lineVars, loopVars, userVars
<1>12. SwitchInv'
  BY <1>1, <1>3, <1>5 DEF SwitchInv, ClearDue, lineVars, loopVars
<1> QED
  BY <1>6, <1>7, <1>8, <1>9, <1>10, <1>11, <1>12 DEF ReplInv

LEMMA RequestedStep ==
    ASSUME ReplAssumption, ReplInv, NEW a \in Approvals, Requested(a) PROVE ReplInv'
<1> USE DEF Submitting, Inactive
<1>1. /\ LinesTyped /\ LoopTyped /\ UserTyped /\ EventsTyped /\ TurnTyped
      /\ LinesInv /\ EventsInv /\ AskedInv /\ SwitchInv
  BY DEF ReplInv
<1>2. /\ [kind |-> "approval", of |-> a] \in ReplEvent
      /\ UNCHANGED <<lineVars, loopVars, userVars, session, rendered, turn>>
      /\ Pushed([kind |-> "approval", of |-> a])
  BY PlainEvents DEF Requested
<1>3. /\ EventsTyped' /\ EventsInv'
      /\ consumer' = "asking" <=> consumer = "asking"
      /\ \A kind : Tells(values', kind) => Tells(values, kind) \/ "approval" = kind
  BY <1>2, PushStep
<1>4. approvals' \in [Approvals -> {"none", "writing", "stale", "pending", "settled"}]
  BY <1>1 DEF Requested, TurnTyped
<1>5. LinesTyped'
  BY <1>1, <1>2, <1>3 DEF LinesTyped, lineVars
<1>6. LoopTyped'
  BY <1>1, <1>2, <1>3 DEF LoopTyped, loopVars
<1>7. UserTyped'
  BY <1>1, <1>2, <1>3 DEF UserTyped, userVars
<1>8. TurnTyped'
  BY <1>1, <1>2, <1>3, <1>4 DEF TurnTyped
<1>9. LinesInv'
  BY <1>1, <1>2, <1>3 DEF LinesInv, lineVars, loopVars, userVars
<1>10. AskedInv'
  BY <1>1, <1>2, <1>3 DEF AskedInv, EndAsked, Ending, lineVars, loopVars, userVars
<1>11. SwitchInv'
  BY <1>1, <1>2, <1>3 DEF SwitchInv, ClearDue, lineVars, loopVars
<1> QED
  BY <1>3, <1>5, <1>6, <1>7, <1>8, <1>9, <1>10, <1>11 DEF ReplInv

LEMMA RequestStep ==
    ASSUME ReplAssumption, ReplInv, NEW a \in Approvals, Request(a) PROVE ReplInv'
<1> USE DEF Submitting, Inactive
<1>1. /\ LinesTyped /\ LoopTyped /\ UserTyped /\ EventsTyped /\ TurnTyped
      /\ LinesInv /\ EventsInv /\ AskedInv /\ SwitchInv
  BY DEF ReplInv
<1>2. LinesTyped'
  BY <1>1 DEF LinesTyped, Request, lineVars
<1>3. LoopTyped'
  BY <1>1 DEF LoopTyped, Request, loopVars
<1>4. UserTyped'
  BY <1>1 DEF UserTyped, Request, userVars
<1>5. EventsTyped'
  BY <1>1 DEF EventsTyped, Request, eventVars
<1>6. TurnTyped'
  BY <1>1 DEF TurnTyped, Request
<1>7. LinesInv'
  BY <1>1 DEF LinesInv, Request, lineVars, loopVars, userVars, eventVars
<1>8. EventsInv'
  BY <1>1 DEF EventsInv, Request, eventVars
<1>9. AskedInv'
  BY <1>1 DEF AskedInv, EndAsked, Ending, Request, lineVars, loopVars, userVars, eventVars
<1>10. SwitchInv'
  BY <1>1 DEF SwitchInv, ClearDue, Request, lineVars, loopVars, eventVars
<1> QED
  BY <1>2, <1>3, <1>4, <1>5, <1>6, <1>7, <1>8, <1>9, <1>10 DEF ReplInv

\* A line that the approval prompt has waited for, one that runRepl has, and one
\* that nobody waits for.
LEMMA TypeStep ==
    ASSUME ReplAssumption, ReplInv, NEW line \in Lines, Type(line) PROVE ReplInv'
<1> USE DEF Submitting, Inactive
<1>1. /\ LinesTyped /\ LoopTyped /\ UserTyped /\ EventsTyped /\ TurnTyped
      /\ LinesInv /\ EventsInv /\ AskedInv /\ SwitchInv
  BY DEF ReplInv
<1>2. /\ tty /\ ~closed /\ typed' = Append(typed, line) /\ typed' \in Seq(Lines)
      /\ UNCHANGED <<tty, closed, userVars, session, values, index, queueClosed, rendered,
                     approvals>>
  BY <1>1, OneLineMore DEF Type, LinesTyped
<1>3. /\ Append(taken, line) \in Seq(Lines) /\ Append(queue, line) \in Seq(Lines)
      /\ taken \o Append(queue, line) = Append(taken \o queue, line)
      /\ taken \o <<>> = taken /\ Append(taken, line) \o <<>> = Append(taken, line)
  <2>1. taken \in Seq(Lines) /\ queue \in Seq(Lines)
    BY <1>1 DEF LinesTyped
  <2>2. Append(taken, line) \in Seq(Lines) /\ Append(queue, line) \in Seq(Lines)
    BY <2>1, OneLineMore
  <2>3. taken \o Append(queue, line) = Append(taken \o queue, line) /\ taken \o <<>> = taken
    BY <2>1, LinesMove
  <2>4. Append(taken, line) \o <<>> = Append(taken, line)
    BY <2>2, LinesMove
  <2> QED
    BY <2>2, <2>3, <2>4
<1>4. CASE /\ waiters = <<>> /\ queue' = Append(queue, line)
           /\ UNCHANGED <<taken, waiters, loopVars, consumer, turn>>
  <2>1. LinesTyped'
    BY <1>1, <1>2, <1>3, <1>4 DEF LinesTyped
  <2>2. LoopTyped' /\ UserTyped' /\ TurnTyped'
    BY <1>1, <1>2, <1>4 DEF LoopTyped, UserTyped, TurnTyped, loopVars, userVars
  <2>3. EventsTyped' /\ EventsInv'
    BY <1>1, <1>2, <1>4 DEF EventsTyped, EventsInv
  <2>4. LinesInv'
    BY <1>1, <1>2, <1>3, <1>4 DEF LinesInv, loopVars, userVars
  <2>5. AskedInv'
    BY <1>1, <1>2, <1>4 DEF AskedInv, EndAsked, Ending, loopVars, userVars
  <2>6. SwitchInv'
    BY <1>1, <1>2, <1>4 DEF SwitchInv, ClearDue, loopVars
  <2> QED
    BY <2>1, <2>3, <2>4, <2>5, <2>6, <2>2 DEF ReplInv
<1>5. ASSUME waiters # <<>>, taken' = Append(taken, line), waiters' = Tail(waiters),
             queue' = queue
      PROVE  /\ queue = <<>> /\ LinesTyped' /\ typed' = taken' \o queue'
             /\ Head(waiters) = "main" => MainWaits(waiters) /\ ~MainWaits(waiters')
                                          /\ (AskWaits(waiters') <=> AskWaits(waiters))
             /\ Head(waiters) = "approval" => AskWaits(waiters) /\ ~AskWaits(waiters')
                                              /\ (MainWaits(waiters') <=> MainWaits(waiters))
  <2>1. queue = <<>> /\ typed = taken \o queue
    BY <1>1, <1>5 DEF LinesInv
  <2>2. typed' = taken' \o queue'
    BY <1>2, <1>3, <1>5, <2>1
  <2>3. /\ waiters' \in {<<>>, <<"main">>, <<"approval">>}
        /\ Head(waiters) = "main" => MainWaits(waiters) /\ ~MainWaits(waiters')
                                     /\ (AskWaits(waiters') <=> AskWaits(waiters))
        /\ Head(waiters) = "approval" => AskWaits(waiters) /\ ~AskWaits(waiters')
                                         /\ (MainWaits(waiters') <=> MainWaits(waiters))
    BY <1>1, <1>5, Waiters DEF LinesTyped
  <2>4. LinesTyped'
    BY <1>1, <1>2, <1>3, <1>5, <2>3 DEF LinesTyped
  <2> QED
    BY <2>1, <2>2, <2>3, <2>4
<1>6. CASE /\ waiters # <<>> /\ taken' = Append(taken, line) /\ waiters' = Tail(waiters)
           /\ UNCHANGED queue
           /\ Head(waiters) = "main" /\ HasLine(line) /\ UNCHANGED consumer
  <2>1. main = "waiting" /\ UNCHANGED eventVars
    BY <1>1, <1>2, <1>5, <1>6 DEF LinesInv, eventVars
  <2>2. Handed(line)
    BY <1>2, <1>5, <1>6, <2>1 DEF Handed
  <2> QED
    BY <2>2, HandedStep
<1>7. CASE /\ waiters # <<>> /\ taken' = Append(taken, line) /\ waiters' = Tail(waiters)
           /\ UNCHANGED queue
           /\ Head(waiters) = "approval" /\ consumer' = "responding"
           /\ UNCHANGED <<loopVars, turn>>
  <2>1. /\ consumer = "asking" /\ queue = <<>> /\ LinesTyped' /\ typed' = taken' \o queue'
        /\ ~AskWaits(waiters') /\ (MainWaits(waiters') <=> MainWaits(waiters))
    BY <1>1, <1>5, <1>7 DEF LinesInv
  <2>2. /\ \A kind : Had(taken, kind) => Had(taken', kind)
        /\ Clears(taken) \in Nat /\ Clears(taken') \in Nat /\ Clears(taken) <= Clears(taken')
    BY <1>1, <1>7, OneLineMore DEF LinesTyped
  <2>3. LoopTyped' /\ UserTyped' /\ TurnTyped'
    BY <1>1, <1>2, <1>7 DEF LoopTyped, UserTyped, TurnTyped, loopVars, userVars
  <2>4. EventsTyped'
    BY <1>1, <1>2, <1>7 DEF EventsTyped
  <2>5. LinesInv'
    BY <1>1, <1>2, <1>7, <2>1 DEF LinesInv, loopVars, userVars
  <2>6. EventsInv'
    BY <1>1, <1>2, <1>7, <2>1 DEF EventsInv
  <2>7. AskedInv'
    BY <1>1, <1>2, <1>7, <2>2 DEF AskedInv, EndAsked, Ending, loopVars, userVars
  <2>8. SwitchInv'
    BY <1>1, <1>2, <1>7, <2>2 DEF SwitchInv, ClearDue, EventsTyped, loopVars
  <2> QED
    BY <2>1, <2>3, <2>4, <2>5, <2>6, <2>7, <2>8 DEF ReplInv
<1> QED
  BY <1>4, <1>6, <1>7 DEF Type

\* Who waits is released.
LEMMA ReleasedStep ==
    ASSUME ReplInv, Released, UNCHANGED <<session, values, index, queueClosed>>
    PROVE  /\ waiters' = <<>> /\ ~MainWaits(waiters') /\ ~AskWaits(waiters')
           /\ main' # "waiting" /\ consumer' # "asking"
           /\ main = "waiting" => main' = "leaving"
           /\ main # "waiting" => main' = main
           /\ EventsTyped' /\ EventsInv'
<1>1. EventsTyped /\ EventsInv
  BY DEF ReplInv
<1>2. /\ waiters' = <<>> /\ main' # "waiting" /\ consumer' # "asking"
      /\ main = "waiting" => main' = "leaving"
      /\ main # "waiting" => main' = main
      /\ consumer = "asking" => consumer' = "next" /\ rendered' = rendered + 1
      /\ consumer # "asking" => consumer' = consumer /\ rendered' = rendered
  BY DEF Released
<1>3. ~MainWaits(<<>>) /\ ~AskWaits(<<>>)
  BY Waiters
<1>4. CASE consumer = "asking"
  <2>1. index \in Nat /\ rendered \in Nat /\ index = rendered + 1 /\ index <= Len(values)
    BY <1>1, <1>4, InHand DEF EventsTyped
  <2>2. EventsInv'
    BY <1>2, <1>4, <2>1 DEF EventsInv
  <2>3. EventsTyped'
    BY <1>1, <1>2, <1>4, <2>1 DEF EventsTyped
  <2> QED
    BY <1>2, <1>3, <2>2, <2>3
<1>5. CASE consumer # "asking"
  <2>1. EventsTyped' /\ EventsInv'
    BY <1>1, <1>2, <1>5 DEF EventsTyped, EventsInv
  <2> QED
    BY <1>2, <1>3, <2>1
<1> QED
  BY <1>4, <1>5

LEMMA EndOfInputStep ==
    ASSUME ReplAssumption, ReplInv, EndOfInput PROVE ReplInv'
<1> USE DEF Submitting, Inactive
<1>1. /\ LinesTyped /\ LoopTyped /\ UserTyped /\ EventsTyped /\ TurnTyped
      /\ LinesInv /\ EventsInv /\ AskedInv /\ SwitchInv
  BY DEF ReplInv
<1>2. /\ tty /\ excused' = TRUE /\ closed' = tty /\ Released
      /\ UNCHANGED <<tty, typed, taken, queue, given, exitRequested, idleInterrupts,
                     pendingHostAction, row, interrupts, session, values, index,
                     queueClosed, turn, approvals>>
  BY DEF EndOfInput, Finished, Cancelled
<1>3. /\ waiters' = <<>> /\ ~MainWaits(waiters') /\ ~AskWaits(waiters')
      /\ main' # "waiting" /\ consumer' # "asking"
      /\ main = "waiting" => main' = "leaving"
      /\ main # "waiting" => main' = main
      /\ EventsTyped' /\ EventsInv'
  BY <1>2, ReleasedStep
<1>4. LinesTyped'
  BY <1>1, <1>2, <1>3 DEF LinesTyped
<1>5. LoopTyped'
  BY <1>1, <1>2, <1>3 DEF LoopTyped
<1>6. UserTyped' /\ TurnTyped'
  BY <1>1, <1>2 DEF UserTyped, TurnTyped
<1>7. LinesInv'
  BY <1>1, <1>2, <1>3 DEF LinesInv
<1>8. AskedInv'
  BY <1>1, <1>2, <1>3 DEF AskedInv, EndAsked, Ending
<1>9. SwitchInv'
  BY <1>1, <1>2, <1>3 DEF SwitchInv, ClearDue
<1> QED
  BY <1>3, <1>4, <1>5, <1>6, <1>7, <1>8, <1>9 DEF ReplInv

LEMMA InterruptStep ==
    ASSUME ReplAssumption, ReplInv, Interrupt PROVE ReplInv'
<1> USE DEF Submitting, Inactive
<1>1. /\ LinesTyped /\ LoopTyped /\ UserTyped /\ EventsTyped /\ TurnTyped
      /\ LinesInv /\ EventsInv /\ AskedInv /\ SwitchInv
  BY DEF ReplInv
<1>2. /\ interrupts < MaxInterrupts /\ interrupts' = interrupts + 1
      /\ UNCHANGED <<tty, typed, taken, queue, given, pendingHostAction, session, values,
                     index, queueClosed>>
  BY DEF Interrupt
<1>3. interrupts' \in 0..MaxInterrupts /\ interrupts \in Nat /\ row \in Nat /\ idleInterrupts \in Nat
      /\ row + 1 <= interrupts' /\ idleInterrupts + 1 <= interrupts'
      /\ row + 1 \in 0..MaxInterrupts /\ idleInterrupts + 1 \in 0..MaxInterrupts
  <2>1. MaxInterrupts \in Nat
    BY ReplAssumption
  <2>2. interrupts \in Nat /\ row \in Nat /\ idleInterrupts \in Nat
        /\ row <= interrupts /\ idleInterrupts <= interrupts
    <3>1. interrupts \in Nat
      BY <1>1, <2>1 DEF UserTyped
    <3>2. row \in Nat /\ idleInterrupts \in Nat
      <4>1. row \in 0..MaxInterrupts /\ idleInterrupts \in 0..MaxInterrupts
        BY <1>1 DEF LoopTyped
      <4> QED
        BY <2>1, <4>1
    <3> QED
      BY <1>1, <3>1, <3>2 DEF LinesInv
  <2> QED
    BY <1>2, <2>1, <2>2
<1>4. CASE InterruptActive
  <2>1. /\ Cancelled /\ (excused' <=> excused \/ main = "waiting") /\ excused' \in BOOLEAN
        /\ UNCHANGED <<closed, exitRequested, idleInterrupts, row>>
    BY <1>1, <1>4 DEF InterruptActive, UserTyped
  <2>2. /\ approvals' \in [Approvals -> {"none", "writing", "stale", "pending", "settled"}]
        /\ turn' \in {"none", "running", "aborted"} /\ (turn' # "none" => turn # "none")
    <3>1. Aborted
      BY <1>4 DEF InterruptActive
    <3>2. turn' \in {"none", "running", "aborted"} /\ (turn' # "none" => turn # "none")
      BY <3>1 DEF Aborted
    <3>3. ASSUME NEW a \in Approvals
          PROVE  (CASE approvals[a] = "writing" -> "stale"
                    [] approvals[a] = "pending" -> "settled"
                    [] OTHER -> approvals[a])
                     \in {"none", "writing", "stale", "pending", "settled"}
      BY <1>1 DEF TurnTyped
    <3> QED
      BY <3>1, <3>2, <3>3 DEF Aborted
  <2>3. /\ waiters' \in {waiters, <<>>} /\ (main' = "waiting" <=> MainWaits(waiters'))
        /\ (consumer' = "asking" <=> AskWaits(waiters'))
        /\ (main = "waiting" => main' \in {main, "leaving"})
        /\ (main' # main => main = "waiting" /\ main' = "leaving")
        /\ EventsTyped' /\ EventsInv'
    <3>1. CASE tty
      <4>1. /\ waiters' = <<>> /\ ~MainWaits(waiters') /\ ~AskWaits(waiters')
            /\ main' # "waiting" /\ consumer' # "asking"
            /\ main = "waiting" => main' = "leaving"
            /\ main # "waiting" => main' = main
            /\ EventsTyped' /\ EventsInv'
        BY <1>2, <2>1, <3>1, ReleasedStep DEF Cancelled
      <4> QED
        BY <4>1
    <3>2. CASE ~tty
      <4>1. UNCHANGED <<waiters, main, consumer, rendered>>
        BY <2>1, <3>2 DEF Cancelled
      <4> QED
        BY <1>1, <1>2, <4>1 DEF EventsTyped, EventsInv, LinesInv
    <3> QED
      BY <3>1, <3>2
  <2>4. LinesTyped'
    BY <1>1, <1>2, <2>1, <2>3 DEF LinesTyped
  <2>5. LoopTyped'
    BY <1>1, <1>2, <2>1, <2>3 DEF LoopTyped
  <2>6. UserTyped' /\ TurnTyped'
    BY <1>3, <2>1, <2>2 DEF UserTyped, TurnTyped
  <2>7. LinesInv'
    BY <1>1, <1>2, <1>3, <2>1, <2>3 DEF LinesInv
  <2>8. AskedInv'
    BY <1>1, <1>2, <2>1, <2>3 DEF AskedInv, EndAsked, Ending
  <2>9. SwitchInv'
    BY <1>1, <1>2, <2>2, <2>3 DEF SwitchInv, ClearDue
  <2> QED
    BY <2>3, <2>4, <2>5, <2>6, <2>7, <2>8, <2>9 DEF ReplInv
<1>5. CASE InterruptIdle
  <2>1. /\ consumer # "asking" /\ idleInterrupts' = idleInterrupts + 1 /\ row' = row + 1
        /\ UNCHANGED <<excused, turn, approvals>>
    BY <1>5 DEF InterruptIdle, IsActive
  <2>2. UserTyped' /\ TurnTyped'
    BY <1>1, <1>3, <2>1 DEF UserTyped, TurnTyped
  <2>3. CASE idleInterrupts = 0
    <3>1. UNCHANGED <<exitRequested, closed, waiters, main, consumer, rendered>>
      BY <1>5, <2>3 DEF InterruptIdle
    <3>2. LinesTyped' /\ EventsTyped' /\ EventsInv'
      BY <1>1, <1>2, <3>1 DEF LinesTyped, EventsTyped, EventsInv
    <3>3. LoopTyped'
      BY <1>1, <1>2, <1>3, <2>1, <3>1 DEF LoopTyped
    <3>4. LinesInv'
      BY <1>1, <1>2, <1>3, <2>1, <3>1 DEF LinesInv
    <3>5. AskedInv'
      <4>1. /\ (tty' <=> tty) /\ taken' = taken /\ given' = given /\ values' = values
            /\ main' = main /\ (excused' <=> excused)
            /\ (closed' <=> closed) /\ (exitRequested' <=> exitRequested)
        BY <1>2, <2>1, <3>1
      <4>2. EndAsked => EndAsked'
        BY <1>3, <2>1, <4>1 DEF EndAsked
      <4>3. idleInterrupts' <= row'
        BY <1>3, <2>1, <2>3
      <4> QED
        BY <1>1, <4>1, <4>2, <4>3 DEF AskedInv
    <3>6. SwitchInv'
      BY <1>1, <1>2, <2>1, <3>1 DEF SwitchInv, ClearDue
    <3> QED
      BY <2>2, <3>2, <3>3, <3>4, <3>5, <3>6 DEF ReplInv
  <2>4. CASE idleInterrupts # 0
    <3>1. exitRequested' = TRUE /\ closed' = tty /\ Cancelled
      BY <1>5, <2>4 DEF InterruptIdle, Finished
    <3>2. /\ waiters' \in {waiters, <<>>} /\ (main' = "waiting" <=> MainWaits(waiters'))
          /\ (consumer' = "asking" <=> AskWaits(waiters'))
          /\ (main' # main => main = "waiting" /\ main' = "leaving")
          /\ EventsTyped' /\ EventsInv'
      <4>1. CASE tty
        <5>1. /\ waiters' = <<>> /\ ~MainWaits(waiters') /\ ~AskWaits(waiters')
              /\ main' # "waiting" /\ consumer' # "asking"
              /\ main = "waiting" => main' = "leaving"
              /\ main # "waiting" => main' = main
              /\ EventsTyped' /\ EventsInv'
          BY <1>2, <3>1, <4>1, ReleasedStep DEF Cancelled
        <5> QED
          BY <5>1
      <4>2. CASE ~tty
        <5>1. UNCHANGED <<waiters, main, consumer, rendered>>
          BY <3>1, <4>2 DEF Cancelled
        <5> QED
          BY <1>1, <1>2, <5>1 DEF EventsTyped, EventsInv, LinesInv
      <4> QED
        BY <4>1, <4>2
    <3>3. EndAsked'
      <4>1. row >= 1 \/ Had(taken, "/quit") \/ ~tty
        BY <1>1, <1>3, <2>4 DEF AskedInv
      <4>2. (tty' <=> tty) /\ taken' = taken
        BY <1>2
      <4> QED
        BY <1>3, <2>1, <4>1, <4>2 DEF EndAsked
    <3>4. LinesTyped'
      BY <1>1, <1>2, <3>1, <3>2 DEF LinesTyped
    <3>5. LoopTyped'
      BY <1>1, <1>2, <1>3, <2>1, <3>1, <3>2 DEF LoopTyped
    <3>6. LinesInv'
      BY <1>1, <1>2, <1>3, <2>1, <3>2 DEF LinesInv
    <3>7. AskedInv'
      <4>1. (tty' <=> tty) /\ taken' = taken /\ given' = given /\ values' = values
            /\ (closed' <=> tty')
        BY <1>2, <3>1
      <4>2. idleInterrupts' <= row' \/ Had(taken', "/quit") \/ ~tty'
        BY <1>1, <1>3, <2>1, <4>1 DEF AskedInv
      <4> QED
        BY <1>1, <3>3, <4>1, <4>2 DEF AskedInv
    <3>8. SwitchInv'
      BY <1>1, <1>2, <2>1, <3>2 DEF SwitchInv, ClearDue
    <3> QED
      BY <2>2, <3>2, <3>4, <3>5, <3>6, <3>7, <3>8 DEF ReplInv
  <2> QED
    BY <2>3, <2>4
<1> QED
  BY <1>4, <1>5 DEF Interrupt

-------------------------------------------------------------------------------
(***************************************************************************)
(* Repl: the theorem                                                       *)
(***************************************************************************)
LEMMA ReplStarts == ReplAssumption /\ Init => ReplInv
<1> SUFFICES ASSUME ReplAssumption, Init PROVE ReplInv
  OBVIOUS
<1> USE DEF Submitting, Inactive
<1>1. MaxInterrupts \in Nat /\ Pipes \subseteq Seq(Lines)
  BY ReplAssumption
<1>2. tty \in BOOLEAN /\ queue \in Seq(Lines)
  <2>1. <<>> \in Seq(Lines)
    OBVIOUS
  <2> QED
    BY <1>1, <2>1 DEF Init
<1>3. <<>> \o queue = queue /\ <<>> \in Seq(Lines) /\ <<>> \in Seq(ReplEvent) /\ Len(<<>>) = 0
  <2> HIDE DEF ReplEvent
  <2> QED
    BY <1>2
<1>4. LinesTyped
  BY <1>2, <1>3 DEF Init, LinesTyped
<1>5. LoopTyped /\ UserTyped
  <2>1. 0 \in 0..MaxInterrupts
    BY <1>1
  <2> QED
    BY <2>1 DEF Init, LoopTyped, UserTyped
<1>6. EventsTyped
  <2>1. values = <<>> /\ index = 0 /\ rendered = 0 /\ session = 1 /\ consumer = "next"
    BY DEF Init
  <2>2. queueClosed = FALSE
    BY DEF Init
  <2>3. values \in Seq(ReplEvent) /\ Len(values) = 0
    BY <1>3, <2>1
  <2>4. queueClosed \in BOOLEAN
    BY <2>2
  <2> QED
    BY <2>1, <2>3, <2>4 DEF EventsTyped
<1>7. TurnTyped
  BY DEF Init, TurnTyped
<1>8. LinesInv
  BY <1>3, Waiters DEF Init, LinesInv
<1>9. EventsInv
  BY DEF Init, EventsInv
<1>10. AskedInv
  BY NoLines DEF Init, AskedInv, EndAsked, Ending, Had, Tells
<1>11. SwitchInv
  BY NoLines DEF Init, SwitchInv, ClearDue, Tells
<1> QED
  BY <1>4, <1>5, <1>6, <1>7, <1>8, <1>9, <1>10, <1>11 DEF ReplInv

LEMMA ReplMoves == ReplAssumption /\ ReplInv /\ [Next]_vars => ReplInv'
<1> SUFFICES ASSUME ReplAssumption, ReplInv, [Next]_vars PROVE ReplInv'
  OBVIOUS
<1>1. CASE Loop
  BY <1>1, PromptStep, OutputStep, HostTimeoutStep, CreateFreshStep, LeaveStep,
     CloseSessionStep, SwitchStep, ExitedStep DEF Loop
<1>2. CASE Render
  BY <1>2, NextEventStep, ShowStep, HostActionStep, AskStep, RespondStep DEF Render
<1>3. CASE Session
  BY <1>3, TurnEndsStep, RequestedStep DEF Session
<1>4. CASE \E a \in Approvals : Request(a)
  BY <1>4, RequestStep
<1>5. CASE \E line \in Lines : Type(line)
  BY <1>5, TypeStep
<1>6. CASE EndOfInput \/ Interrupt
  BY <1>6, EndOfInputStep, InterruptStep
<1>7. CASE UNCHANGED vars
  <2> USE DEF vars, lineVars, loopVars, userVars, eventVars
  <2>1. /\ LinesTyped /\ LoopTyped /\ UserTyped /\ EventsTyped /\ TurnTyped
        /\ LinesInv /\ EventsInv /\ AskedInv /\ SwitchInv
    BY DEF ReplInv
  <2>2. LinesTyped'
    BY <1>7, <2>1 DEF LinesTyped
  <2>3. LoopTyped'
    BY <1>7, <2>1 DEF LoopTyped
  <2>4. UserTyped'
    BY <1>7, <2>1 DEF UserTyped
  <2>5. EventsTyped'
    BY <1>7, <2>1 DEF EventsTyped
  <2>6. TurnTyped'
    BY <1>7, <2>1 DEF TurnTyped
  <2>7. LinesInv'
    BY <1>7, <2>1 DEF LinesInv
  <2>8. EventsInv'
    BY <1>7, <2>1 DEF EventsInv
  <2>9. AskedInv'
    BY <1>7, <2>1 DEF AskedInv, EndAsked, Ending
  <2>10. SwitchInv'
    BY <1>7, <2>1 DEF SwitchInv, ClearDue
  <2> QED
    BY <2>2, <2>3, <2>4, <2>5, <2>6, <2>7, <2>8, <2>9, <2>10 DEF ReplInv
<1> QED
  BY <1>1, <1>2, <1>3, <1>4, <1>5, <1>6, <1>7 DEF Next

\* What the invariant says of a state, and of a step that switches sessions.
LEMMA OrderlyState ==
    ASSUME ReplInv PROVE LinesAreShared /\ EventsShown /\ ExitIsAsked
<1>1. /\ LinesTyped /\ LoopTyped /\ UserTyped /\ EventsTyped /\ TurnTyped
      /\ LinesInv /\ EventsInv /\ AskedInv /\ SwitchInv
  BY DEF ReplInv
<1>2. TypeOK
  BY <1>1 DEF TypeOK, LinesTyped, LoopTyped, UserTyped, EventsTyped, TurnTyped
<1>3. /\ MainWaits(waiters) <=> \E i \in 1..Len(waiters) : waiters[i] = "main"
      /\ AskWaits(waiters) <=> \E i \in 1..Len(waiters) : waiters[i] = "approval"
  BY <1>1, Waiters DEF LinesTyped
<1>4. LinesAreShared
  BY <1>1, <1>2, <1>3 DEF LinesAreShared, LinesInv
<1>5. EventsShown
  BY <1>1 DEF EventsShown, EventsInv
<1>6. ExitIsAsked
  BY <1>1 DEF ExitIsAsked, AskedInv, EndAsked, Ending, Had
<1> QED
  BY <1>4, <1>5, <1>6

LEMMA CleanSwitch ==
    ASSUME ReplAssumption, ReplInv, [Next]_vars, session' # session
    PROVE  /\ rendered = Len(values) /\ turn = "none" /\ consumer = "done"
           /\ session <= Cardinality({i \in 1..Len(taken) : KindOf[taken[i]] = "/clear"})
<1>1. /\ LinesTyped /\ LoopTyped /\ UserTyped /\ EventsTyped /\ TurnTyped
      /\ LinesInv /\ EventsInv /\ AskedInv /\ SwitchInv
  BY DEF ReplInv
<1>2. Switch
  <2>1. session' = session \/ Switch
    BY DEF Next, vars, Loop, Render, Session, Prompt, Output, HostTimeout, CreateFresh, Leave,
       CloseSession, Exited, NextEvent, Show, HostAction, Ask, Respond, TurnEnds, Requested,
       Request, Type, EndOfInput, Interrupt
  <2> QED
    BY <2>1
<1>3. main = "draining" /\ consumer = "done"
  BY <1>2 DEF Switch
<1>4. index = Len(values) /\ index = rendered /\ turn = "none" /\ session <= Clears(taken)
  <2>1. index = rendered + 0 /\ rendered \in Nat
    BY <1>1, <1>3 DEF EventsInv, EventsTyped
  <2> QED
    BY <1>1, <1>3, <2>1 DEF EventsInv, SwitchInv, ClearDue
<1> QED
  BY <1>3, <1>4 DEF Clears

\* The loop at a terminal loses no line and no event, ends only when it is asked to
\* and switches sessions between turns (repl.ts:78-207, eventRenderer.ts,
\* AsyncEventQueue.ts).
THEOREM OrderlyRepl == Spec => ReplIsOrderly
<1> USE ReplAssumption
<1>1. Init => ReplInv
  BY ReplStarts
<1>2. ReplInv /\ [Next]_vars => ReplInv'
  BY ReplMoves
<1>3. ReplInv => LinesAreShared /\ EventsShown /\ ExitIsAsked
  BY OrderlyState
<1>4. ReplInv /\ [Next]_vars =>
        [session' # session =>
            /\ rendered = Len(values) /\ turn = "none" /\ consumer = "done"
            /\ session <= Cardinality({i \in 1..Len(taken) : KindOf[taken[i]] = "/clear"})]_vars
  BY CleanSwitch
<1> QED
  BY <1>1, <1>2, <1>3, <1>4, PTL DEF Spec, ReplIsOrderly, SwitchesAreClean

-------------------------------------------------------------------------------
(***************************************************************************)
(* A request to the provider (StreamStep): what its events say, one at a    *)
(* time.                                                                    *)
(***************************************************************************)
\* What a streamed event may be.
LEMMA DeltaEvent ==
    ASSUME NEW e \in StreamedEvent
    PROVE  /\ e.kind \in {"delta", "usage", "junk", "error", "done"}
           /\ e.kind = "delta" =>
                 e.text \in Fragments \union {""} /\ e.calls \in Seq(CallPiece)
<1>1. CASE e \in [kind : {"delta"}, text : Fragments \union {""}, calls : Seq(CallPiece)]
  BY <1>1
<1>2. CASE e \in [kind : {"usage", "junk", "error", "done"}]
  BY <1>2
<1> QED
  BY <1>1, <1>2 DEF StreamedEvent

LEMMA TextsByEvent ==
    ASSUME NEW events \in Seq(StreamedEvent)
    PROVE  /\ TextsSent(events) \in [0..Len(events) -> Seq(Fragments)]
           /\ TextsSent(events)[0] = <<>>
           /\ \A n \in 1..Len(events) :
                 TextsSent(events)[n]
                   = IF events[n].kind = "delta" /\ events[n].text # ""
                     THEN Append(TextsSent(events)[n - 1], events[n].text)
                     ELSE TextsSent(events)[n - 1]
<1> DEFINE Step(texts, e) == IF e.kind = "delta" /\ e.text # "" THEN Append(texts, e.text) ELSE texts
           f == [p \in Seq(Fragments) \X StreamedEvent |-> Step(p[1], p[2])]
           F(g) == g = [n \in 0..Len(events) |->
                          IF n = 0 THEN <<>> ELSE IF events[n].kind = "delta" /\ events[n].text # ""
                          THEN Append(g[n - 1], events[n].text) ELSE g[n - 1]]
<1>1. TextsSent(events) = CHOOSE g : F(g)
  BY DEF TextsSent
<1>2. f \in [Seq(Fragments) \X StreamedEvent -> Seq(Fragments)]
  <2>1. ASSUME NEW texts \in Seq(Fragments), NEW e \in StreamedEvent
        PROVE  Step(texts, e) \in Seq(Fragments)
    <3>1. e.kind = "delta" => e.text \in Fragments \union {""}
      BY DeltaEvent
    <3>2. CASE e.kind = "delta" /\ e.text # ""
      <4>1. e.text \in Fragments
        BY <3>1, <3>2
      <4>2. Append(texts, e.text) \in Seq(Fragments)
        BY <4>1
      <4> QED
        BY <3>2, <4>2
    <3>3. CASE ~(e.kind = "delta" /\ e.text # "")
      BY <3>3
    <3> QED
      BY <3>2, <3>3
  <2> HIDE DEF Step
  <2> QED
    BY <2>1
<1>3. <<>> \in Seq(Fragments)
  OBVIOUS
<1>4. \A texts \in Seq(Fragments), e \in StreamedEvent : f[<<texts, e>>] = Step(texts, e)
  BY DEF f
<1>14. \A texts \in Seq(Fragments), e \in StreamedEvent : f[<<texts, e>>] \in Seq(Fragments)
  BY <1>2
<1> HIDE DEF f
<1>5. PICK w \in [0..Len(events) -> Seq(Fragments)] :
         Follows(f, w, events, <<>>)
  BY <1>2, <1>3, Recursion
<1>6. \A n \in 0..Len(events) : n # 0 =>
         n - 1 \in 0..Len(events) /\ n \in 1..Len(events) /\ events[n] \in StreamedEvent
  OBVIOUS
<1>7. \A n \in 0..Len(events) : n # 0 => f[<<w[n - 1], events[n]>>] = Step(w[n - 1], events[n])
  BY <1>4, <1>5, <1>6
<1>8. F(w)
  BY <1>5, <1>7 DEF Follows
<1> DEFINE t == TextsSent(events)
<1>9. F(t)
  BY <1>1, <1>8
<1> HIDE DEF t, F, Step
<1> DEFINE T == {k \in 0..Len(events) : t[k] \in Seq(Fragments)}
<1>11. /\ t[0] = <<>>
       /\ \A n \in 1..Len(events) : t[n] = Step(t[n - 1], events[n])
       /\ t = [n \in 0..Len(events) |-> t[n]]
  <2>1. 0 \in 0..Len(events) /\ \A n \in 1..Len(events) : n \in 0..Len(events) /\ n # 0
    OBVIOUS
  <2> QED
    BY <1>9, <2>1 DEF F, Step
<1>12. 0..Len(events) \subseteq T
  <2>1. 0 \in T
    <3>1. 0 \in 0..Len(events)
      OBVIOUS
    <3> QED
      BY <1>3, <1>11, <3>1
  <2>2. ASSUME NEW k \in 0..Len(events) - 1, k \in T PROVE k + 1 \in T
    <3>1. k + 1 \in 1..Len(events) /\ k + 1 \in 0..Len(events) /\ (k + 1) - 1 = k
      OBVIOUS
    <3>2. t[k] \in Seq(Fragments) /\ events[k + 1] \in StreamedEvent
      BY <2>2, <3>1
    <3>3. Step(t[k], events[k + 1]) \in Seq(Fragments)
      BY <1>4, <1>14, <3>2
    <3>4. t[k + 1] = Step(t[k], events[k + 1])
      BY <1>11, <3>1
    <3> QED
      BY <3>1, <3>3, <3>4
  <2>3. Len(events) \in Nat
    OBVIOUS
  <2> HIDE DEF T
  <2> QED
    BY <2>1, <2>2, <2>3, UpTo
<1>13. t \in [0..Len(events) -> Seq(Fragments)]
  BY <1>11, <1>12
<1> QED
  BY <1>11, <1>13 DEF Step, t

\* What a piece adds to the arguments of call i.
AddOwn(i, text, piece) == IF piece.index = i THEN text \o piece.arguments ELSE text

LEMMA OwnByPiece ==
    ASSUME NEW i, NEW pieces \in Seq(CallPiece)
    PROVE  /\ Own(i, pieces) \in [0..Len(pieces) -> Seq(Fragments)]
           /\ Own(i, pieces)[0] = <<>>
           /\ \A n \in 1..Len(pieces) :
                 Own(i, pieces)[n] = AddOwn(i, Own(i, pieces)[n - 1], pieces[n])
<1> DEFINE f == [p \in Seq(Fragments) \X CallPiece |-> AddOwn(i, p[1], p[2])]
           F(g) == g = [n \in 0..Len(pieces) |->
                          IF n = 0 THEN <<>> ELSE IF pieces[n].index = i
                          THEN g[n - 1] \o pieces[n].arguments ELSE g[n - 1]]
<1>1. Own(i, pieces) = CHOOSE g : F(g)
  BY DEF Own
<1>2. f \in [Seq(Fragments) \X CallPiece -> Seq(Fragments)]
  <2>1. ASSUME NEW text \in Seq(Fragments), NEW e \in CallPiece
        PROVE  AddOwn(i, text, e) \in Seq(Fragments)
    <3>1. e.arguments \in Seq(Fragments)
      BY DEF CallPiece
    <3>2. text \o e.arguments \in Seq(Fragments)
      BY <3>1
    <3> QED
      BY <3>2 DEF AddOwn
  <2> QED
    BY <2>1
<1>3. <<>> \in Seq(Fragments)
  OBVIOUS
<1>4. \A text \in Seq(Fragments), e \in CallPiece :
         f[<<text, e>>] = AddOwn(i, text, e) /\ f[<<text, e>>] \in Seq(Fragments)
  BY <1>2
<1> HIDE DEF f
<1>5. PICK w \in [0..Len(pieces) -> Seq(Fragments)] : Follows(f, w, pieces, <<>>)
  BY <1>2, <1>3, Recursion
<1>6. \A n \in 0..Len(pieces) : n # 0 =>
         n - 1 \in 0..Len(pieces) /\ n \in 1..Len(pieces) /\ pieces[n] \in CallPiece
  OBVIOUS
<1>7. \A n \in 0..Len(pieces) : n # 0 => f[<<w[n - 1], pieces[n]>>] = AddOwn(i, w[n - 1], pieces[n])
  BY <1>4, <1>5, <1>6
<1>8. F(w)
  BY <1>5, <1>7 DEF Follows, AddOwn
<1> DEFINE t == Own(i, pieces)
<1>9. F(t)
  BY <1>1, <1>8
<1> HIDE DEF t, F
<1> DEFINE T == {k \in 0..Len(pieces) : t[k] \in Seq(Fragments)}
<1>10. /\ t[0] = <<>>
       /\ \A n \in 1..Len(pieces) : t[n] = AddOwn(i, t[n - 1], pieces[n])
       /\ t = [n \in 0..Len(pieces) |-> t[n]]
  <2>1. 0 \in 0..Len(pieces) /\ \A n \in 1..Len(pieces) : n \in 0..Len(pieces) /\ n # 0
    OBVIOUS
  <2> QED
    BY <1>9, <2>1 DEF F, AddOwn
<1>11. 0..Len(pieces) \subseteq T
  <2>1. 0 \in T
    <3>1. 0 \in 0..Len(pieces)
      OBVIOUS
    <3> QED
      BY <1>3, <1>10, <3>1
  <2>2. ASSUME NEW k \in 0..Len(pieces) - 1, k \in T PROVE k + 1 \in T
    <3>1. k + 1 \in 1..Len(pieces) /\ k + 1 \in 0..Len(pieces) /\ (k + 1) - 1 = k
      OBVIOUS
    <3>2. t[k] \in Seq(Fragments) /\ pieces[k + 1] \in CallPiece
      BY <2>2, <3>1
    <3>3. AddOwn(i, t[k], pieces[k + 1]) \in Seq(Fragments)
      BY <1>4, <3>2
    <3>4. t[k + 1] = AddOwn(i, t[k], pieces[k + 1])
      BY <1>10, <3>1
    <3> QED
      BY <3>1, <3>3, <3>4
  <2>3. Len(pieces) \in Nat
    OBVIOUS
  <2> HIDE DEF T
  <2> QED
    BY <2>1, <2>2, <2>3, UpTo
<1>12. t \in [0..Len(pieces) -> Seq(Fragments)]
  BY <1>10, <1>11
<1> QED
  BY <1>10, <1>12 DEF t

\* What the pieces of one event say of call i.
OwnIn(i, e) == Own(i, Pieces(e))[Len(Pieces(e))]

LEMMA PiecesAreTyped ==
    ASSUME NEW e \in StreamedEvent
    PROVE  Pieces(e) \in Seq(CallPiece) /\ \A i : OwnIn(i, e) \in Seq(Fragments)
<1>1. Pieces(e) \in Seq(CallPiece)
  <2>1. e.kind = "delta" => e.calls \in Seq(CallPiece)
    BY DeltaEvent
  <2> QED
    BY <2>1 DEF Pieces
<1>2. ASSUME NEW i PROVE OwnIn(i, e) \in Seq(Fragments)
  <2>1. Own(i, Pieces(e)) \in [0..Len(Pieces(e)) -> Seq(Fragments)]
    BY <1>1, OwnByPiece
  <2>2. Len(Pieces(e)) \in 0..Len(Pieces(e))
    BY <1>1
  <2> QED
    BY <2>1, <2>2 DEF OwnIn
<1> QED
  BY <1>1, <1>2

LEMMA ArgumentsByEvent ==
    ASSUME NEW i, NEW events \in Seq(StreamedEvent)
    PROVE  /\ Arguments(i, events) \in [0..Len(events) -> Seq(Fragments)]
           /\ Arguments(i, events)[0] = <<>>
           /\ \A n \in 1..Len(events) :
                 Arguments(i, events)[n] = Arguments(i, events)[n - 1] \o OwnIn(i, events[n])
<1> DEFINE f == [p \in Seq(Fragments) \X StreamedEvent |-> p[1] \o OwnIn(i, p[2])]
           F(g) == g = [n \in 0..Len(events) |->
                          IF n = 0 THEN <<>> ELSE g[n - 1] \o OwnIn(i, events[n])]
<1>1. Arguments(i, events) = CHOOSE g : F(g)
  BY DEF Arguments, OwnIn
<1>2. f \in [Seq(Fragments) \X StreamedEvent -> Seq(Fragments)]
  <2>1. ASSUME NEW text \in Seq(Fragments), NEW e \in StreamedEvent
        PROVE  text \o OwnIn(i, e) \in Seq(Fragments)
    <3>1. OwnIn(i, e) \in Seq(Fragments)
      BY PiecesAreTyped
    <3> QED
      BY <3>1
  <2> QED
    BY <2>1
<1>3. <<>> \in Seq(Fragments)
  OBVIOUS
<1>4. \A text \in Seq(Fragments), e \in StreamedEvent :
         f[<<text, e>>] = text \o OwnIn(i, e) /\ f[<<text, e>>] \in Seq(Fragments)
  BY <1>2
<1> HIDE DEF f
<1>5. PICK w \in [0..Len(events) -> Seq(Fragments)] : Follows(f, w, events, <<>>)
  BY <1>2, <1>3, Recursion
<1>6. \A n \in 0..Len(events) : n # 0 =>
         n - 1 \in 0..Len(events) /\ n \in 1..Len(events) /\ events[n] \in StreamedEvent
  OBVIOUS
<1>7. \A n \in 0..Len(events) : n # 0 => f[<<w[n - 1], events[n]>>] = w[n - 1] \o OwnIn(i, events[n])
  BY <1>4, <1>5, <1>6
<1>8. F(w)
  BY <1>5, <1>7 DEF Follows
<1> DEFINE t == Arguments(i, events)
<1>9. F(t)
  BY <1>1, <1>8
<1> HIDE DEF t, F
<1> DEFINE T == {k \in 0..Len(events) : t[k] \in Seq(Fragments)}
<1>10. /\ t[0] = <<>>
       /\ \A n \in 1..Len(events) : t[n] = t[n - 1] \o OwnIn(i, events[n])
       /\ t = [n \in 0..Len(events) |-> t[n]]
  <2>1. 0 \in 0..Len(events) /\ \A n \in 1..Len(events) : n \in 0..Len(events) /\ n # 0
    OBVIOUS
  <2> QED
    BY <1>9, <2>1 DEF F
<1>11. 0..Len(events) \subseteq T
  <2>1. 0 \in T
    <3>1. 0 \in 0..Len(events)
      OBVIOUS
    <3> QED
      BY <1>3, <1>10, <3>1
  <2>2. ASSUME NEW k \in 0..Len(events) - 1, k \in T PROVE k + 1 \in T
    <3>1. k + 1 \in 1..Len(events) /\ k + 1 \in 0..Len(events) /\ (k + 1) - 1 = k
      OBVIOUS
    <3>2. t[k] \in Seq(Fragments) /\ events[k + 1] \in StreamedEvent
      BY <2>2, <3>1
    <3>3. t[k] \o OwnIn(i, events[k + 1]) \in Seq(Fragments)
      BY <1>4, <3>2
    <3>4. t[k + 1] = t[k] \o OwnIn(i, events[k + 1])
      BY <1>10, <3>1
    <3> QED
      BY <3>1, <3>3, <3>4
  <2>3. Len(events) \in Nat
    OBVIOUS
  <2> HIDE DEF T
  <2> QED
    BY <2>1, <2>2, <2>3, UpTo
<1>12. t \in [0..Len(events) -> Seq(Fragments)]
  BY <1>10, <1>11
<1> QED
  BY <1>10, <1>12 DEF t

\* Calls in the making, by index.
ToolItem == [id : CallIds \union {Nil}, arguments : Seq(Fragments)]
Indices == {S \in SUBSET Int : IsFiniteSet(S)}
Tools == UNION {[S -> ToolItem] : S \in Indices}
SoFar(calls, i) == IF i \in DOMAIN calls THEN calls[i].arguments ELSE <<>>

LEMMA ToolsAreTyped ==
    ASSUME NEW calls \in Tools
    PROVE  /\ DOMAIN calls \subseteq Int /\ IsFiniteSet(DOMAIN calls)
           /\ \A i \in DOMAIN calls : calls[i] \in ToolItem
           /\ \A i : SoFar(calls, i) \in Seq(Fragments)
<1>1. PICK S \in Indices : calls \in [S -> ToolItem]
  BY DEF Tools
<1>2. DOMAIN calls = S
  BY <1>1
<1>3. \A i \in DOMAIN calls : calls[i] \in ToolItem
  BY <1>1
<1>4. ASSUME NEW i PROVE SoFar(calls, i) \in Seq(Fragments)
  <2>1. CASE i \in DOMAIN calls
    <3>1. calls[i].arguments \in Seq(Fragments)
      BY <1>3, <2>1 DEF ToolItem
    <3> QED
      BY <2>1, <3>1 DEF SoFar
  <2>2. CASE i \notin DOMAIN calls
    BY <2>2 DEF SoFar
  <2> QED
    BY <2>1, <2>2
<1> QED
  BY <1>1, <1>2, <1>3, <1>4 DEF Indices

LEMMA AccumulateOne ==
    ASSUME NEW calls \in Tools, NEW piece \in CallPiece
    PROVE  /\ Accumulate(calls, piece) \in Tools
           /\ DOMAIN Accumulate(calls, piece) = DOMAIN calls \union {piece.index}
           /\ \A i : SoFar(Accumulate(calls, piece), i) = AddOwn(i, SoFar(calls, i), piece)
<1> DEFINE D == DOMAIN calls \union {piece.index}
           old == IF piece.index \in DOMAIN calls THEN calls[piece.index]
                  ELSE [id |-> Nil, arguments |-> <<>>]
           new == [id |-> IF piece.id # Nil THEN piece.id ELSE old.id,
                   arguments |-> old.arguments \o piece.arguments]
           a == Accumulate(calls, piece)
<1>1. /\ piece.index \in Int /\ piece.id \in CallIds \union {Nil}
      /\ piece.arguments \in Seq(Fragments)
  BY DEF CallPiece
<1>2. /\ DOMAIN calls \subseteq Int /\ IsFiniteSet(DOMAIN calls)
      /\ \A i \in DOMAIN calls : calls[i] \in ToolItem
  BY ToolsAreTyped
<1>3. old \in ToolItem /\ old.arguments = SoFar(calls, piece.index)
  <2>1. CASE piece.index \in DOMAIN calls
    BY <1>2, <2>1 DEF SoFar
  <2>2. CASE piece.index \notin DOMAIN calls
    <3>1. <<>> \in Seq(Fragments)
      OBVIOUS
    <3> QED
      BY <2>2, <3>1 DEF SoFar, ToolItem
  <2> QED
    BY <2>1, <2>2
<1>4. a = [i \in D |-> IF i = piece.index THEN new ELSE calls[i]]
  BY DEF Accumulate
<1>5. new \in ToolItem /\ new.arguments = SoFar(calls, piece.index) \o piece.arguments
  <2> HIDE DEF old
  <2>1. old.id \in CallIds \union {Nil} /\ old.arguments \in Seq(Fragments)
    BY <1>3 DEF ToolItem
  <2>2. old.arguments \o piece.arguments \in Seq(Fragments)
    BY <1>1, <2>1
  <2> QED
    BY <1>1, <1>3, <2>1, <2>2 DEF ToolItem
<1>6. D \in Indices
  <2>1. IsFiniteSet(DOMAIN calls \union {piece.index})
    BY <1>2, FS_AddElement
  <2> QED
    BY <1>1, <1>2, <2>1 DEF Indices
<1> HIDE DEF new, old
<1>7. a \in [D -> ToolItem]
  BY <1>2, <1>4, <1>5
<1>8. a \in Tools
  BY <1>6, <1>7 DEF Tools
<1>9. DOMAIN a = D /\ \A i \in D : a[i] = IF i = piece.index THEN new ELSE calls[i]
  BY <1>4
<1>10. ASSUME NEW i PROVE SoFar(a, i) = AddOwn(i, SoFar(calls, i), piece)
  <2> HIDE DEF a
  <2>1. CASE i = piece.index
    BY <1>5, <1>9, <2>1 DEF SoFar, AddOwn
  <2>2. CASE i # piece.index
    BY <1>9, <2>2 DEF SoFar, AddOwn
  <2> QED
    BY <2>1, <2>2
<1> QED
  BY <1>8, <1>9, <1>10

LEMMA AccumulateFold ==
    ASSUME NEW calls \in Tools, NEW pieces \in Seq(CallPiece)
    PROVE  \E w : /\ w[0] = calls /\ w[Len(pieces)] = FoldLeft(Accumulate, calls, pieces)
                  /\ \A k \in 0..Len(pieces) - 1 : w[k + 1] = Accumulate(w[k], pieces[k + 1])
<1> DEFINE n == Len(pieces)
           f == [p \in Tools \X CallPiece |-> Accumulate(p[1], p[2])]
           F(g) == g = [u \in SUBSET DOMAIN pieces |->
                           IF u = {} THEN calls ELSE Accumulate(g[u \ {Max(u)}], pieces[Max(u)])]
<1>1. n \in Nat /\ DOMAIN pieces = 1..n
  OBVIOUS
<1>2. f \in [Tools \X CallPiece -> Tools]
  <2>1. \A c \in Tools, p \in CallPiece : Accumulate(c, p) \in Tools
    BY AccumulateOne
  <2> QED
    BY <2>1
<1>3. FoldLeft(Accumulate, calls, pieces) = (CHOOSE g : F(g))[DOMAIN pieces]
  BY DEF FoldLeft, MapThenFoldSet
<1>4. \E g : F(g)
  <2>1. \A c \in Tools, p \in CallPiece : f[<<c, p>>] = Accumulate(c, p)
    BY DEF f
  <2> HIDE DEF f
  <2>2. PICK g : FoldBy(f, g, pieces, calls) /\ FoldIn(Tools, CallPiece, g, pieces)
    BY <1>2, TypedFold
  <2>3. \A u \in SUBSET DOMAIN pieces : u # {} =>
           f[<<g[u \ {Max(u)}], pieces[Max(u)]>>] = Accumulate(g[u \ {Max(u)}], pieces[Max(u)])
    BY <2>1, <2>2 DEF FoldIn
  <2>4. F(g)
    BY <2>2, <2>3 DEF FoldBy
  <2> QED
    BY <2>4
<1> HIDE DEF F
<1>5. PICK g : F(g) /\ FoldLeft(Accumulate, calls, pieces) = g[1..n]
  BY <1>1, <1>3, <1>4
<1> HIDE DEF n
<1>6. g[{}] = calls
      /\ \A u \in SUBSET (1..n) : u # {} => g[u] = Accumulate(g[u \ {Max(u)}], pieces[Max(u)])
  BY <1>1, <1>5 DEF F
<1>7. g[1..0] = calls
  BY <1>1, <1>6, OneIndexMore
<1>8. ASSUME NEW k \in 0..n - 1 PROVE g[1..k + 1] = Accumulate(g[1..k], pieces[k + 1])
  <2> DEFINE u == 1..k + 1
  <2>1. u \in SUBSET (1..n) /\ u # {} /\ Max(u) = k + 1 /\ u \ {k + 1} = 1..k
    BY <1>1, OneIndexMore
  <2> HIDE DEF u
  <2>2. g[u] = Accumulate(g[1..k], pieces[k + 1])
    BY <1>6, <2>1
  <2> QED
    BY <2>2 DEF u
<1> DEFINE w == [k \in 0..n |-> g[1..k]]
<1>9. /\ w[0] = g[1..0] /\ w[n] = g[1..n]
      /\ \A k \in 0..n - 1 : w[k] = g[1..k] /\ w[k + 1] = g[1..k + 1]
  BY <1>1
<1> HIDE DEF w
<1>10. w[0] = calls /\ w[n] = FoldLeft(Accumulate, calls, pieces)
       /\ \A k \in 0..n - 1 : w[k + 1] = Accumulate(w[k], pieces[k + 1])
  BY <1>5, <1>7, <1>8, <1>9
<1> QED
  BY <1>10 DEF n

\* All the pieces of an event: each call has its own added, in order.
LEMMA AccumulateAll ==
    ASSUME NEW calls \in Tools, NEW pieces \in Seq(CallPiece)
    PROVE  LET all == FoldLeft(Accumulate, calls, pieces)
           IN  /\ all \in Tools
               /\ DOMAIN all = DOMAIN calls \union {p.index : p \in Range(pieces)}
               /\ \A i : SoFar(all, i) = SoFar(calls, i) \o Own(i, pieces)[Len(pieces)]
<1> DEFINE n == Len(pieces)
           In(k) == DOMAIN calls \union {pieces[m].index : m \in 1..k}
<1>1. n \in Nat /\ DOMAIN pieces = 1..n /\ \A m \in 1..n : pieces[m] \in CallPiece
  OBVIOUS
<1>2. PICK w : /\ w[0] = calls /\ w[n] = FoldLeft(Accumulate, calls, pieces)
               /\ \A k \in 0..n - 1 : w[k + 1] = Accumulate(w[k], pieces[k + 1])
  BY AccumulateFold
<1> HIDE DEF n
<1> DEFINE T == {k \in 0..n : /\ w[k] \in Tools /\ DOMAIN w[k] = In(k)
                              /\ \A i : SoFar(w[k], i) = SoFar(calls, i) \o Own(i, pieces)[k]}
<1>3. \A i : /\ Own(i, pieces) \in [0..n -> Seq(Fragments)] /\ Own(i, pieces)[0] = <<>>
             /\ \A m \in 1..n : Own(i, pieces)[m] = AddOwn(i, Own(i, pieces)[m - 1], pieces[m])
  BY OwnByPiece DEF n
<1>4. 0 \in T
  <2>1. 0 \in 0..n /\ 1..0 = {}
    BY <1>1
  <2>2. In(0) = DOMAIN calls
    BY <2>1
  <2>3. ASSUME NEW i PROVE SoFar(w[0], i) = SoFar(calls, i) \o Own(i, pieces)[0]
    <3>1. SoFar(calls, i) \in Seq(Fragments)
      BY ToolsAreTyped
    <3>2. SoFar(calls, i) \o <<>> = SoFar(calls, i)
      BY <3>1, ConcatEmptySeq
    <3> QED
      BY <1>2, <1>3, <3>2
  <2> HIDE DEF In
  <2> QED
    BY <1>2, <2>1, <2>2, <2>3
<1>5. ASSUME NEW k \in 0..n - 1, k \in T PROVE k + 1 \in T
  <2>1. k \in 0..n /\ k + 1 \in 1..n /\ k + 1 \in 0..n /\ (k + 1) - 1 = k /\ k \in Nat
    BY <1>1
  <2>2. /\ w[k] \in Tools /\ DOMAIN w[k] = In(k)
        /\ \A i : SoFar(w[k], i) = SoFar(calls, i) \o Own(i, pieces)[k]
    BY <1>5
  <2>3. pieces[k + 1] \in CallPiece
    BY <1>1, <2>1
  <2>4. /\ w[k + 1] \in Tools /\ DOMAIN w[k + 1] = In(k) \union {pieces[k + 1].index}
        /\ \A i : SoFar(w[k + 1], i) = AddOwn(i, SoFar(w[k], i), pieces[k + 1])
    <3>1. w[k + 1] = Accumulate(w[k], pieces[k + 1])
      BY <1>2
    <3> DEFINE c == w[k]
               p == pieces[k + 1]
    <3>2. c \in Tools /\ p \in CallPiece /\ DOMAIN c = In(k) /\ w[k + 1] = Accumulate(c, p)
      BY <2>2, <2>3, <3>1
    <3> HIDE DEF c, p
    <3>3. /\ Accumulate(c, p) \in Tools
          /\ DOMAIN Accumulate(c, p) = DOMAIN c \union {p.index}
          /\ \A i : SoFar(Accumulate(c, p), i) = AddOwn(i, SoFar(c, i), p)
      BY <3>2, AccumulateOne
    <3> QED
      BY <3>2, <3>3 DEF c, p
  <2>5. In(k + 1) = In(k) \union {pieces[k + 1].index}
    <3>1. 1..k + 1 = (1..k) \union {k + 1}
      BY <2>1
    <3> QED
      BY <3>1
  <2>6. ASSUME NEW i PROVE SoFar(w[k + 1], i) = SoFar(calls, i) \o Own(i, pieces)[k + 1]
    <3> DEFINE A == SoFar(calls, i)
               B == Own(i, pieces)[k]
               C == pieces[k + 1].arguments
    <3>1. A \in Seq(Fragments) /\ B \in Seq(Fragments) /\ C \in Seq(Fragments)
      <4>1. A \in Seq(Fragments)
        BY ToolsAreTyped
      <4>2. B \in Seq(Fragments)
        BY <1>3, <2>1
      <4>3. C \in Seq(Fragments)
        BY <2>3 DEF CallPiece
      <4> QED
        BY <4>1, <4>2, <4>3
    <3>2. Own(i, pieces)[k + 1] = AddOwn(i, B, pieces[k + 1])
      BY <1>3, <2>1
    <3>3. SoFar(w[k + 1], i) = AddOwn(i, A \o B, pieces[k + 1])
      BY <2>2, <2>4
    <3> HIDE DEF A, B, C
    <3>4. (A \o B) \o C = A \o (B \o C)
      BY <3>1, ConcatAssociative
    <3>5. AddOwn(i, A \o B, pieces[k + 1]) = A \o AddOwn(i, B, pieces[k + 1])
      BY <3>4 DEF AddOwn, C
    <3> QED
      BY <3>2, <3>3, <3>5 DEF A
  <2> HIDE DEF In
  <2> QED
    BY <2>1, <2>4, <2>5, <2>6
<1>6. n \in T
  <2>1. n \in 0..n
    BY <1>1
  <2> HIDE DEF T
  <2> QED
    BY <1>1, <1>4, <1>5, <2>1, UpTo
<1>7. In(n) = DOMAIN calls \union {p.index : p \in Range(pieces)}
  BY <1>1 DEF Range
<1> QED
  BY <1>2, <1>6, <1>7 DEF n

\* An event's calls, as AccumulateAll gives them.
LEMMA EventAccumulated ==
    ASSUME NEW calls \in Tools, NEW e \in StreamedEvent, e.kind = "delta"
    PROVE  LET all == FoldLeft(Accumulate, calls, e.calls)
           IN  /\ all \in Tools
               /\ DOMAIN all = DOMAIN calls \union {p.index : p \in Range(Pieces(e))}
               /\ \A i : SoFar(all, i) = SoFar(calls, i) \o OwnIn(i, e)
<1>1. Pieces(e) = e.calls /\ Pieces(e) \in Seq(CallPiece)
  BY PiecesAreTyped DEF Pieces
<1> QED
  BY <1>1, AccumulateAll DEF OwnIn

LEMMA SortedByRank ==
    ASSUME NEW S \in Indices
    PROVE  \A i \in S : LET rank == Cardinality({j \in S : j <= i})
                        IN  rank \in 1..Cardinality(S) /\ Sorted(S)[rank] = i
<1>1. S \subseteq Int /\ IsFiniteSet(S)
  BY DEF Indices
<1> DEFINE UpToHere(i) == {j \in S : j <= i}
           Rank(i) == Cardinality(UpToHere(i))
<1>2. ASSUME NEW i \in S
      PROVE  Rank(i) \in Nat /\ Rank(i) <= Cardinality(S) /\ Rank(i) # 0 /\ IsFiniteSet(UpToHere(i))
  <2>1. UpToHere(i) \in SUBSET S /\ i \in UpToHere(i)
    BY <1>1
  <2> HIDE DEF UpToHere
  <2>2. IsFiniteSet(UpToHere(i)) /\ Cardinality(UpToHere(i)) <= Cardinality(S)
    BY <1>1, <2>1, FS_Subset
  <2>3. Cardinality(UpToHere(i)) \in Nat
    BY <2>2, FS_CardinalityType
  <2>4. Cardinality(UpToHere(i)) # 0
    BY <2>1, <2>2, FS_EmptySet
  <2> QED
    BY <2>2, <2>3, <2>4
<1>3. ASSUME NEW i \in S, NEW j \in S, i < j PROVE Rank(i) # Rank(j)
  <2>1. UpToHere(i) \in SUBSET UpToHere(j) /\ j \in UpToHere(j) /\ j \notin UpToHere(i)
    <3>1. i \in Int /\ j \in Int
      BY <1>1
    <3>2. ASSUME NEW k \in S, k <= i PROVE k <= j
      BY <1>1, <1>3, <3>1, <3>2
    <3>3. UpToHere(i) \in SUBSET UpToHere(j)
      BY <3>2
    <3>4. j <= j /\ ~(j <= i)
      BY <1>3, <3>1
    <3> QED
      BY <3>3, <3>4
  <2> HIDE DEF UpToHere
  <2> QED
    BY <1>2, <2>1, FS_Subset
<1>4. ASSUME NEW i \in S, NEW j \in S, Rank(i) = Rank(j) PROVE i = j
  <2> HIDE DEF Rank
  <2>1. i \in Int /\ j \in Int
    BY <1>1
  <2> QED
    BY <1>3, <1>4, <2>1
<1>5. Cardinality(S) \in Nat
  BY <1>1, FS_CardinalityType
<1>6. ASSUME NEW i \in S PROVE Rank(i) \in 1..Cardinality(S) /\ Sorted(S)[Rank(i)] = i
  <2>1. Rank(i) \in 1..Cardinality(S)
    <3>1. Rank(i) \in Nat /\ Rank(i) <= Cardinality(S) /\ Rank(i) # 0
      BY <1>2
    <3> DEFINE r == Rank(i)
    <3> HIDE DEF r
    <3>2. r \in Nat /\ r <= Cardinality(S) /\ r # 0
      BY <3>1 DEF r
    <3>3. r \in 1..Cardinality(S)
      BY <1>5, <3>2
    <3> QED
      BY <3>3 DEF r
  <2>2. Sorted(S)[Rank(i)] = CHOOSE j \in S : Rank(j) = Rank(i)
    BY <2>1 DEF Sorted
  <2> HIDE DEF Rank
  <2>3. \A j \in S : Rank(j) = Rank(i) <=> j = i
    BY <1>4
  <2>4. (CHOOSE j \in S : Rank(j) = Rank(i)) = i
    BY <2>3
  <2> QED
    BY <2>1, <2>2, <2>4
<1> QED
  BY <1>6

LEMMA MessageByRank ==
    ASSUME NEW texts, NEW calls \in Tools
    PROVE  LET made == MakeMessage(texts, calls)
               S == DOMAIN calls
           IN  /\ made.content = texts /\ Len(made.toolCalls) = Cardinality(S)
               /\ \A i \in S : made.toolCalls[Cardinality({j \in S : j <= i})].input
                                 = SoFar(calls, i)
<1> DEFINE S == DOMAIN calls
           order == Sorted(S)
           listed == [k \in DOMAIN order |-> ToToolCall(order[k], calls[order[k]])]
<1>1. S \in Indices /\ Cardinality(S) \in Nat
  <2>1. S \subseteq Int /\ IsFiniteSet(S)
    BY ToolsAreTyped
  <2> QED
    BY <2>1, FS_CardinalityType DEF Indices
<1>2. MakeMessage(texts, calls) = [content |-> texts, toolCalls |-> listed]
  BY DEF MakeMessage
<1> HIDE DEF S
<1>3. DOMAIN order = 1..Cardinality(S)
  BY DEF Sorted
<1> HIDE DEF order
<1>4. listed = [k \in 1..Cardinality(S) |-> ToToolCall(order[k], calls[order[k]])]
  BY <1>3
<1>5. Len(listed) = Cardinality(S)
  <2>1. DOMAIN listed = 1..Cardinality(S)
    BY <1>4
  <2>2. listed \in Seq({listed[k] : k \in 1..Cardinality(S)})
    BY <1>1, <1>4
  <2> HIDE DEF listed
  <2> QED
    BY <1>1, <2>1, <2>2, LenProperties
<1>6. ASSUME NEW i \in S
      PROVE  listed[Cardinality({j \in S : j <= i})].input = SoFar(calls, i)
  <2> DEFINE rank == Cardinality({j \in S : j <= i})
  <2>1. rank \in 1..Cardinality(S) /\ order[rank] = i
    BY <1>1, SortedByRank DEF order
  <2> HIDE DEF rank
  <2>2. listed[rank] = ToToolCall(i, calls[i])
    BY <1>3, <2>1
  <2>3. listed[rank].input = calls[i].arguments
    BY <2>2 DEF ToToolCall
  <2> QED
    BY <2>3 DEF SoFar, S, rank
<1> HIDE DEF listed
<1> QED
  BY <1>2, <1>5, <1>6 DEF S

-------------------------------------------------------------------------------
(* What is on the line.                                                     *)

Unit == [of : Nat, is : {"first", "second", "lf", "crlf"}]


LEMMA UnitsOfEvent ==
    ASSUME NEW events \in Seq(StreamedEvent), NEW ends \in {"lf", "crlf"},
           NEW sent, sent.events = events, sent.ends = ends
    PROVE  /\ Units(sent) \in Seq(Unit) /\ Len(Units(sent)) = 4 * Len(events)
           /\ \A u \in 1..4 * Len(events) : Units(sent)[u].is \in {"first", "second", ends}
           /\ \A i \in 1..Len(events) :
                 /\ Units(sent)[4 * i - 3] = [of |-> i, is |-> "first"]
                 /\ Units(sent)[4 * i - 2] = [of |-> i, is |-> "second"]
                 /\ Units(sent)[4 * i - 1] = [of |-> i, is |-> ends]
                 /\ Units(sent)[4 * i] = [of |-> i, is |-> ends]
<1> DEFINE n == Len(events)
           signs == <<"first", "second", ends, ends>>
           U == Units(sent)
<1>1. n \in Nat
  OBVIOUS
<1>2. U = [u \in 1..4 * n |-> [of |-> (u + 3) \div 4, is |-> signs[((u - 1) % 4) + 1]]]
  BY DEF Units
<1> HIDE DEF n, U
<1>3. signs[1] = "first" /\ signs[2] = "second" /\ signs[3] = ends /\ signs[4] = ends
  OBVIOUS
<1> HIDE DEF signs
<1>4. ASSUME NEW u \in 1..4 * n
      PROVE  /\ [of |-> (u + 3) \div 4, is |-> signs[((u - 1) % 4) + 1]] \in Unit
             /\ signs[((u - 1) % 4) + 1] \in {"first", "second", ends}
  <2>1. (u + 3) \div 4 \in Nat /\ (u - 1) % 4 \in 0..3
    BY <1>1
  <2>2. ((u - 1) % 4) + 1 \in {1, 2, 3, 4}
    BY <2>1
  <2>3. signs[((u - 1) % 4) + 1] \in {"first", "second", ends}
    BY <1>3, <2>2
  <2> QED
    BY <2>1, <2>3 DEF Unit
<1>5. U \in [1..4 * n -> Unit]
  BY <1>2, <1>4
<1>6. U \in Seq(Unit) /\ Len(U) = 4 * n
  <2>1. 4 * n \in Nat
    BY <1>1
  <2> QED
    BY <1>5, <2>1
<1>7. ASSUME NEW i \in 1..n
      PROVE  /\ U[4 * i - 3] = [of |-> i, is |-> "first"]
             /\ U[4 * i - 2] = [of |-> i, is |-> "second"]
             /\ U[4 * i - 1] = [of |-> i, is |-> ends]
             /\ U[4 * i] = [of |-> i, is |-> ends]
  <2>1. /\ 4 * i - 3 \in 1..4 * n /\ 4 * i - 2 \in 1..4 * n /\ 4 * i - 1 \in 1..4 * n /\ 4 * i \in 1..4 * n
        /\ ((4 * i - 3) + 3) \div 4 = i /\ ((4 * i - 2) + 3) \div 4 = i
        /\ ((4 * i - 1) + 3) \div 4 = i /\ ((4 * i) + 3) \div 4 = i
    BY <1>1
  <2>2. /\ (((4 * i - 3) - 1) % 4) + 1 = 1 /\ (((4 * i - 2) - 1) % 4) + 1 = 2
        /\ (((4 * i - 1) - 1) % 4) + 1 = 3 /\ (((4 * i) - 1) % 4) + 1 = 4
    BY <1>1
  <2>3. U[4 * i - 3] = [of |-> i, is |-> "first"]
    BY <1>2, <1>3, <2>1, <2>2
  <2>4. U[4 * i - 2] = [of |-> i, is |-> "second"]
    BY <1>2, <1>3, <2>1, <2>2
  <2>5. U[4 * i - 1] = [of |-> i, is |-> ends]
    BY <1>2, <1>3, <2>1, <2>2
  <2>6. U[4 * i] = [of |-> i, is |-> ends]
    BY <1>2, <1>3, <2>1, <2>2
  <2> QED
    BY <2>3, <2>4, <2>5, <2>6
<1>8. \A u \in 1..4 * n : U[u].is \in {"first", "second", ends}
  BY <1>2, <1>4
<1> QED
  BY <1>6, <1>7, <1>8 DEF n, U

\* n units have been read, the events they bring up to the k-th taken out.
HasRead(sent, n, k, buf) ==
    /\ k \in 0..Len(sent.events) /\ n \in 4 * k..4 * Len(sent.events)
    /\ sent.ends # "lf" => k = 0
    /\ buf = SubSeq(Units(sent), 4 * k + 1, n)

LEMMA AnswersAreTyped ==
    ASSUME NEW sent \in Streamed
    PROVE  /\ sent.events \in Seq(StreamedEvent) /\ sent.ends \in {"lf", "crlf"}
           /\ Len(sent.events) \in Nat /\ DOMAIN sent.events = 1..Len(sent.events)
           /\ \A i \in 1..Len(sent.events) : sent.events[i] \in StreamedEvent
<1>1. sent.events \in Seq(StreamedEvent) /\ sent.ends \in {"lf", "crlf"}
  BY StreamAssumption
<1> QED
  BY <1>1

LEMMA RestOfLine ==
    ASSUME NEW sent \in Streamed, NEW n, NEW k, NEW buf, HasRead(sent, n, k, buf)
    PROVE  /\ Len(buf) = n - 4 * k /\ Len(buf) \in Nat /\ DOMAIN buf = 1..Len(buf)
           /\ buf \in Seq(Unit)
           /\ \A j \in 1..Len(buf) : buf[j].is \in {"first", "second", sent.ends}
           /\ Len(buf) >= 1 => k + 1 \in 1..Len(sent.events) /\ buf[1].of = k + 1 /\ buf[1].is = "first"
           /\ Len(buf) >= 2 => buf[2].of = k + 1 /\ buf[2].is = "second"
           /\ Len(buf) >= 3 => buf[3].of = k + 1 /\ buf[3].is = sent.ends
           /\ Len(buf) >= 4 => buf[4].of = k + 1 /\ buf[4].is = sent.ends
           /\ Len(buf) >= 5 => buf[5].is = "first"
<1> DEFINE N == Len(sent.events)
           U == Units(sent)
<1>1. /\ sent.events \in Seq(StreamedEvent) /\ sent.ends \in {"lf", "crlf"} /\ N \in Nat
  BY AnswersAreTyped
<1>2. /\ U \in Seq(Unit) /\ Len(U) = 4 * N
      /\ \A u \in 1..4 * N : U[u].is \in {"first", "second", sent.ends}
      /\ \A i \in 1..N :
            /\ U[4 * i - 3] = [of |-> i, is |-> "first"]
            /\ U[4 * i - 2] = [of |-> i, is |-> "second"]
            /\ U[4 * i - 1] = [of |-> i, is |-> sent.ends]
            /\ U[4 * i] = [of |-> i, is |-> sent.ends]
  BY <1>1, UnitsOfEvent
<1> HIDE DEF U
<1>3. k \in 0..N /\ n \in 4 * k..4 * N /\ buf = SubSeq(U, 4 * k + 1, n)
  BY DEF HasRead, U
<1> HIDE DEF N
<1>4. k \in Int /\ n \in Int /\ 4 * k + 1 \in Int
  BY <1>1, <1>3
<1>5. \A i \in 4 * k + 1..n : U[i] \in Unit
  <2>1. \A i \in 4 * k + 1..n : i \in 1..Len(U)
    BY <1>1, <1>2, <1>3
  <2> QED
    BY <1>2, <2>1
<1>6. /\ buf \in Seq(Unit)
      /\ Len(buf) = IF 4 * k + 1 <= n THEN n - (4 * k + 1) + 1 ELSE 0
      /\ \A i \in 1..n - (4 * k + 1) + 1 : buf[i] = U[(4 * k + 1) + i - 1]
  BY <1>3, <1>4, <1>5, SubSeqProperties
<1>7. Len(buf) = n - 4 * k /\ Len(buf) \in Nat
  BY <1>3, <1>4, <1>6
<1>8. \A i \in 1..Len(buf) : buf[i] = U[4 * k + i] /\ 4 * k + i \in 1..4 * N
  <2>1. ASSUME NEW i \in 1..Len(buf) PROVE buf[i] = U[4 * k + i] /\ 4 * k + i \in 1..4 * N
    <3>1. i \in Int /\ i \in 1..n - (4 * k + 1) + 1 /\ (4 * k + 1) + i - 1 = 4 * k + i
          /\ 4 * k + i \in 1..4 * N
      BY <1>1, <1>3, <1>4, <1>7
    <3> QED
      BY <1>6, <3>1
  <2> QED
    BY <2>1
<1>9. DOMAIN buf = 1..Len(buf) /\ \A j \in 1..Len(buf) : buf[j].is \in {"first", "second", sent.ends}
  BY <1>2, <1>6, <1>8
<1>10. ASSUME Len(buf) >= 1 PROVE k + 1 \in 1..N
  BY <1>1, <1>3, <1>4, <1>7, <1>10
<1>11. k + 1 \in 1..N =>
       /\ U[4 * k + 1] = [of |-> k + 1, is |-> "first"]
       /\ U[4 * k + 2] = [of |-> k + 1, is |-> "second"]
       /\ U[4 * k + 3] = [of |-> k + 1, is |-> sent.ends]
       /\ U[4 * k + 4] = [of |-> k + 1, is |-> sent.ends]
  <2>1. /\ 4 * (k + 1) - 3 = 4 * k + 1 /\ 4 * (k + 1) - 2 = 4 * k + 2
        /\ 4 * (k + 1) - 1 = 4 * k + 3 /\ 4 * (k + 1) = 4 * k + 4
    BY <1>4
  <2> QED
    BY <1>2, <2>1
<1>12. ASSUME Len(buf) >= 5 PROVE buf[5].is = "first"
  <2>1. 5 \in 1..Len(buf) /\ k + 2 \in 1..N /\ 4 * (k + 2) - 3 = 4 * k + 5
    BY <1>1, <1>3, <1>4, <1>7, <1>12
  <2>2. U[4 * k + 5] = [of |-> k + 2, is |-> "first"]
    BY <1>2, <2>1
  <2>3. buf[5] = U[4 * k + 5]
    BY <1>8, <2>1
  <2> QED
    BY <2>2, <2>3
<1>13. /\ Len(buf) >= 1 => 1 \in 1..Len(buf) /\ k + 1 \in 1..N
       /\ Len(buf) >= 2 => 2 \in 1..Len(buf) /\ Len(buf) >= 1
       /\ Len(buf) >= 3 => 3 \in 1..Len(buf) /\ Len(buf) >= 1
       /\ Len(buf) >= 4 => 4 \in 1..Len(buf) /\ Len(buf) >= 1
  BY <1>7, <1>10
<1>14. /\ Len(buf) >= 1 => buf[1] = [of |-> k + 1, is |-> "first"]
       /\ Len(buf) >= 2 => buf[2] = [of |-> k + 1, is |-> "second"]
       /\ Len(buf) >= 3 => buf[3] = [of |-> k + 1, is |-> sent.ends]
       /\ Len(buf) >= 4 => buf[4] = [of |-> k + 1, is |-> sent.ends]
  BY <1>8, <1>11, <1>13
<1> QED
  BY <1>6, <1>7, <1>9, <1>12, <1>13, <1>14 DEF N

\* The first separator is that of the next event, once all of it is there.
LEMMA SplitIsAtFour ==
    ASSUME NEW sent \in Streamed, NEW n, NEW k, NEW buf, HasRead(sent, n, k, buf)
    PROVE  /\ sent.ends = "lf" /\ Len(buf) >= 4 => SplitAt(buf) = 4
           /\ ~(sent.ends = "lf" /\ Len(buf) >= 4) => SplitAt(buf) = 0
<1> DEFINE ends == {i \in DOMAIN buf : i > 1 /\ buf[i].is = "lf" /\ buf[i - 1].is = "lf"}
<1>1. /\ Len(buf) \in Nat /\ DOMAIN buf = 1..Len(buf) /\ sent.ends \in {"lf", "crlf"}
      /\ \A j \in 1..Len(buf) : buf[j].is \in {"first", "second", sent.ends}
      /\ Len(buf) >= 1 => buf[1].is = "first"
      /\ Len(buf) >= 2 => buf[2].is = "second"
      /\ Len(buf) >= 3 => buf[3].is = sent.ends
      /\ Len(buf) >= 4 => buf[4].is = sent.ends
  <2>1. sent.ends \in {"lf", "crlf"}
    BY AnswersAreTyped
  <2>2. /\ Len(buf) \in Nat /\ DOMAIN buf = 1..Len(buf)
        /\ \A j \in 1..Len(buf) : buf[j].is \in {"first", "second", sent.ends}
    BY RestOfLine
  <2>3. /\ Len(buf) >= 1 => buf[1].is = "first"
        /\ Len(buf) >= 2 => buf[2].is = "second"
        /\ Len(buf) >= 3 => buf[3].is = sent.ends
        /\ Len(buf) >= 4 => buf[4].is = sent.ends
    BY RestOfLine
  <2> QED
    BY <2>1, <2>2, <2>3
<1>2. SplitAt(buf) = IF ends = {} THEN 0 ELSE CHOOSE i \in ends : \A l \in ends : i <= l
  BY DEF SplitAt
<1>3. ASSUME sent.ends = "lf", Len(buf) >= 4 PROVE SplitAt(buf) = 4
  <2>1. 4 \in ends
    BY <1>1, <1>3
  <2>2. ASSUME NEW i \in ends PROVE 4 <= i
    <3>1. i \in 1..Len(buf) /\ i > 1 /\ buf[i].is = "lf" /\ buf[i - 1].is = "lf"
      BY <1>1
    <3>2. i # 2 /\ i # 3
      <4>1. buf[2].is = "second"
        BY <1>1, <1>3
      <4> QED
        BY <3>1, <4>1
    <3> QED
      BY <1>1, <3>1, <3>2
  <2>3. ends \subseteq Int
    BY <1>1
  <2> HIDE DEF ends
  <2>4. \A i \in ends : (\A l \in ends : i <= l) <=> i = 4
    BY <2>1, <2>2, <2>3
  <2> QED
    BY <1>2, <2>1, <2>4
<1>4. ASSUME ~(sent.ends = "lf" /\ Len(buf) >= 4) PROVE SplitAt(buf) = 0
  <2>1. ASSUME NEW i \in ends PROVE FALSE
    <3>1. i \in 1..Len(buf) /\ i > 1 /\ buf[i].is = "lf" /\ buf[i - 1].is = "lf"
      BY <1>1
    <3>2. sent.ends = "lf"
      BY <1>1, <3>1
    <3>3. i = 2 \/ i = 3
      BY <1>1, <1>4, <3>1, <3>2
    <3>4. buf[2].is = "second" /\ (i = 3 => i - 1 = 2)
      BY <1>1, <3>1, <3>3
    <3> QED
      BY <3>1, <3>3, <3>4
  <2>2. ends = {}
    BY <2>1
  <2> HIDE DEF ends
  <2> QED
    BY <1>2, <2>2
<1> QED
  BY <1>3, <1>4

\* The events that count, when they are the first m.
LEMMA WholeIs ==
    ASSUME NEW sent \in Streamed, sent.ends = "lf", NEW n \in Nat, NEW m \in 0..Len(sent.events),
           \A i \in 1..m : n >= 4 * i - 2,
           \A i \in 1..m - 1 : sent.events[i].kind # "done",
           \/ m # 0 /\ sent.events[m].kind = "done"
           \/ /\ \A i \in 1..Len(sent.events) : n >= 4 * i - 2 => i <= m
              /\ m # 0 => sent.events[m].kind # "done"
    PROVE  Whole(sent, n) = 1..m
<1> DEFINE N == Len(sent.events)
           came == {i \in 1..N : n >= 4 * i - 2}
           stop == {i \in came : sent.events[i].kind = "done"}
<1>1. N \in Nat /\ DOMAIN sent.events = 1..N
  BY AnswersAreTyped
<1>2. Whole(sent, n) = {i \in came : \A d \in stop : i <= d}
  BY <1>1 DEF Whole
<1> HIDE DEF N
<1>3. m \in 0..N /\ \A i \in 1..m : i \in 1..N
  BY <1>1 DEF N
<1>4. 1..m \subseteq came
  BY <1>3
<1>5. \A d \in stop : d \in 1..N /\ (d \in 1..m - 1 => FALSE)
  OBVIOUS
<1>6. \A d \in stop : d >= m
  BY <1>1, <1>3, <1>5
<1>7. ASSUME NEW i \in 1..m, NEW d \in stop PROVE i <= d
  BY <1>1, <1>3, <1>5, <1>6
<1>8. ASSUME NEW i \in came, \A d \in stop : i <= d PROVE i \in 1..m
  <2>1. i \in 1..N /\ n >= 4 * i - 2
    OBVIOUS
  <2>2. CASE m # 0 /\ sent.events[m].kind = "done"
    <3>1. m \in 1..m
      BY <1>1, <1>3, <2>2
    <3>2. m \in stop
      BY <1>4, <2>2, <3>1
    <3> QED
      BY <1>1, <1>3, <1>8, <2>1, <3>2
  <2>3. CASE \A j \in 1..N : n >= 4 * j - 2 => j <= m
    BY <1>1, <1>3, <2>1, <2>3
  <2> QED
    BY <2>2, <2>3 DEF N
<1> HIDE DEF came, stop
<1> QED
  BY <1>2, <1>4, <1>7, <1>8

LEMMA DecodedIs ==
    ASSUME NEW raw, Len(raw) \in Nat, DOMAIN raw = 1..Len(raw)
    PROVE  /\ (/\ Len(raw) >= 2 /\ raw[1].is = "first" /\ raw[2].is = "second"
               /\ raw[1].of = raw[2].of
               /\ \A j \in 3..Len(raw) : raw[j].is \notin {"first", "second"})
              => Decoded(raw) = raw[1].of
           /\ (Len(raw) < 2 \/ (Len(raw) >= 5 /\ raw[5].is = "first")) => Decoded(raw) = 0
<1> DEFINE text == {j \in DOMAIN raw : raw[j].is \in {"first", "second"}}
<1>1. Decoded(raw) = IF text = {1, 2} /\ raw[1].is = "first" /\ raw[1].of = raw[2].of
                     THEN raw[1].of ELSE 0
  BY DEF Decoded
<1>2. ASSUME Len(raw) >= 2, raw[1].is = "first", raw[2].is = "second",
             raw[1].of = raw[2].of,
             \A j \in 3..Len(raw) : raw[j].is \notin {"first", "second"}
      PROVE  Decoded(raw) = raw[1].of
  <2>1. 1 \in text /\ 2 \in text
    BY <1>2
  <2>2. ASSUME NEW j \in text PROVE j = 1 \/ j = 2
    <3>1. j \in 1..Len(raw) /\ j \notin 3..Len(raw)
      BY <1>2
    <3> QED
      BY <3>1
  <2>3. text = {1, 2}
    BY <2>1, <2>2
  <2> HIDE DEF text
  <2> QED
    BY <1>1, <1>2, <2>3
<1>3. ASSUME Len(raw) < 2 \/ (Len(raw) >= 5 /\ raw[5].is = "first") PROVE Decoded(raw) = 0
  <2>1. CASE Len(raw) < 2
    <3>1. 2 \notin DOMAIN raw
      BY <2>1
    <3>2. text # {1, 2}
      BY <3>1
    <3> HIDE DEF text
    <3> QED
      BY <1>1, <3>2
  <2>2. CASE Len(raw) >= 5 /\ raw[5].is = "first"
    <3>1. 5 \in text
      BY <2>2
    <3>2. text # {1, 2}
      BY <3>1
    <3> HIDE DEF text
    <3> QED
      BY <1>1, <3>2
  <2> QED
    BY <1>3, <2>1, <2>2
<1> QED
  BY <1>2, <1>3

\* Of a stream with CR LF, a single event that came whole counts.
LEMMA WholeAlone ==
    ASSUME NEW sent \in Streamed, sent.ends # "lf", NEW n \in 0..4 * Len(sent.events)
    PROVE  Whole(sent, n) = IF n \in 2..4 THEN 1..1 ELSE 1..0
<1> DEFINE N == Len(sent.events)
<1>1. N \in Nat /\ DOMAIN sent.events = 1..N
  BY AnswersAreTyped
<1>2. Whole(sent, n) = {i \in 1..N : n >= 4 * i - 2 /\ n <= 4}
  BY <1>1 DEF Whole
<1> HIDE DEF N
<1>3. n \in Nat /\ (n \in 2..4 => 1 \in 1..N)
  BY <1>1 DEF N
<1>4. \A i \in 1..N : n >= 4 * i - 2 /\ n <= 4 => i = 1 /\ n \in 2..4
  BY <1>1, <1>3
<1>5. CASE n \in 2..4
  <2>1. 1 \in 1..N /\ n >= 4 * 1 - 2 /\ n <= 4 /\ 1..1 = {1}
    BY <1>3, <1>5
  <2> QED
    BY <1>2, <1>4, <1>5, <2>1
<1>6. CASE n \notin 2..4
  <2>1. 1..0 = {}
    OBVIOUS
  <2> QED
    BY <1>2, <1>4, <1>6, <2>1
<1> QED
  BY <1>5, <1>6

\* k events have been read, and none that ends the stream.
Undone(sent, k) == \A i \in 1..k : sent.events[i].kind \notin {"done", "error"}

LEMMA LastPiece ==
    ASSUME answer \in Streamed, NEW k, HasRead(answer, arrived, k, buffer), Undone(answer, k),
           SplitAt(buffer) = 0
    PROVE  \/ Whole(answer, arrived) = 1..k /\ EventIn(buffer) = [kind |-> "junk"]
           \/ /\ k + 1 \in 1..Len(answer.events) /\ Whole(answer, arrived) = 1..k + 1
              /\ EventIn(buffer) = answer.events[k + 1]
<1> DEFINE N == Len(answer.events)
           r == Len(buffer)
<1>1. N \in Nat /\ DOMAIN answer.events = 1..N /\ answer.ends \in {"lf", "crlf"}
  BY AnswersAreTyped
<1>2. /\ r = arrived - 4 * k /\ r \in Nat /\ DOMAIN buffer = 1..r
      /\ \A j \in 1..r : buffer[j].is \in {"first", "second", answer.ends}
      /\ r >= 1 => k + 1 \in 1..N /\ buffer[1].of = k + 1 /\ buffer[1].is = "first"
      /\ r >= 2 => buffer[2].of = k + 1 /\ buffer[2].is = "second"
      /\ r >= 3 => buffer[3].of = k + 1 /\ buffer[3].is = answer.ends
      /\ r >= 4 => buffer[4].of = k + 1 /\ buffer[4].is = answer.ends
      /\ r >= 5 => buffer[5].is = "first"
  BY RestOfLine
<1>3. EventIn(buffer) = IF Decoded(buffer) \in 1..N THEN answer.events[Decoded(buffer)]
                        ELSE [kind |-> "junk"]
  BY <1>1 DEF EventIn
<1>4. ~(answer.ends = "lf" /\ r >= 4)
  <2>1. answer.ends = "lf" /\ r >= 4 => SplitAt(buffer) = 4
    BY SplitIsAtFour
  <2> QED
    BY <2>1
<1>5. k \in 0..N /\ arrived \in 4 * k..4 * N /\ (answer.ends # "lf" => k = 0)
  BY DEF HasRead
<1> HIDE DEF N, r
<1>6. k \in Int /\ arrived \in Nat /\ arrived = 4 * k + r
  BY <1>1, <1>2, <1>5
<1>7. CASE r \in 2..4
  <2>1. \A j \in 3..r : buffer[j].is \notin {"first", "second"}
    <3>1. \A j \in 3..r : j = 3 \/ j = 4
      BY <1>7
    <3> QED
      BY <1>1, <1>2, <1>7, <3>1
  <2>2. Decoded(buffer) = k + 1
    BY <1>2, <1>7, <2>1, DecodedIs DEF r
  <2>3. k + 1 \in 1..N /\ EventIn(buffer) = answer.events[k + 1]
    BY <1>2, <1>3, <1>7, <2>2
  <2>4. CASE answer.ends = "lf"
    <3>1. r \in {2, 3}
      BY <1>4, <1>7, <2>4
    <3>2. /\ \A i \in 1..k + 1 : arrived >= 4 * i - 2
          /\ \A i \in 1..N : arrived >= 4 * i - 2 => i <= k + 1
      BY <1>1, <1>6, <3>1
    <3>3. \A i \in 1..(k + 1) - 1 : answer.events[i].kind # "done"
      BY <1>6 DEF Undone
    <3>4. k + 1 \in 0..N /\ k + 1 # 0
      BY <1>6, <2>3
    <3>5. Whole(answer, arrived) = 1..k + 1
      BY <1>6, <2>4, <3>2, <3>3, <3>4, WholeIs DEF N
    <3> QED
      BY <2>3, <3>5 DEF N
  <2>5. CASE answer.ends # "lf"
    <3>1. k = 0 /\ arrived \in 2..4 /\ arrived \in 0..4 * N /\ 1..k + 1 = 1..1
      BY <1>1, <1>5, <1>6, <1>7, <2>5
    <3>2. Whole(answer, arrived) = 1..1
      BY <2>5, <3>1, WholeAlone DEF N
    <3> QED
      BY <2>3, <3>1, <3>2 DEF N
  <2> QED
    BY <2>4, <2>5
<1>8. CASE r \notin 2..4
  <2>1. r < 2 \/ (r >= 5 /\ buffer[5].is = "first")
    BY <1>2, <1>8
  <2>2. Decoded(buffer) = 0
    BY <1>2, <2>1, DecodedIs DEF r
  <2>3. EventIn(buffer) = [kind |-> "junk"]
    BY <1>3, <2>2
  <2>4. CASE answer.ends = "lf"
    <3>1. r \in {0, 1}
      BY <1>2, <1>4, <1>8, <2>4
    <3>2. /\ \A i \in 1..k : arrived >= 4 * i - 2
          /\ \A i \in 1..N : arrived >= 4 * i - 2 => i <= k
      BY <1>1, <1>6, <3>1
    <3>3. /\ \A i \in 1..k - 1 : answer.events[i].kind # "done"
          /\ k # 0 => answer.events[k].kind # "done"
      <4>1. \A i \in 1..k - 1 : i \in 1..k
        BY <1>6
      <4>2. k # 0 => k \in 1..k
        BY <1>1, <1>5
      <4> QED
        BY <4>1, <4>2 DEF Undone
    <3>4. Whole(answer, arrived) = 1..k
      BY <1>5, <1>6, <2>4, <3>2, <3>3, WholeIs DEF N
    <3> QED
      BY <2>3, <3>4
  <2>5. CASE answer.ends # "lf"
    <3>1. k = 0 /\ arrived \notin 2..4 /\ arrived \in 0..4 * N /\ 1..k = 1..0
      <4>1. k = 0
        BY <1>5, <2>5
      <4>2. arrived = r /\ 1..k = 1..0
        BY <1>2, <1>6, <4>1
      <4>3. arrived \in 0..4 * N
        BY <1>5, <4>1
      <4> QED
        BY <1>8, <4>1, <4>2, <4>3
    <3>2. Whole(answer, arrived) = 1..0
      BY <2>5, <3>1, WholeAlone DEF N
    <3> QED
      BY <2>3, <3>1, <3>2
  <2> QED
    BY <2>4, <2>5
<1> QED
  BY <1>7, <1>8

LEMMA NextPiece ==
    ASSUME answer \in Streamed, NEW k, HasRead(answer, arrived, k, buffer), Undone(answer, k),
           SplitAt(buffer) # 0
    PROVE  LET next == SubSeq(buffer, SplitAt(buffer) + 1, Len(buffer))
           IN  /\ k + 1 \in 1..Len(answer.events)
               /\ EventIn(SubSeq(buffer, 1, SplitAt(buffer))) = answer.events[k + 1]
               /\ HasRead(answer, arrived, k + 1, next)
               /\ answer.events[k + 1].kind = "done" => Whole(answer, arrived) = 1..k + 1
<1> DEFINE N == Len(answer.events)
           r == Len(buffer)
           U == Units(answer)
           raw == SubSeq(buffer, 1, 4)
<1>1. N \in Nat /\ DOMAIN answer.events = 1..N /\ answer.ends \in {"lf", "crlf"}
      /\ answer.events \in Seq(StreamedEvent)
  BY AnswersAreTyped
<1>2. answer.ends = "lf" /\ r >= 4 /\ SplitAt(buffer) = 4
  BY SplitIsAtFour
<1>3. /\ r = arrived - 4 * k /\ r \in Nat /\ buffer \in Seq(Unit)
      /\ k + 1 \in 1..N /\ buffer[1].of = k + 1 /\ buffer[1].is = "first"
      /\ buffer[2].of = k + 1 /\ buffer[2].is = "second"
      /\ buffer[3].is = "lf" /\ buffer[4].is = "lf"
  <2>1. /\ r = arrived - 4 * k /\ r \in Nat /\ buffer \in Seq(Unit)
        /\ r >= 1 => k + 1 \in 1..N /\ buffer[1].of = k + 1 /\ buffer[1].is = "first"
        /\ r >= 2 => buffer[2].of = k + 1 /\ buffer[2].is = "second"
        /\ r >= 3 => buffer[3].of = k + 1 /\ buffer[3].is = answer.ends
        /\ r >= 4 => buffer[4].of = k + 1 /\ buffer[4].is = answer.ends
    BY RestOfLine
  <2> HIDE DEF r, N
  <2>2. r >= 1 /\ r >= 2 /\ r >= 3
    BY <1>2, <2>1
  <2> QED
    BY <1>2, <2>1, <2>2
<1>4. k \in 0..N /\ arrived \in 4 * k..4 * N /\ buffer = SubSeq(U, 4 * k + 1, arrived)
  BY DEF HasRead
<1>5. U \in Seq(Unit) /\ Len(U) = 4 * N
  BY <1>1, UnitsOfEvent
<1> HIDE DEF U, N
<1>6. k \in Nat /\ arrived \in Nat /\ arrived >= 4 * k + 4 /\ arrived = 4 * k + r
  BY <1>1, <1>2, <1>3, <1>4
<1>7. /\ Len(raw) = 4 /\ DOMAIN raw = 1..4 /\ raw[1] = buffer[1] /\ raw[2] = buffer[2]
      /\ raw[3] = buffer[3] /\ raw[4] = buffer[4]
  <2>1. \A i \in 1..4 : buffer[i] \in Unit
    BY <1>2, <1>3
  <2>2. /\ raw \in Seq(Unit) /\ Len(raw) = 4 - 1 + 1
        /\ \A i \in 1..4 - 1 + 1 : raw[i] = buffer[1 + i - 1]
    BY <2>1, SubSeqProperties
  <2> HIDE DEF raw
  <2> QED
    BY <2>2
<1>8. EventIn(raw) = answer.events[k + 1]
  <2> HIDE DEF raw
  <2>1. \A j \in 3..Len(raw) : raw[j].is \notin {"first", "second"}
    <3>1. \A j \in 3..4 : j = 3 \/ j = 4
      OBVIOUS
    <3> QED
      BY <1>3, <1>7, <3>1
  <2>2. Decoded(raw) = k + 1
    BY <1>3, <1>7, <2>1, DecodedIs
  <2> QED
    BY <1>1, <1>3, <2>2 DEF EventIn
<1>9. SubSeq(buffer, 5, r) = SubSeq(U, 4 * (k + 1) + 1, arrived)
  <2>1. CASE r = 4
    <3>1. SubSeq(buffer, 5, r) = <<>>
      BY <2>1, SubSeqEmpty
    <3>2. 4 * (k + 1) + 1 \in Int /\ arrived \in Int /\ arrived < 4 * (k + 1) + 1
      BY <1>6, <2>1
    <3> QED
      BY <3>1, <3>2, SubSeqEmpty
  <2>2. CASE r # 4
    <3> DEFINE i == 4 * k + 1
               len == arrived - i + 1
    <3>1. /\ i \in 1..Len(U) /\ arrived \in 1..Len(U) /\ 5 \in 1..len /\ r \in 1..len
          /\ i + 5 - 1 = 4 * (k + 1) + 1 /\ i + r - 1 = arrived
      BY <1>1, <1>2, <1>3, <1>4, <1>5, <1>6, <2>2
    <3> HIDE DEF i, r
    <3>2. SubSeq(SubSeq(U, i, arrived), 5, r) = SubSeq(U, i + 5 - 1, i + r - 1)
      BY <1>5, <3>1, SubSeqOfSubSeq
    <3> QED
      BY <1>4, <3>1, <3>2 DEF i
  <2> QED
    BY <2>1, <2>2
<1>10. HasRead(answer, arrived, k + 1, SubSeq(buffer, 5, r))
  <2>1. k + 1 \in 0..N /\ arrived \in 4 * (k + 1)..4 * N
    BY <1>1, <1>3, <1>4, <1>6
  <2> QED
    BY <1>2, <1>9, <2>1 DEF HasRead, N, U
<1>11. ASSUME answer.events[k + 1].kind = "done" PROVE Whole(answer, arrived) = 1..k + 1
  <2>1. \A i \in 1..k + 1 : arrived >= 4 * i - 2
    BY <1>6
  <2>2. \A i \in 1..(k + 1) - 1 : answer.events[i].kind # "done"
    BY <1>6 DEF Undone
  <2>3. k + 1 \in 0..N /\ k + 1 # 0
    BY <1>3
  <2> QED
    BY <1>2, <1>6, <1>11, <2>1, <2>2, <2>3, WholeIs DEF N
<1> QED
  BY <1>2, <1>3, <1>8, <1>10, <1>11 DEF N

LEMMA MoreRead ==
    ASSUME NEW sent \in Streamed, NEW n, NEW k, NEW buf, HasRead(sent, n, k, buf),
           NEW m \in Nat, n + m <= Len(Units(sent))
    PROVE  HasRead(sent, n + m, k, buf \o SubSeq(Units(sent), n + 1, n + m))
<1> DEFINE N == Len(sent.events)
           U == Units(sent)
<1>1. N \in Nat /\ sent.events \in Seq(StreamedEvent) /\ sent.ends \in {"lf", "crlf"}
  BY AnswersAreTyped
<1>2. U \in Seq(Unit) /\ Len(U) = 4 * N
  BY <1>1, UnitsOfEvent
<1>3. k \in 0..N /\ n \in 4 * k..4 * N /\ buf = SubSeq(U, 4 * k + 1, n)
  BY DEF HasRead
<1>4. n + m <= Len(U)
  OBVIOUS
<1> HIDE DEF N, U
<1>5. 4 * k + 1 \in 1..Len(U) + 1 /\ n \in (4 * k + 1) - 1..Len(U) /\ n + m \in n..Len(U)
  BY <1>1, <1>2, <1>3, <1>4
<1>6. SubSeq(U, 4 * k + 1, n) \o SubSeq(U, n + 1, n + m) = SubSeq(U, 4 * k + 1, n + m)
  BY <1>2, <1>5, ConcatAdjacentSubSeq
<1>7. n + m \in 4 * k..4 * N
  BY <1>1, <1>2, <1>3, <1>4
<1> QED
  BY <1>3, <1>6, <1>7 DEF HasRead, N, U

LEMMA TextsArePrefixes ==
    ASSUME NEW events \in Seq(StreamedEvent), NEW m \in 0..Len(events), NEW n \in m..Len(events)
    PROVE  IsPrefix(TextsSent(events)[m], TextsSent(events)[n])
<1> DEFINE t == TextsSent(events)
           N == Len(events)
           d == n - m
           T == {k \in 0..d : /\ Len(t[m]) <= Len(t[m + k])
                              /\ \A j \in 1..Len(t[m]) : t[m + k][j] = t[m][j]}
<1>1. /\ t \in [0..N -> Seq(Fragments)]
      /\ \A k \in 1..N : t[k] = IF events[k].kind = "delta" /\ events[k].text # ""
                               THEN Append(t[k - 1], events[k].text) ELSE t[k - 1]
  BY TextsByEvent
<1>2. N \in Nat
  OBVIOUS
<1> HIDE DEF t, N
<1>3. m \in 0..N /\ n \in m..N
  BY DEF N
<1>4. d \in Nat /\ \A k \in 0..d : m + k \in 0..N
  BY <1>2, <1>3
<1>5. t[m] \in Seq(Fragments) /\ t[n] \in Seq(Fragments) /\ m + 0 = m /\ m + d = n
  <2>1. m \in 0..N /\ n \in 0..N /\ m \in Int /\ n \in Int
    BY <1>2, <1>3
  <2>2. m + 0 = m /\ m + d = n
    BY <2>1
  <2> QED
    BY <1>1, <2>1, <2>2
<1>6. 0 \in T
  <2>1. 0 \in 0..d /\ Len(t[m]) <= Len(t[m])
    BY <1>4, <1>5
  <2> QED
    BY <1>5, <2>1
<1>7. ASSUME NEW k \in 0..d - 1, k \in T PROVE k + 1 \in T
  <2>1. /\ k \in 0..d /\ k + 1 \in 0..d /\ m + k \in 0..N /\ m + k + 1 \in 1..N
        /\ (m + k + 1) - 1 = m + k /\ m + (k + 1) = m + k + 1
    BY <1>2, <1>3, <1>4
  <2> DEFINE before == t[m + k]
             after == t[m + k + 1]
             more == events[m + k + 1].text
  <2>2. after = before \/ after = Append(before, more)
    BY <1>1, <2>1
  <2>3. Len(t[m]) <= Len(before) /\ \A j \in 1..Len(t[m]) : before[j] = t[m][j]
    BY <1>7
  <2>4. before \in Seq(Fragments)
    BY <1>1, <2>1
  <2> HIDE DEF before, more
  <2>5. Len(t[m]) <= Len(after) /\ \A j \in 1..Len(t[m]) : after[j] = t[m][j]
    <3>1. CASE after = before
      BY <2>3, <3>1
    <3>2. CASE after = Append(before, more)
      <4>1. Len(Append(before, more)) = Len(before) + 1
            /\ \A j \in 1..Len(before) : Append(before, more)[j] = before[j]
        BY <2>4
      <4>2. \A j \in 1..Len(t[m]) : j \in 1..Len(before)
        BY <1>5, <2>3, <2>4
      <4> HIDE DEF after
      <4>3. Len(t[m]) \in Nat /\ Len(before) \in Nat
        BY <1>5, <2>4
      <4> QED
        BY <2>3, <3>2, <4>1, <4>2, <4>3
    <3> QED
      BY <2>2, <3>1, <3>2
  <2> QED
    BY <2>1, <2>5 DEF after
<1>8. d \in T
  <2>1. d \in 0..d
    BY <1>4
  <2> HIDE DEF T, d
  <2> QED
    BY <1>4, <1>6, <1>7, <2>1, UpTo
<1>9. Len(t[m]) <= Len(t[n]) /\ \A j \in 1..Len(t[m]) : t[n][j] = t[m][j]
  BY <1>5, <1>8
<1>10. SubSeq(t[m], 1, Len(t[m])) = SubSeq(t[n], 1, Len(t[m]))
  BY <1>5, <1>9
<1> QED
  BY <1>9, <1>10 DEF IsPrefix, t

LEMMA CountIs ==
    ASSUME NEW m \in Nat
    PROVE  Max((1..m) \union {0}) = m
<1>1. m \in (1..m) \union {0} /\ \A y \in (1..m) \union {0} : m >= y
  OBVIOUS
<1>2. \A x \in (1..m) \union {0} : (\A y \in (1..m) \union {0} : x >= y) <=> x = m
  BY <1>1
<1> QED
  BY <1>1, <1>2 DEF Max

\* At least the events that have been read count.
LEMMA CountIsPast ==
    ASSUME NEW sent \in Streamed, NEW n, NEW k, NEW buf, HasRead(sent, n, k, buf), Undone(sent, k)
    PROVE  Max(Whole(sent, n) \union {0}) \in k..Len(sent.events)
<1> DEFINE N == Len(sent.events)
           W == Whole(sent, n) \union {0}
           came == {i \in DOMAIN sent.events : n >= 4 * i - 2}
           stop == {i \in came : sent.events[i].kind = "done"}
<1>1. N \in Nat /\ DOMAIN sent.events = 1..N
  BY AnswersAreTyped
<1>2. k \in 0..N /\ n \in 4 * k..4 * N /\ (sent.ends # "lf" => k = 0)
  BY DEF HasRead
<1>3. Whole(sent, n) = IF sent.ends = "lf" THEN {i \in came : \A c \in stop : i <= c}
                       ELSE {i \in came : n <= 4}
  BY DEF Whole
<1> HIDE DEF N
<1>4. came \subseteq 1..N
  BY <1>1
<1>5. W \subseteq 0..N /\ W # {}
  <2> HIDE DEF came, stop
  <2>1. Whole(sent, n) \subseteq came
    BY <1>3
  <2>2. 1..N \subseteq 0..N /\ 0 \in 0..N
    BY <1>1
  <2> QED
    BY <1>4, <2>1, <2>2
<1>6. k \in W
  <2>1. CASE k = 0
    BY <2>1
  <2>2. CASE k # 0
    <3>1. sent.ends = "lf" /\ k \in 1..N /\ k \in Nat
      BY <1>1, <1>2, <2>2
    <3>2. k \in came
      BY <1>1, <1>2, <3>1
    <3>3. ASSUME NEW c \in stop PROVE k <= c
      <4>1. c \in 1..N /\ c \notin 1..k
        BY <1>1 DEF Undone
      <4> QED
        BY <1>1, <3>1, <4>1
    <3> HIDE DEF came, stop
    <3> QED
      BY <1>3, <3>1, <3>2, <3>3
  <2> QED
    BY <2>1, <2>2
<1> HIDE DEF W
<1>7. PICK x \in W : \A y \in W : y <= x
  BY <1>1, <1>5, BoundedNatSetHasMaximum
<1>8. Max(W) \in W /\ \A y \in W : Max(W) >= y
  <2>1. \A y \in W : x >= y
    BY <1>1, <1>5, <1>7
  <2> QED
    BY <2>1 DEF Max
<1>9. Max(W) \in k..N
  <2>1. Max(W) \in 0..N /\ Max(W) >= k
    BY <1>5, <1>6, <1>8
  <2> DEFINE most == Max(W)
  <2> HIDE DEF most
  <2>2. most \in 0..N /\ most >= k
    BY <2>1 DEF most
  <2>3. most \in k..N
    BY <1>1, <1>2, <2>2
  <2> QED
    BY <2>3 DEF most
<1> QED
  BY <1>9 DEF W, N

-------------------------------------------------------------------------------
(* The message.                                                             *)

\* The texts and calls of the first k events.
Built(events, k, texts, calls) ==
    /\ texts = TextsSent(events)[k]
    /\ calls \in Tools /\ DOMAIN calls = Called(events, k)
    /\ \A i : SoFar(calls, i) = Arguments(i, events)[k]

TextsWith(texts, e) == IF e.kind = "delta" /\ e.text # "" THEN Append(texts, e.text) ELSE texts
CallsWith(calls, e) == IF e.kind = "delta" THEN FoldLeft(Accumulate, calls, e.calls) ELSE calls

LEMMA BuiltMore ==
    ASSUME NEW events \in Seq(StreamedEvent), NEW k \in Nat, k + 1 \in 1..Len(events),
           NEW texts, NEW calls, Built(events, k, texts, calls)
    PROVE  Built(events, k + 1, TextsWith(texts, events[k + 1]), CallsWith(calls, events[k + 1]))
<1> DEFINE e == events[k + 1]
           all == CallsWith(calls, e)
<1>1. e \in StreamedEvent /\ (k + 1) - 1 = k
  OBVIOUS
<1>2. /\ texts = TextsSent(events)[k] /\ calls \in Tools /\ DOMAIN calls = Called(events, k)
      /\ \A i : SoFar(calls, i) = Arguments(i, events)[k]
  BY DEF Built
<1>3. TextsWith(texts, e) = TextsSent(events)[k + 1]
  <2>1. TextsSent(events)[k + 1]
          = IF events[k + 1].kind = "delta" /\ events[k + 1].text # ""
            THEN Append(TextsSent(events)[(k + 1) - 1], events[k + 1].text)
            ELSE TextsSent(events)[(k + 1) - 1]
    BY TextsByEvent
  <2> QED
    BY <1>1, <1>2, <2>1 DEF TextsWith
<1>4. Called(events, k + 1) = Called(events, k) \union {p.index : p \in Range(Pieces(e))}
  <2>1. 1..k + 1 = (1..k) \union {k + 1}
    OBVIOUS
  <2> QED
    BY <2>1 DEF Called
<1> HIDE DEF e
<1>5. /\ all \in Tools
      /\ DOMAIN all = DOMAIN calls \union {p.index : p \in Range(Pieces(e))}
      /\ \A i : SoFar(all, i) = SoFar(calls, i) \o OwnIn(i, e)
  <2>1. CASE e.kind = "delta"
    <3>1. all = FoldLeft(Accumulate, calls, e.calls)
      BY <2>1 DEF CallsWith
    <3> HIDE DEF all
    <3> QED
      BY <1>1, <1>2, <2>1, <3>1, EventAccumulated
  <2>2. CASE e.kind # "delta"
    <3>1. Pieces(e) = <<>> /\ all = calls
      BY <2>2 DEF Pieces, CallsWith
    <3>2. {p.index : p \in Range(<<>>)} = {}
      BY DEF Range
    <3>3. ASSUME NEW i PROVE SoFar(calls, i) = SoFar(calls, i) \o OwnIn(i, e)
      <4>1. OwnIn(i, e) = <<>>
        <5>1. <<>> \in Seq(CallPiece) /\ Len(<<>>) = 0
          OBVIOUS
        <5>2. Own(i, <<>>)[0] = <<>>
          BY <5>1, OwnByPiece
        <5> QED
          BY <3>1, <5>1, <5>2 DEF OwnIn
      <4>2. SoFar(calls, i) \in Seq(Fragments)
        BY <1>2, ToolsAreTyped
      <4>3. SoFar(calls, i) \o <<>> = SoFar(calls, i)
        BY <4>2, ConcatEmptySeq
      <4> QED
        BY <4>1, <4>3
    <3> HIDE DEF all
    <3>4. \A i : SoFar(all, i) = SoFar(calls, i) \o OwnIn(i, e)
      BY <3>1, <3>3
    <3>5. DOMAIN all = DOMAIN calls \union {p.index : p \in Range(Pieces(e))}
      BY <3>1, <3>2
    <3> QED
      BY <1>2, <3>1, <3>4, <3>5
  <2> QED
    BY <2>1, <2>2
<1>6. ASSUME NEW i PROVE SoFar(all, i) = Arguments(i, events)[k + 1]
  <2>1. Arguments(i, events)[k + 1] = Arguments(i, events)[(k + 1) - 1] \o OwnIn(i, events[k + 1])
    BY ArgumentsByEvent
  <2> HIDE DEF all
  <2> QED
    BY <1>1, <1>2, <1>5, <2>1 DEF e
<1> HIDE DEF all
<1>7. DOMAIN all = Called(events, k + 1)
  BY <1>2, <1>4, <1>5
<1>8. Built(events, k + 1, TextsWith(texts, e), all)
  BY <1>3, <1>5, <1>6, <1>7 DEF Built
<1> QED
  BY <1>8 DEF e, all

\* MessageIsTheStream, of n units, an outcome, a message and the texts passed on.
IsTheStream(sent, n, out, made, seen) ==
    LET whole == Whole(sent, n)
        count == Max(whole \union {0})
        texts == TextsSent(sent.events)[count]
        called == Called(sent.events, count)
    IN  /\ out = "message" =>
              /\ made.content = texts /\ seen = texts
              /\ Len(made.toolCalls) = Cardinality(called)
              /\ \A i \in called :
                    made.toolCalls[Cardinality({j \in called : j <= i})].input
                      = Arguments(i, sent.events)[count]
              /\ \A i \in whole : sent.events[i].kind # "error"
        /\ out # "message" => made = Nil
        /\ IsPrefix(seen, texts)

\* Without a message, the texts that were passed on are the first ones.
LEMMA StillQuiet ==
    ASSUME NEW sent \in Streamed, NEW n, NEW k, NEW buf, HasRead(sent, n, k, buf), Undone(sent, k),
           NEW out, out # "message"
    PROVE  IsTheStream(sent, n, out, Nil, TextsSent(sent.events)[k])
<1> DEFINE count == Max(Whole(sent, n) \union {0})
<1>1. sent.events \in Seq(StreamedEvent) /\ Len(sent.events) \in Nat
  BY AnswersAreTyped
<1>2. count \in k..Len(sent.events)
  BY CountIsPast
<1>3. k \in 0..Len(sent.events)
  BY DEF HasRead
<1> HIDE DEF count
<1>4. IsPrefix(TextsSent(sent.events)[k], TextsSent(sent.events)[count])
  BY <1>1, <1>2, <1>3, TextsArePrefixes
<1> QED
  BY <1>4 DEF IsTheStream, count

\* What has been built of the events that count is the message.
LEMMA Spoken ==
    ASSUME NEW sent \in Streamed, NEW n, NEW m \in 0..Len(sent.events), Whole(sent, n) = 1..m,
           \A i \in 1..m : sent.events[i].kind # "error",
           NEW texts, NEW calls, Built(sent.events, m, texts, calls)
    PROVE  IsTheStream(sent, n, "message", MakeMessage(texts, calls), texts)
<1> DEFINE made == MakeMessage(texts, calls)
           called == Called(sent.events, m)
<1>1. sent.events \in Seq(StreamedEvent) /\ Len(sent.events) \in Nat /\ m \in Nat
  BY AnswersAreTyped
<1>2. Max((1..m) \union {0}) = m
  BY <1>1, CountIs
<1>3. /\ texts = TextsSent(sent.events)[m] /\ calls \in Tools /\ DOMAIN calls = called
      /\ \A i : SoFar(calls, i) = Arguments(i, sent.events)[m]
  BY DEF Built
<1> HIDE DEF called
<1>4. /\ made.content = texts /\ Len(made.toolCalls) = Cardinality(called)
      /\ \A i \in called : made.toolCalls[Cardinality({j \in called : j <= i})].input
                             = SoFar(calls, i)
  <2>1. /\ made.content = texts /\ Len(made.toolCalls) = Cardinality(DOMAIN calls)
        /\ \A i \in DOMAIN calls :
              made.toolCalls[Cardinality({j \in DOMAIN calls : j <= i})].input = SoFar(calls, i)
    BY <1>3, MessageByRank
  <2> HIDE DEF made
  <2> QED
    BY <1>3, <2>1
<1> HIDE DEF made
<1>5. IsPrefix(texts, TextsSent(sent.events)[m])
  <2>1. m \in m..Len(sent.events)
    BY <1>1
  <2>2. IsPrefix(TextsSent(sent.events)[m], TextsSent(sent.events)[m])
    BY <1>1, <2>1, TextsArePrefixes
  <2> QED
    BY <1>3, <2>2
<1>6. \A i \in called : made.toolCalls[Cardinality({j \in called : j <= i})].input
                          = Arguments(i, sent.events)[m]
  BY <1>3, <1>4
<1> QED
  BY <1>2, <1>3, <1>4, <1>5, <1>6 DEF IsTheStream, made, called

-------------------------------------------------------------------------------
\* While the stream is read, what there is says what the events so far say.
Heard ==
    \E k \in 0..Len(answer.events) :
        /\ HasRead(answer, arrived, k, buffer) /\ Undone(answer, k)
        /\ Built(answer.events, k, content, tools) /\ deltas = content
StreamInv ==
    /\ answer \in Streamed
    /\ outcome = "none" => Heard
    /\ MessageIsTheStream

LEMMA TheStream == MessageIsTheStream <=> IsTheStream(answer, arrived, outcome, message, deltas)
  BY DEF MessageIsTheStream, IsTheStream

LEMMA StreamStarts == StreamInit => StreamInv
<1> SUFFICES ASSUME StreamInit PROVE StreamInv
  OBVIOUS
<1>1. /\ answer \in Streamed /\ arrived = 0 /\ buffer = <<>> /\ content = <<>> /\ tools = NoTools
      /\ deltas = <<>> /\ outcome = "none" /\ message = Nil
  BY DEF StreamInit
<1>2. answer.events \in Seq(StreamedEvent) /\ Len(answer.events) \in Nat
  BY <1>1, AnswersAreTyped
<1>3. HasRead(answer, 0, 0, <<>>)
  <2>1. SubSeq(Units(answer), 4 * 0 + 1, 0) = <<>>
    BY SubSeqEmpty
  <2> QED
    BY <1>2, <2>1 DEF HasRead
<1>4. Undone(answer, 0)
  BY DEF Undone
<1>5. TextsSent(answer.events)[0] = <<>> /\ \A i : Arguments(i, answer.events)[0] = <<>>
  BY <1>2, TextsByEvent, ArgumentsByEvent
<1>6. Built(answer.events, 0, <<>>, NoTools)
  <2>1. {} \in Indices
    BY FS_EmptySet DEF Indices
  <2>2. NoTools \in [{} -> ToolItem] /\ DOMAIN NoTools = {}
    BY DEF NoTools
  <2>3. NoTools \in Tools
    BY <2>1, <2>2 DEF Tools
  <2>4. Called(answer.events, 0) = {}
    BY DEF Called
  <2>5. \A i : SoFar(NoTools, i) = <<>>
    BY <2>2 DEF SoFar
  <2> QED
    BY <1>5, <2>2, <2>3, <2>4, <2>5 DEF Built
<1>7. IsTheStream(answer, 0, "none", Nil, <<>>)
  BY <1>1, <1>3, <1>4, <1>5, StillQuiet
<1>8. MessageIsTheStream
  BY <1>1, <1>7, TheStream
<1>9. 0 \in 0..Len(answer.events)
  BY <1>2
<1> QED
  BY <1>1, <1>3, <1>4, <1>6, <1>8, <1>9 DEF StreamInv, Heard

\* A text is handled, or it cannot be logged; the other events are as they are.
LEMMA HandlesEvent ==
    ASSUME NEW e \in StreamedEvent, Handle(e)
    PROVE  \/ /\ e.kind \notin {"done", "error"}
              /\ content' = TextsWith(content, e) /\ tools' = CallsWith(tools, e)
              /\ outcome' = outcome /\ message' = message
              /\ deltas' = content' \/ UNCHANGED <<deltas, content>>
           \/ outcome' = "error" /\ message' = message /\ deltas' = deltas
           \/ /\ e.kind = "done" /\ outcome' = "message" /\ message' = MakeMessage(content, tools)
              /\ UNCHANGED <<content, tools, deltas>>
<1>1. e.kind \in {"delta", "usage", "junk", "error", "done"}
  BY DeltaEvent
<1>2. CASE e.kind = "delta"
  <2>1. /\ content' = IF e.text = "" THEN content ELSE Append(content, e.text)
        /\ \/ deltas' = content' /\ tools' = FoldLeft(Accumulate, tools, e.calls) /\ outcome' = outcome
           \/ outcome' = "error" /\ deltas' = deltas /\ tools' = tools
        /\ message' = message
    BY <1>2 DEF Handle
  <2>2. content' = TextsWith(content, e)
    BY <1>2, <2>1 DEF TextsWith
  <2>3. CallsWith(tools, e) = FoldLeft(Accumulate, tools, e.calls)
    BY <1>2 DEF CallsWith
  <2>4. CASE deltas' = content' /\ tools' = FoldLeft(Accumulate, tools, e.calls) /\ outcome' = outcome
    <3>1. tools' = CallsWith(tools, e)
      BY <2>3, <2>4
    <3>2. e.kind \notin {"done", "error"}
      BY <1>2
    <3> QED
      BY <2>1, <2>2, <2>4, <3>1, <3>2
  <2>5. CASE outcome' = "error" /\ deltas' = deltas /\ tools' = tools
    BY <2>1, <2>5
  <2> QED
    BY <2>1, <2>4, <2>5
<1>3. CASE e.kind = "usage"
  <2>1. UNCHANGED <<content, tools, deltas, outcome, message>>
    BY <1>3 DEF Handle
  <2>2. TextsWith(content, e) = content /\ CallsWith(tools, e) = tools
    BY <1>3 DEF TextsWith, CallsWith
  <2> QED
    BY <1>3, <2>1, <2>2
<1>4. CASE e.kind = "junk"
  <2>1. UNCHANGED <<content, tools, deltas, outcome, message>>
    BY <1>4 DEF Handle
  <2>2. TextsWith(content, e) = content /\ CallsWith(tools, e) = tools
    BY <1>4 DEF TextsWith, CallsWith
  <2> QED
    BY <1>4, <2>1, <2>2
<1>5. CASE e.kind = "error"
  BY <1>5 DEF Handle
<1>6. CASE e.kind = "done"
  BY <1>6 DEF Handle, Assemble
<1> QED
  BY <1>1, <1>2, <1>3, <1>4, <1>5, <1>6

\* What a request that is read knows.
LEMMA HeardFacts ==
    ASSUME StreamInv, outcome = "none"
    PROVE  /\ answer \in Streamed /\ message = Nil
           /\ answer.events \in Seq(StreamedEvent) /\ Len(answer.events) \in Nat
           /\ \E k \in 0..Len(answer.events) :
                 /\ HasRead(answer, arrived, k, buffer) /\ Undone(answer, k)
                 /\ Built(answer.events, k, content, tools) /\ deltas = content
                 /\ deltas = TextsSent(answer.events)[k]
<1>1. answer \in Streamed /\ Heard /\ MessageIsTheStream
  BY DEF StreamInv
<1>2. message = Nil
  BY <1>1 DEF MessageIsTheStream
<1>3. answer.events \in Seq(StreamedEvent) /\ Len(answer.events) \in Nat
  BY <1>1, AnswersAreTyped
<1>4. PICK k \in 0..Len(answer.events) :
         /\ HasRead(answer, arrived, k, buffer) /\ Undone(answer, k)
         /\ Built(answer.events, k, content, tools) /\ deltas = content
  BY <1>1 DEF Heard
<1>5. deltas = TextsSent(answer.events)[k]
  BY <1>4 DEF Built
<1> QED
  BY <1>1, <1>2, <1>3, <1>4, <1>5

LEMMA ReceiveKeeps == StreamInv /\ Receive => StreamInv'
<1> SUFFICES ASSUME StreamInv, Receive PROVE StreamInv'
  OBVIOUS
<1>1. outcome = "none"
  BY DEF Receive, Streaming
<1>2. /\ answer \in Streamed /\ message = Nil
      /\ answer.events \in Seq(StreamedEvent) /\ Len(answer.events) \in Nat
  BY <1>1, HeardFacts
<1>3. PICK k \in 0..Len(answer.events) :
         /\ HasRead(answer, arrived, k, buffer) /\ Undone(answer, k)
         /\ Built(answer.events, k, content, tools) /\ deltas = content
         /\ deltas = TextsSent(answer.events)[k]
  BY <1>1, HeardFacts
<1>4. PICK n \in 1..MaxPiece :
         /\ arrived + n <= Len(Units(answer)) /\ arrived' = arrived + n
         /\ buffer' = buffer \o SubSeq(Units(answer), arrived + 1, arrived + n)
  BY DEF Receive
<1>5. UNCHANGED <<answer, content, tools, deltas, outcome, message>>
  BY DEF Receive
<1>6. n \in Nat
  BY StreamAssumption
<1>7. HasRead(answer, arrived + n, k, buffer \o SubSeq(Units(answer), arrived + 1, arrived + n))
  BY <1>2, <1>3, <1>4, <1>6, MoreRead
<1>8. HasRead(answer, arrived', k, buffer')
  BY <1>4, <1>7
<1>9. IsTheStream(answer, arrived', outcome, Nil, TextsSent(answer.events)[k])
  BY <1>1, <1>2, <1>3, <1>8, StillQuiet
<1>10. MessageIsTheStream'
  BY <1>2, <1>3, <1>5, <1>9 DEF MessageIsTheStream, IsTheStream
<1>11. Heard'
  BY <1>3, <1>5, <1>8 DEF Heard
<1> QED
  BY <1>2, <1>5, <1>10, <1>11 DEF StreamInv

LEMMA TakeEventKeeps == StreamInv /\ TakeEvent => StreamInv'
<1> SUFFICES ASSUME StreamInv, TakeEvent PROVE StreamInv'
  OBVIOUS
<1> DEFINE next == SubSeq(buffer, SplitAt(buffer) + 1, Len(buffer))
           raw == SubSeq(buffer, 1, SplitAt(buffer))
           e == EventIn(raw)
<1>1. /\ outcome = "none" /\ SplitAt(buffer) # 0 /\ buffer' = next /\ Handle(e)
      /\ answer' = answer /\ arrived' = arrived
  BY DEF TakeEvent, Streaming
<1>2. /\ answer \in Streamed /\ message = Nil
      /\ answer.events \in Seq(StreamedEvent) /\ Len(answer.events) \in Nat
  BY <1>1, HeardFacts
<1>3. PICK k \in 0..Len(answer.events) :
         /\ HasRead(answer, arrived, k, buffer) /\ Undone(answer, k)
         /\ Built(answer.events, k, content, tools) /\ deltas = content
         /\ deltas = TextsSent(answer.events)[k]
  BY <1>1, HeardFacts
<1>4. /\ k + 1 \in 1..Len(answer.events) /\ e = answer.events[k + 1]
      /\ HasRead(answer, arrived, k + 1, next)
      /\ e.kind = "done" => Whole(answer, arrived) = 1..k + 1
  BY <1>1, <1>2, <1>3, NextPiece
<1> HIDE DEF e, next, raw
<1>5. e \in StreamedEvent /\ k \in Nat /\ k + 1 \in 0..Len(answer.events)
  BY <1>2, <1>3, <1>4
<1>6. Built(answer.events, k + 1, TextsWith(content, e), CallsWith(tools, e))
  BY <1>2, <1>3, <1>4, <1>5, BuiltMore
<1>7. CASE /\ e.kind \notin {"done", "error"}
           /\ content' = TextsWith(content, e) /\ tools' = CallsWith(tools, e)
           /\ outcome' = outcome /\ message' = message
           /\ deltas' = content' \/ UNCHANGED <<deltas, content>>
  <2>1. Undone(answer, k + 1)
    <3>1. \A i \in 1..k + 1 : i \in 1..k \/ i = k + 1
      BY <1>5
    <3> QED
      BY <1>3, <1>4, <1>7, <3>1 DEF Undone
  <2>2. deltas' = content'
    BY <1>3, <1>7
  <2>3. Built(answer.events, k + 1, content', tools')
    BY <1>6, <1>7
  <2>4. HasRead(answer, arrived, k + 1, buffer')
    BY <1>1, <1>4
  <2>5. Heard'
    BY <1>1, <1>5, <2>1, <2>2, <2>3, <2>4 DEF Heard
  <2>6. content' = TextsSent(answer.events)[k + 1]
    BY <2>3 DEF Built
  <2>7. IsTheStream(answer, arrived, outcome, Nil, TextsSent(answer.events)[k + 1])
    BY <1>1, <1>2, <2>1, <2>4, StillQuiet
  <2>8. MessageIsTheStream'
    BY <1>1, <1>2, <1>7, <2>2, <2>6, <2>7 DEF MessageIsTheStream, IsTheStream
  <2> QED
    BY <1>1, <1>2, <2>5, <2>8 DEF StreamInv
<1>8. CASE outcome' = "error" /\ message' = message /\ deltas' = deltas
  <2>1. IsTheStream(answer, arrived, "error", Nil, TextsSent(answer.events)[k])
    BY <1>2, <1>3, StillQuiet
  <2>2. MessageIsTheStream'
    BY <1>1, <1>2, <1>3, <1>8, <2>1 DEF MessageIsTheStream, IsTheStream
  <2> QED
    BY <1>1, <1>2, <1>8, <2>2 DEF StreamInv
<1>9. CASE /\ e.kind = "done" /\ outcome' = "message" /\ message' = MakeMessage(content, tools)
           /\ UNCHANGED <<content, tools, deltas>>
  <2>1. Built(answer.events, k + 1, content, tools)
    <3>1. TextsWith(content, e) = content /\ CallsWith(tools, e) = tools
      BY <1>9 DEF TextsWith, CallsWith
    <3> QED
      BY <1>6, <3>1
  <2>2. \A i \in 1..k + 1 : answer.events[i].kind # "error"
    <3>1. \A i \in 1..k + 1 : i \in 1..k \/ i = k + 1
      BY <1>5
    <3> QED
      BY <1>3, <1>4, <1>9, <3>1 DEF Undone
  <2>3. IsTheStream(answer, arrived, "message", MakeMessage(content, tools), content)
    BY <1>2, <1>4, <1>5, <1>9, <2>1, <2>2, Spoken
  <2>4. MessageIsTheStream'
    BY <1>1, <1>3, <1>9, <2>3 DEF MessageIsTheStream, IsTheStream
  <2> QED
    BY <1>1, <1>2, <1>9, <2>4 DEF StreamInv
<1> QED
  BY <1>1, <1>5, <1>7, <1>8, <1>9, HandlesEvent

LEMMA EndOfStreamKeeps == StreamInv /\ EndOfStream => StreamInv'
<1> SUFFICES ASSUME StreamInv, EndOfStream PROVE StreamInv'
  OBVIOUS
<1> DEFINE e == EventIn(buffer)
           texts == IF e.kind = "delta" /\ e.text # "" THEN Append(content, e.text) ELSE content
           calls == IF e.kind = "delta" THEN FoldLeft(Accumulate, tools, e.calls) ELSE tools
<1>1. /\ outcome = "none" /\ SplitAt(buffer) = 0 /\ answer' = answer /\ arrived' = arrived
      /\ \/ outcome' = "error" /\ UNCHANGED <<deltas, message>>
         \/ /\ e.kind # "error" /\ content' = texts /\ tools' = calls /\ deltas' = texts
            /\ outcome' = "message" /\ message' = MakeMessage(texts, calls)
  BY DEF EndOfStream, Streaming, Assemble
<1>2. texts = TextsWith(content, e) /\ calls = CallsWith(tools, e)
  BY DEF TextsWith, CallsWith
<1> HIDE DEF e, texts, calls
<1>3. /\ answer \in Streamed /\ message = Nil
      /\ answer.events \in Seq(StreamedEvent) /\ Len(answer.events) \in Nat
  BY <1>1, HeardFacts
<1>4. PICK k \in 0..Len(answer.events) :
         /\ HasRead(answer, arrived, k, buffer) /\ Undone(answer, k)
         /\ Built(answer.events, k, content, tools) /\ deltas = content
         /\ deltas = TextsSent(answer.events)[k]
  BY <1>1, HeardFacts
<1>5. CASE outcome' = "error" /\ UNCHANGED <<deltas, message>>
  <2>1. IsTheStream(answer, arrived, "error", Nil, TextsSent(answer.events)[k])
    BY <1>3, <1>4, StillQuiet
  <2>2. MessageIsTheStream'
    BY <1>1, <1>3, <1>4, <1>5, <2>1 DEF MessageIsTheStream, IsTheStream
  <2> QED
    BY <1>1, <1>3, <1>5, <2>2 DEF StreamInv
<1>6. CASE /\ e.kind # "error" /\ content' = texts /\ tools' = calls /\ deltas' = texts
           /\ outcome' = "message" /\ message' = MakeMessage(texts, calls)
  <2>1. \E m \in 0..Len(answer.events) :
           /\ Whole(answer, arrived) = 1..m /\ Built(answer.events, m, texts, calls)
           /\ \A i \in 1..m : answer.events[i].kind # "error"
    <3>1. \/ Whole(answer, arrived) = 1..k /\ e = [kind |-> "junk"]
          \/ /\ k + 1 \in 1..Len(answer.events) /\ Whole(answer, arrived) = 1..k + 1
             /\ e = answer.events[k + 1]
      BY <1>1, <1>3, <1>4, LastPiece DEF e
    <3>2. CASE Whole(answer, arrived) = 1..k /\ e = [kind |-> "junk"]
      <4>1. texts = content /\ calls = tools
        BY <1>2, <3>2 DEF TextsWith, CallsWith
      <4>2. \A i \in 1..k : answer.events[i].kind # "error"
        BY <1>4 DEF Undone
      <4> QED
        BY <1>4, <3>2, <4>1, <4>2
    <3>3. CASE /\ k + 1 \in 1..Len(answer.events) /\ Whole(answer, arrived) = 1..k + 1
               /\ e = answer.events[k + 1]
      <4>1. k \in Nat /\ k + 1 \in 0..Len(answer.events)
        BY <1>3, <1>4, <3>3
      <4>2. Built(answer.events, k + 1, texts, calls)
        BY <1>2, <1>3, <1>4, <3>3, <4>1, BuiltMore
      <4>3. \A i \in 1..k + 1 : answer.events[i].kind # "error"
        <5>1. \A i \in 1..k + 1 : i \in 1..k \/ i = k + 1
          BY <4>1
        <5> QED
          BY <1>4, <1>6, <3>3, <5>1 DEF Undone
      <4> QED
        BY <3>3, <4>1, <4>2, <4>3
    <3> QED
      BY <3>1, <3>2, <3>3
  <2>2. IsTheStream(answer, arrived, "message", MakeMessage(texts, calls), texts)
    BY <1>3, <2>1, Spoken
  <2>3. MessageIsTheStream'
    BY <1>1, <1>6, <2>2 DEF MessageIsTheStream, IsTheStream
  <2> QED
    BY <1>1, <1>3, <1>6, <2>3 DEF StreamInv
<1> QED
  BY <1>1, <1>5, <1>6

\* Whatever ends a request without a message leaves what it was.
LEMMA StopKeeps ==
    ASSUME StreamInv, outcome = "none", outcome' \in {"none", "error", "aborted"},
           UNCHANGED <<answer, arrived, buffer, content, tools, deltas, message>>
    PROVE  StreamInv'
<1>1. answer \in Streamed /\ Heard /\ MessageIsTheStream
  BY DEF StreamInv
<1>2. Heard'
  BY <1>1 DEF Heard
<1>3. MessageIsTheStream'
  <2>1. IsTheStream(answer, arrived, outcome, message, deltas)
    BY <1>1, TheStream
  <2>2. IsTheStream(answer, arrived, outcome', message, deltas)
    BY <2>1 DEF IsTheStream
  <2> QED
    BY <2>2 DEF MessageIsTheStream, IsTheStream
<1> QED
  BY <1>1, <1>2, <1>3 DEF StreamInv

LEMMA StreamKeeps == StreamInv /\ [StreamNext]_streamVars => StreamInv'
<1> SUFFICES ASSUME StreamInv, [StreamNext]_streamVars PROVE StreamInv'
  OBVIOUS
<1>1. CASE Receive
  BY <1>1, ReceiveKeeps
<1>2. CASE TakeEvent
  BY <1>2, TakeEventKeeps
<1>3. CASE EndOfStream
  BY <1>3, EndOfStreamKeeps
<1>4. CASE ReadFails
  BY <1>4, StopKeeps DEF ReadFails, Streaming
<1>5. CASE AbortStep
  BY <1>5, StopKeeps DEF AbortStep, Streaming
<1>6. CASE StepAborts
  BY <1>6, StopKeeps DEF StepAborts
<1>7. CASE UNCHANGED streamVars
  BY <1>7 DEF streamVars, StreamInv, Heard, MessageIsTheStream
<1> QED
  BY <1>1, <1>2, <1>3, <1>4, <1>5, <1>6, <1>7 DEF StreamNext

\* Of a provider's answer, in whatever pieces it is read, the turn gets the message
\* its whole events make: the texts in order, each call's arguments from its own
\* pieces, the calls by index; an error, an abort or a failed log leaves none, and
\* what the turn has shown is the beginning of it (openaiCompatible.ts:39-131,
\* 134-157; executeStep.ts:16-57).
THEOREM SpokenAsSent == StreamSpec => []MessageIsTheStream
<1>1. StreamInv => MessageIsTheStream
  BY DEF StreamInv
<1> QED
  BY <1>1, StreamStarts, StreamKeeps, PTL DEF StreamSpec
=================================================================================
