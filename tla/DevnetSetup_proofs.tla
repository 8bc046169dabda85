-------------------------- MODULE DevnetSetup_proofs --------------------------
(***************************************************************************)
(* Theorems about the set-up script, for any list of vaults, any target    *)
(* and any number of failures and reruns: its types, that the address book *)
(* is true, that no mint is made twice for one worth, and that reruns do   *)
(* not inflate a balance.                                                  *)
(***************************************************************************)
EXTENDS DevnetSetup, FiniteSetTheorems, WellFoundedInduction, TLAPS

-----------------------------------------------------------------------------
(* Sequences of sequences *)

LessThan == {p \in Nat \X Nat : p[1] < p[2]}

\* A set of naturals that is not empty has a least element.
LEMMA LeastOf ==
  ASSUME NEW S, S \subseteq Nat, S # {}
  PROVE  \E x \in S : \A y \in S : x <= y
<1>1. OpToRel(<, Nat) = LessThan BY DEF OpToRel, LessThan
<1>2. IsWellFoundedOn(LessThan, Nat) BY <1>1, NatLessThanWellFounded
<1>3. PICK x \in S : \A y \in S : ~ (<<y, x>> \in LessThan) BY <1>2, WFMin
<1>4. ASSUME NEW y \in S, ~(x <= y) PROVE FALSE
  <2>1. y < x /\ y \in Nat /\ x \in Nat BY <1>4
  <2>2. <<y, x>> \in LessThan BY <2>1 DEF LessThan
  <2>3. QED BY <1>3, <2>2
<1>5. QED BY <1>4

\* The parts of a concatenation are where they should be.
LEMMA ConcatIs ==
  ASSUME NEW S, NEW a \in Seq(S), NEW b \in Seq(S)
  PROVE  /\ a \o b \in Seq(S) /\ Len(a \o b) = Len(a) + Len(b)
         /\ Len(a) \in Nat /\ Len(b) \in Nat
         /\ \A i \in 1..Len(a) : (a \o b)[i] = a[i]
         /\ \A i \in 1..Len(b) : (a \o b)[Len(a) + i] = b[i]
         /\ \A i \in 1..Len(a \o b) :
              i \in 1..Len(a) \/ \E j \in 1..Len(b) : i = Len(a) + j
<1>1. a \o b \in Seq(S) /\ Len(a \o b) = Len(a) + Len(b) /\ Len(a) \in Nat /\ Len(b) \in Nat
  OBVIOUS
<1>2. \A i \in 1..Len(a) : (a \o b)[i] = a[i] OBVIOUS
<1>3. \A i \in 1..Len(b) : (a \o b)[Len(a) + i] = b[i] OBVIOUS
<1>4. ASSUME NEW i \in 1..Len(a \o b), i \notin 1..Len(a)
      PROVE  \E j \in 1..Len(b) : i = Len(a) + j
  <2>1. i - Len(a) \in 1..Len(b) /\ i = Len(a) + (i - Len(a)) BY <1>1, <1>4
  <2>2. QED BY <2>1
<1>5. QED BY <1>1, <1>2, <1>3, <1>4

\* FlattenSeq is defined: the function it recurs on exists.
LEMMA FlattenExists ==
  ASSUME NEW ss, Len(ss) \in Nat \ {0}
  PROVE  \E f : /\ f = [i \in 1..Len(ss) |-> IF i = 1 THEN ss[i] ELSE f[i-1] \o ss[i]]
                /\ FlattenSeq(ss) = f[Len(ss)]
<1> DEFINE Upto(n) == \E f : f = [i \in 1..n |-> IF i = 1 THEN ss[i] ELSE f[i-1] \o ss[i]]
           Bad == {n \in 1..Len(ss) : ~Upto(n)}
<1>1. Bad = {}
  <2> SUFFICES ASSUME Bad # {} PROVE FALSE OBVIOUS
  <2>1. PICK n \in Bad : \A m \in Bad : n <= m
    <3> HIDE DEF Upto
    <3>1. Bad \subseteq 1..Len(ss) OBVIOUS
    <3>2. Bad \subseteq Nat BY <3>1
    <3> HIDE DEF Bad
    <3>3. QED BY <3>2, LeastOf
  <2>2. n \in 1..Len(ss) OBVIOUS
  <2>3. CASE n = 1
    <3> DEFINE f == [i \in 1..1 |-> ss[i]]
    <3>1. f = [i \in 1..1 |-> IF i = 1 THEN ss[i] ELSE f[i-1] \o ss[i]] OBVIOUS
    <3> HIDE DEF f
    <3>2. Upto(1) BY <3>1
    <3>3. QED BY <2>3, <3>2
  <2>4. CASE n # 1
    <3>1. n - 1 \in 1..Len(ss) /\ ~(n <= n - 1) BY <2>2, <2>4
    <3>2. n - 1 \notin Bad BY <2>1, <3>1
    <3>3. Upto(n - 1) BY <3>1, <3>2
    <3>4. PICK f : f = [i \in 1..(n-1) |-> IF i = 1 THEN ss[i] ELSE f[i-1] \o ss[i]]
      BY <3>3
    <3> DEFINE g == [i \in 1..n |-> IF i = n THEN f[n-1] \o ss[n] ELSE f[i]]
    <3>5. ASSUME NEW i \in 1..n
          PROVE  g[i] = IF i = 1 THEN ss[i] ELSE g[i-1] \o ss[i]
      <4>1. CASE i = n
        <5>1. n - 1 \in 1..n /\ n - 1 # n /\ i # 1 BY <2>2, <2>4, <4>1
        <5>2. g[n-1] = f[n-1] BY <5>1
        <5>3. QED BY <4>1, <5>1, <5>2
      <4>2. CASE i # n
        <5>1. i \in 1..(n-1) /\ g[i] = f[i] BY <2>2, <4>2
        <5>2. f[i] = IF i = 1 THEN ss[i] ELSE f[i-1] \o ss[i] BY <3>4, <5>1
        <5>3. i # 1 => i - 1 \in 1..n /\ i - 1 # n BY <2>2, <5>1
        <5>4. i # 1 => g[i-1] = f[i-1] BY <5>3
        <5>5. QED BY <5>1, <5>2, <5>4
      <4>3. QED BY <4>1, <4>2
    <3>6. g = [i \in 1..n |-> g[i]] OBVIOUS
    <3> HIDE DEF g
    <3>7. g = [i \in 1..n |-> IF i = 1 THEN ss[i] ELSE g[i-1] \o ss[i]] BY <3>5, <3>6
    <3>8. Upto(n) BY <3>7
    <3>9. QED BY <3>8
  <2>5. QED BY <2>3, <2>4
<1>2. Upto(Len(ss))
  <2>1. Len(ss) \in 1..Len(ss) OBVIOUS
  <2>2. QED BY <1>1, <2>1
<1> DEFINE g == CHOOSE g : g = [i \in 1..Len(ss) |-> IF i = 1 THEN ss[i] ELSE g[i-1] \o ss[i]]
<1>3. g = [i \in 1..Len(ss) |-> IF i = 1 THEN ss[i] ELSE g[i-1] \o ss[i]] BY <1>2
<1>4. FlattenSeq(ss) = g[Len(ss)] BY DEF FlattenSeq
<1>5. QED BY <1>3, <1>4

\* What concatenation keeps, flattening keeps; and what one part has, the whole has.
LEMMA FlattenIn ==
  ASSUME NEW C, NEW A, NEW ss, Len(ss) \in Nat \ {0}, \A i \in 1..Len(ss) : ss[i] \in C,
         \A a, b \in C : a \o b \in C /\ (a \in A \/ b \in A => a \o b \in A),
         NEW k \in 1..Len(ss), ss[k] \in A
  PROVE  FlattenSeq(ss) \in C \cap A
<1>1. PICK f : /\ f = [i \in 1..Len(ss) |-> IF i = 1 THEN ss[i] ELSE f[i-1] \o ss[i]]
               /\ FlattenSeq(ss) = f[Len(ss)]
  BY FlattenExists
<1> DEFINE Good(i) == f[i] \in C /\ (i >= k => f[i] \in A)
           Bad == {i \in 1..Len(ss) : ~Good(i)}
<1>2. Bad = {}
  <2> SUFFICES ASSUME Bad # {} PROVE FALSE OBVIOUS
  <2>1. PICK n \in Bad : \A m \in Bad : n <= m
    <3>1. Bad \subseteq Nat OBVIOUS
    <3> HIDE DEF Bad
    <3>2. QED BY <3>1, LeastOf
  <2>2. n \in 1..Len(ss) /\ ~Good(n) OBVIOUS
  <2>3. f[n] = IF n = 1 THEN ss[n] ELSE f[n-1] \o ss[n] BY <1>1, <2>2
  <2>4. CASE n = 1 BY <2>2, <2>3, <2>4
  <2>5. CASE n # 1
    <3>1. n - 1 \in 1..Len(ss) /\ ~(n <= n - 1) BY <2>2, <2>5
    <3>2. Good(n - 1) BY <2>1, <3>1
    <3>3. n >= k => n = k \/ n - 1 >= k BY <2>2
    <3>4. f[n] = f[n-1] \o ss[n] /\ f[n-1] \in C /\ ss[n] \in C BY <2>2, <2>3, <2>5, <3>2
    <3>5. QED BY <2>2, <3>2, <3>3, <3>4
  <2>6. QED BY <2>4, <2>5
<1>3. Len(ss) \in 1..Len(ss) /\ Len(ss) >= k OBVIOUS
<1>4. Good(Len(ss)) BY <1>2, <1>3
<1>5. QED BY <1>1, <1>3, <1>4

-----------------------------------------------------------------------------
(* The script's steps: what comes before what *)

LabelOps ==
  {"mint", "verify", "wrapper", "accounts", "wallet", "keeper accounts", "keeper"}

StepsOfLabels == [op : LabelOps, of : Labels]

StepsOfVaults == {[op |-> o, of |-> Vaults[v].symbol] : o \in {"feed", "vault"}, v \in DOMAIN Vaults}

OtherSteps ==
  {[op |-> "feed", of |-> "USDC"], [op |-> "owner", of |-> "USDC"],
   [op |-> "liquidity accounts", of |-> "USDC"], [op |-> "liquidity", of |-> "SOL"],
   [op |-> "save", of |-> "book"]}

StepSet == StepsOfLabels \cup StepsOfVaults \cup OtherSteps

MintStep(l) == [op |-> "mint", of |-> l]

\* Sequences in which what is done for a label comes after its mint, or the label is one
\* of K; a keeper's account comes with its stock; and nothing is saved.
Blocks(K) ==
  {s \in Seq(StepSet) : \A i \in 1..Len(s) :
     /\ s[i].op \in LabelOps \ {"mint"} =>
          s[i].of \in K \/ \E j \in 1..(i - 1) : s[j] = MintStep(s[i].of)
     /\ s[i].op = "keeper accounts" => i < Len(s) /\ s[i + 1].op = "keeper"
     /\ s[i].op # "save"}

Having(x) == {s \in Seq(StepSet) : \E i \in 1..Len(s) : s[i] = x}

LEMMA HavingConcat ==
  ASSUME NEW x, NEW a \in Seq(StepSet), NEW b \in Seq(StepSet)
  PROVE  a \in Having(x) \/ b \in Having(x) => a \o b \in Having(x)
<1>1. /\ a \o b \in Seq(StepSet) /\ Len(a \o b) = Len(a) + Len(b)
      /\ Len(a) \in Nat /\ Len(b) \in Nat
      /\ \A i \in 1..Len(a) : (a \o b)[i] = a[i]
      /\ \A i \in 1..Len(b) : (a \o b)[Len(a) + i] = b[i]
  BY ConcatIs
<1>2. CASE a \in Having(x)
  <2>1. PICK i \in 1..Len(a) : a[i] = x BY <1>2 DEF Having
  <2>2. i \in 1..Len(a \o b) /\ (a \o b)[i] = x BY <1>1, <2>1
  <2>3. QED BY <1>1, <2>2 DEF Having
<1>3. CASE b \in Having(x)
  <2>1. PICK i \in 1..Len(b) : b[i] = x BY <1>3 DEF Having
  <2>2. Len(a) + i \in 1..Len(a \o b) /\ (a \o b)[Len(a) + i] = x BY <1>1, <2>1
  <2>3. QED BY <1>1, <2>2 DEF Having
<1>4. QED BY <1>2, <1>3

\* What follows may count on the mints of what went before.
LEMMA BlockConcat ==
  ASSUME NEW K, NEW L, NEW a \in Blocks(K), NEW b \in Blocks(K \cup L),
         \A l \in L : a \in Having(MintStep(l))
  PROVE  a \o b \in Blocks(K)
<1>1. a \in Seq(StepSet) /\ b \in Seq(StepSet) BY DEF Blocks
<1> DEFINE c == a \o b
<1>2. /\ c \in Seq(StepSet) /\ Len(c) = Len(a) + Len(b)
      /\ Len(a) \in Nat /\ Len(b) \in Nat
      /\ \A i \in 1..Len(a) : c[i] = a[i]
      /\ \A i \in 1..Len(b) : c[Len(a) + i] = b[i]
      /\ \A i \in 1..Len(c) : i \in 1..Len(a) \/ \E j \in 1..Len(b) : i = Len(a) + j
  BY <1>1, ConcatIs
<1> HIDE DEF c
<1>3. ASSUME NEW i \in 1..Len(c)
      PROVE  /\ c[i].op \in LabelOps \ {"mint"} =>
                  c[i].of \in K \/ \E j \in 1..(i - 1) : c[j] = MintStep(c[i].of)
             /\ c[i].op = "keeper accounts" => i < Len(c) /\ c[i + 1].op = "keeper"
             /\ c[i].op # "save"
  <2>1. CASE i \in 1..Len(a)
    <3>1. c[i] = a[i] BY <1>2, <2>1
    <3>2. /\ a[i].op \in LabelOps \ {"mint"} =>
               a[i].of \in K \/ \E j \in 1..(i - 1) : a[j] = MintStep(a[i].of)
          /\ a[i].op = "keeper accounts" => i < Len(a) /\ a[i + 1].op = "keeper"
          /\ a[i].op # "save"
      BY <2>1 DEF Blocks
    <3>3. \A j \in 1..(i - 1) : j \in 1..Len(a) /\ c[j] = a[j] BY <1>2, <2>1
    <3>4. i < Len(a) => i + 1 \in 1..Len(a) /\ c[i + 1] = a[i + 1] /\ i < Len(c)
      BY <1>2, <2>1
    <3>5. QED BY <3>1, <3>2, <3>3, <3>4
  <2>2. CASE \E k \in 1..Len(b) : i = Len(a) + k
    <3>1. PICK k \in 1..Len(b) : i = Len(a) + k BY <2>2
    <3>2. c[i] = b[k] BY <1>2, <3>1
    <3>3. /\ b[k].op \in LabelOps \ {"mint"} =>
               b[k].of \in K \cup L \/ \E j \in 1..(k - 1) : b[j] = MintStep(b[k].of)
          /\ b[k].op = "keeper accounts" => k < Len(b) /\ b[k + 1].op = "keeper"
          /\ b[k].op # "save"
      BY DEF Blocks
    <3>4. \A j \in 1..(k - 1) : Len(a) + j \in 1..(i - 1) /\ c[Len(a) + j] = b[j]
      <4> TAKE j \in 1..(k - 1)
      <4>1. j \in 1..Len(b) BY <1>2, <3>1
      <4>2. Len(a) + j \in 1..(i - 1) BY <1>2, <3>1
      <4>3. QED BY <1>2, <4>1, <4>2
    <3>5. k < Len(b) => i < Len(c) /\ c[i + 1] = b[k + 1]
      <4>1. k < Len(b) => k + 1 \in 1..Len(b) /\ i + 1 = Len(a) + (k + 1) BY <1>2, <3>1
      <4>2. QED BY <1>2, <3>1, <4>1
    <3>6. b[k].of \in L => \E j \in 1..(i - 1) : c[j] = MintStep(b[k].of)
      <4>1. SUFFICES ASSUME b[k].of \in L PROVE \E j \in 1..(i - 1) : c[j] = MintStep(b[k].of)
        OBVIOUS
      <4>2. PICK j \in 1..Len(a) : a[j] = MintStep(b[k].of) BY <4>1 DEF Having
      <4>3. j \in 1..(i - 1) /\ c[j] = a[j] BY <1>2, <3>1
      <4>4. QED BY <4>2, <4>3
    <3>7. QED BY <3>2, <3>3, <3>4, <3>5, <3>6
  <2>3. QED BY <1>2, <2>1, <2>2
<1>4. QED BY <1>2, <1>3 DEF Blocks, c

\* Blocks put one after another.
LEMMA BlocksConcat ==
  ASSUME NEW K, NEW a \in Blocks(K), NEW b \in Blocks(K)
  PROVE  a \o b \in Blocks(K)
<1> DEFINE L == {}
<1>1. K \cup L = K /\ \A l \in L : a \in Having(MintStep(l)) OBVIOUS
<1>2. b \in Blocks(K \cup L) BY <1>1
<1> HIDE DEF L
<1>3. QED BY <1>1, <1>2, BlockConcat

LEMMA BlocksGrow == ASSUME NEW K, NEW L PROVE Blocks(K) \subseteq Blocks(K \cup L)
BY DEF Blocks

\* Blocks flattened: the whole is a block, and has whatever one of them has.
LEMMA BlocksFlatten ==
  ASSUME NEW K, NEW ss, Len(ss) \in Nat \ {0}, \A i \in 1..Len(ss) : ss[i] \in Blocks(K)
  PROVE  /\ FlattenSeq(ss) \in Blocks(K)
         /\ \A x : (\E k \in 1..Len(ss) : ss[k] \in Having(x)) => FlattenSeq(ss) \in Having(x)
<1>1. \A a, b \in Blocks(K) : a \o b \in Blocks(K) BY BlocksConcat
<1>2. 1 \in 1..Len(ss) OBVIOUS
<1>3. FlattenSeq(ss) \in Blocks(K)
  <2>1. \A a, b \in Blocks(K) :
          a \o b \in Blocks(K) /\ (a \in Blocks(K) \/ b \in Blocks(K) => a \o b \in Blocks(K))
    BY <1>1
  <2>2. ss[1] \in Blocks(K) BY <1>2
  <2>3. FlattenSeq(ss) \in Blocks(K) \cap Blocks(K) BY <1>2, <2>1, <2>2, FlattenIn
  <2>4. QED BY <2>3
<1>4. ASSUME NEW x, NEW k \in 1..Len(ss), ss[k] \in Having(x)
      PROVE  FlattenSeq(ss) \in Having(x)
  <2>1. \A a, b \in Blocks(K) :
          a \o b \in Blocks(K) /\ (a \in Having(x) \/ b \in Having(x) => a \o b \in Having(x))
    <3>1. Blocks(K) \subseteq Seq(StepSet) BY DEF Blocks
    <3>2. QED BY <1>1, <3>1, HavingConcat
  <2>2. FlattenSeq(ss) \in Blocks(K) \cap Having(x) BY <1>4, <2>1, FlattenIn
  <2>3. QED BY <2>2
<1>5. QED BY <1>3, <1>4

\* The steps of a label and of a vault are steps.
LEMMA LabelStep ==
  ASSUME NEW o \in LabelOps, NEW l \in Labels
  PROVE  [op |-> o, of |-> l] \in StepSet
<1>1. [op |-> o, of |-> l] \in StepsOfLabels BY DEF StepsOfLabels
<1>2. QED BY <1>1 DEF StepSet

LEMMA VaultStep ==
  ASSUME NEW o \in {"feed", "vault"}, NEW n \in DOMAIN Vaults
  PROVE  [op |-> o, of |-> Vaults[n].symbol] \in StepSet
<1>1. [op |-> o, of |-> Vaults[n].symbol] \in StepsOfVaults BY DEF StepsOfVaults
<1>2. QED BY <1>1 DEF StepSet

\* A step that stands alone.
LEMMA OneStep ==
  ASSUME NEW K, NEW s \in StepSet, s.op \notin LabelOps \ {"mint"}, s.op # "save"
  PROVE  <<s>> \in Blocks(K) /\ <<s>> \in Having(s)
<1>1. <<s>> \in Seq(StepSet) /\ Len(<<s>>) = 1 /\ <<s>>[1] = s OBVIOUS
<1>2. s.op # "keeper accounts" BY DEF LabelOps
<1> DEFINE w == <<s>>
<1> HIDE DEF w
<1>3. w \in Seq(StepSet) /\ Len(w) = 1 /\ w[1] = s BY <1>1 DEF w
<1>4. \A i \in 1..Len(w) : w[i] = s BY <1>3
<1>5. w \in Blocks(K) BY <1>2, <1>3, <1>4 DEF Blocks
<1>6. w \in Having(s) BY <1>3 DEF Having
<1>7. QED BY <1>5, <1>6 DEF w

LEMMA MintBlock ==
  ASSUME NEW l \in Labels
  PROVE  /\ MintSteps(l) \in Blocks({}) /\ MintSteps(l) \in Having(MintStep(l))
         /\ MintSteps(l) \in Having([op |-> "verify", of |-> l])
<1> DEFINE a == MintStep(l)
           b == [op |-> "verify", of |-> l]
           s == MintSteps(l)
<1>1. a \in StepSet /\ b \in StepSet BY LabelStep DEF MintStep, LabelOps
<1>2. a.op = "mint" /\ b.op = "verify" /\ b.of = l BY DEF MintStep
<1>3. s = <<a, b>> BY DEF MintSteps, MintStep
<1> HIDE DEF a, b, s
<1>4. s \in Seq(StepSet) /\ Len(s) = 2 /\ s[1] = a /\ s[2] = b BY <1>1, <1>3
<1>5. \A i \in 1..Len(s) : i = 1 \/ i = 2 BY <1>4
<1>6. ASSUME NEW i \in 1..Len(s)
      PROVE  /\ s[i].op \in LabelOps \ {"mint"} =>
                  s[i].of \in {} \/ \E j \in 1..(i - 1) : s[j] = MintStep(s[i].of)
             /\ s[i].op = "keeper accounts" => i < Len(s) /\ s[i + 1].op = "keeper"
             /\ s[i].op # "save"
  <2>1. CASE i = 1 BY <1>2, <1>4, <2>1
  <2>2. CASE i = 2
    <3>1. 1 \in 1..(i - 1) /\ s[1] = MintStep(s[i].of) BY <1>2, <1>4, <2>2 DEF a
    <3>2. QED BY <1>2, <1>4, <2>2, <3>1
  <2>3. QED BY <1>5, <2>1, <2>2
<1>7. s \in Blocks({}) BY <1>4, <1>6 DEF Blocks
<1>8. 1 \in 1..Len(s) /\ 2 \in 1..Len(s) BY <1>4
<1>9. s \in Having(a) /\ s \in Having(b) BY <1>4, <1>8 DEF Having
<1>10. QED BY <1>7, <1>9 DEF s, a, b

LEMMA WrapperBlock ==
  ASSUME NEW labels, NEW i \in DOMAIN labels, labels[i] \in Labels
  PROVE  LET w == WrapperSteps(labels, i) IN
         /\ w \in Blocks({labels[i]}) /\ w \in Having([op |-> "wrapper", of |-> labels[i]])
         /\ w \in Having([op |-> "accounts", of |-> labels[i]])
<1> DEFINE l == labels[i]
           a == [op |-> "wrapper", of |-> l]
           b == [op |-> "accounts", of |-> l]
           c == [op |-> "wallet", of |-> l]
           d == [op |-> "keeper accounts", of |-> l]
           e == [op |-> "keeper", of |-> l]
           own == <<a, b, c>>
           keeper == <<d, e>>
<1>1. a \in StepSet /\ b \in StepSet /\ c \in StepSet /\ d \in StepSet /\ e \in StepSet
  BY LabelStep DEF LabelOps
<1>2. /\ a.op = "wrapper" /\ b.op = "accounts" /\ c.op = "wallet"
      /\ d.op = "keeper accounts" /\ e.op = "keeper"
      /\ a.of = l /\ b.of = l /\ c.of = l /\ d.of = l /\ e.of = l
  OBVIOUS
<1>3. WrapperSteps(labels, i) = IF i = 1 THEN own \o keeper ELSE own BY DEF WrapperSteps
<1> HIDE DEF l, a, b, c, d, e
<1>4. own \in Blocks({l}) /\ own \in Having(a) /\ own \in Having(b)
  <2> HIDE DEF own
  <2>1. own \in Seq(StepSet) /\ Len(own) = 3 /\ own[1] = a /\ own[2] = b /\ own[3] = c
    BY <1>1 DEF own
  <2>2. \A j \in 1..Len(own) : j = 1 \/ j = 2 \/ j = 3 BY <2>1
  <2>3. \A j \in 1..Len(own) : own[j].of = l /\ own[j].op \notin {"keeper accounts", "save"}
    BY <1>2, <2>1, <2>2
  <2>4. own \in Blocks({l}) BY <2>1, <2>3 DEF Blocks
  <2>5. 1 \in 1..Len(own) /\ 2 \in 1..Len(own) BY <2>1
  <2>6. QED BY <2>1, <2>4, <2>5 DEF Having
<1>5. keeper \in Blocks({l})
  <2> HIDE DEF keeper
  <2>1. keeper \in Seq(StepSet) /\ Len(keeper) = 2 /\ keeper[1] = d /\ keeper[2] = e
    BY <1>1 DEF keeper
  <2>2. \A j \in 1..Len(keeper) : j = 1 \/ j = 2 BY <2>1
  <2>3. ASSUME NEW j \in 1..Len(keeper)
        PROVE  /\ keeper[j].of = l /\ keeper[j].op # "save"
               /\ keeper[j].op = "keeper accounts" => j < Len(keeper) /\ keeper[j + 1].op = "keeper"
    <3>1. CASE j = 1
      <4>1. keeper[j] = d /\ keeper[j + 1] = e /\ j < Len(keeper) BY <2>1, <3>1
      <4>2. QED BY <1>2, <4>1
    <3>2. CASE j = 2
      <4>1. keeper[j] = e BY <2>1, <3>2
      <4>2. QED BY <1>2, <4>1
    <3>3. QED BY <2>2, <3>1, <3>2
  <2>4. QED BY <2>1, <2>3 DEF Blocks
<1> HIDE DEF own, keeper
<1>6. own \o keeper \in Blocks({l}) BY <1>4, <1>5, BlocksConcat
<1>7. own \o keeper \in Having(a) /\ own \o keeper \in Having(b)
  <2>1. own \in Seq(StepSet) /\ keeper \in Seq(StepSet) BY <1>4, <1>5 DEF Blocks
  <2>2. QED BY <1>4, <2>1, HavingConcat
<1>8. WrapperSteps(labels, i) \in Blocks({l}) /\ WrapperSteps(labels, i) \in Having(a)
      /\ WrapperSteps(labels, i) \in Having(b)
  BY <1>3, <1>4, <1>6, <1>7
<1>9. QED BY <1>8 DEF l, a, b

\* The steps of a vault: each of its labels is minted, verified and wrapped, in that order.
LEMMA VaultBlock ==
  ASSUME NEW n \in DOMAIN Vaults
  PROVE  LET s == VaultSteps(Vaults[n]) IN
         /\ s \in Blocks({})
         /\ s \in Having([op |-> "vault", of |-> Vaults[n].symbol])
         /\ \A l \in ToSet(Vaults[n].labels) :
              /\ s \in Having(MintStep(l)) /\ s \in Having([op |-> "verify", of |-> l])
              /\ s \in Having([op |-> "wrapper", of |-> l])
              /\ s \in Having([op |-> "accounts", of |-> l])
<1> DEFINE v == Vaults[n]
           L == ToSet(v.labels)
           feed == [op |-> "feed", of |-> v.symbol]
           vault == [op |-> "vault", of |-> v.symbol]
           mints == [i \in DOMAIN v.labels |-> MintSteps(v.labels[i])]
           wraps == [i \in DOMAIN v.labels |-> WrapperSteps(v.labels, i)]
<1>1. /\ v.labels \in Seq(L) /\ Len(v.labels) > 0 /\ L \subseteq Labels
  BY DevnetSetupAssumption DEF Labels
<1>2. /\ DOMAIN v.labels = 1..Len(v.labels) /\ Len(v.labels) \in Nat \ {0}
      /\ \A i \in DOMAIN v.labels : v.labels[i] \in L
  <2> HIDE DEF L, v
  <2>1. QED BY <1>1
<1>3. \A l \in L : \E i \in DOMAIN v.labels : v.labels[i] = l BY DEF ToSet
<1>4. feed \in StepSet /\ vault \in StepSet /\ feed.op = "feed" /\ vault.op = "vault"
  BY VaultStep
<1>5. /\ <<feed>> \in Blocks({}) /\ <<vault>> \in Blocks({}) /\ <<vault>> \in Having(vault)
      /\ <<feed>> \in Seq(StepSet) /\ <<vault>> \in Seq(StepSet)
  <2>1. feed.op \notin LabelOps /\ vault.op \notin LabelOps BY <1>4 DEF LabelOps
  <2>2. feed.op # "save" /\ vault.op # "save" OBVIOUS
  <2> HIDE DEF feed, vault
  <2>3. <<feed>> \in Blocks({}) /\ <<vault>> \in Blocks({}) /\ <<vault>> \in Having(vault)
    BY <1>4, <2>1, <2>2, OneStep
  <2>4. QED BY <2>3 DEF Blocks
<1>6. VaultSteps(v) = ((<<feed>> \o FlattenSeq(mints)) \o <<vault>>) \o FlattenSeq(wraps)
  BY DEF VaultSteps
<1>7. /\ Len(mints) = Len(v.labels) /\ Len(wraps) = Len(v.labels)
      /\ \A i \in 1..Len(v.labels) : /\ mints[i] = MintSteps(v.labels[i])
                                     /\ wraps[i] = WrapperSteps(v.labels, i)
  BY <1>2
<1> HIDE DEF mints, wraps, feed, vault
<1> DEFINE m == FlattenSeq(mints)
           w == FlattenSeq(wraps)
<1>8. /\ m \in Blocks({})
      /\ \A l \in L : m \in Having(MintStep(l)) /\ m \in Having([op |-> "verify", of |-> l])
  <2>1. \A i \in 1..Len(mints) :
          /\ mints[i] \in Blocks({}) /\ mints[i] \in Having(MintStep(v.labels[i]))
          /\ mints[i] \in Having([op |-> "verify", of |-> v.labels[i]])
    BY <1>1, <1>2, <1>7, MintBlock
  <2>2. /\ m \in Blocks({})
        /\ \A x : (\E k \in 1..Len(mints) : mints[k] \in Having(x)) => m \in Having(x)
    <3>1. Len(mints) \in Nat \ {0} BY <1>2, <1>7
    <3>2. QED BY <2>1, <3>1, BlocksFlatten
  <2> HIDE DEF m
  <2>3. QED BY <1>2, <1>3, <1>7, <2>1, <2>2
<1>9. /\ w \in Blocks(L)
      /\ \A l \in L : /\ w \in Having([op |-> "wrapper", of |-> l])
                      /\ w \in Having([op |-> "accounts", of |-> l])
  <2>1. ASSUME NEW i \in 1..Len(wraps)
        PROVE  /\ wraps[i] \in Blocks(L) /\ wraps[i] \in Having([op |-> "wrapper", of |-> v.labels[i]])
               /\ wraps[i] \in Having([op |-> "accounts", of |-> v.labels[i]])
    <3>1. i \in DOMAIN v.labels /\ v.labels[i] \in L /\ v.labels[i] \in Labels
      BY <1>1, <1>2, <1>7
    <3> HIDE DEF L, v
    <3>2. /\ wraps[i] \in Blocks({v.labels[i]})
          /\ wraps[i] \in Having([op |-> "wrapper", of |-> v.labels[i]])
          /\ wraps[i] \in Having([op |-> "accounts", of |-> v.labels[i]])
      BY <1>2, <1>7, <3>1, WrapperBlock
    <3>3. {v.labels[i]} \cup L = L BY <3>1
    <3>4. Blocks({v.labels[i]}) \subseteq Blocks({v.labels[i]} \cup L) BY BlocksGrow
    <3>5. QED BY <3>2, <3>3, <3>4
  <2>2. /\ w \in Blocks(L)
        /\ \A x : (\E k \in 1..Len(wraps) : wraps[k] \in Having(x)) => w \in Having(x)
    <3>1. Len(wraps) \in Nat \ {0} BY <1>2, <1>7
    <3> HIDE DEF L
    <3>2. QED BY <2>1, <3>1, BlocksFlatten
  <2> HIDE DEF w
  <2>3. QED BY <1>2, <1>3, <1>7, <2>1, <2>2
<1> HIDE DEF m, w, L, v
<1> DEFINE p == <<feed>> \o m
           q == p \o <<vault>>
<1>10. m \in Seq(StepSet) /\ w \in Seq(StepSet) BY <1>8, <1>9 DEF Blocks
<1>11. p \in Blocks({}) BY <1>5, <1>8, BlocksConcat
<1>12. \A x : m \in Having(x) => p \in Having(x) BY <1>5, <1>10, HavingConcat
<1> HIDE DEF p
<1>13. q \in Blocks({}) BY <1>5, <1>11, BlocksConcat
<1>14. /\ \A x : p \in Having(x) => q \in Having(x)
       /\ q \in Having(vault)
  <2>1. p \in Seq(StepSet) BY <1>11 DEF Blocks
  <2>2. QED BY <1>5, <2>1, HavingConcat
<1> HIDE DEF q
<1>15. q \o w \in Blocks({})
  <2>1. w \in Blocks({} \cup L) BY <1>9
  <2>2. \A l \in L : q \in Having(MintStep(l)) BY <1>8, <1>12, <1>14
  <2>3. QED BY <1>13, <2>1, <2>2, BlockConcat
<1>16. \A x : q \in Having(x) \/ w \in Having(x) => q \o w \in Having(x)
  <2>1. q \in Seq(StepSet) BY <1>13 DEF Blocks
  <2>2. QED BY <1>10, <2>1, HavingConcat
<1>17. VaultSteps(v) = q \o w BY <1>6 DEF q, p, m, w
<1>18. QED BY <1>8, <1>9, <1>12, <1>14, <1>15, <1>16, <1>17 DEF vault, L, v

\* Some step before the last is x.
Early(x) == \E i \in 1..(Len(Steps) - 1) : Steps[i] = x

\* The book is saved at the end, after every vault and every label's mint, check,
\* registration and accounts, and nothing is done for a label before its mint.
LEMMA StepsAre ==
  /\ Steps \in Seq(StepSet) /\ Len(Steps) \in Nat \ {0} /\ Steps[Len(Steps)].op = "save"
  /\ \A i \in 1..Len(Steps) :
       /\ Steps[i] \in StepSet
       /\ Steps[i].op = "save" => i = Len(Steps)
       /\ Steps[i].op \in LabelOps \ {"mint"} =>
            \E j \in 1..(i - 1) : Steps[j] = MintStep(Steps[i].of)
       /\ Steps[i].op = "keeper accounts" => i + 1 < Len(Steps) /\ Steps[i + 1].op = "keeper"
  /\ \A v \in DOMAIN Vaults : Early([op |-> "vault", of |-> Vaults[v].symbol])
  /\ \A l \in Labels :
       /\ Early([op |-> "verify", of |-> l]) /\ Early([op |-> "wrapper", of |-> l])
       /\ Early([op |-> "accounts", of |-> l])
  /\ Early([op |-> "owner", of |-> "USDC"])
  /\ Early([op |-> "liquidity accounts", of |-> "USDC"])
<1> DEFINE feed == [op |-> "feed", of |-> "USDC"]
           a == [op |-> "owner", of |-> "USDC"]
           b == [op |-> "liquidity accounts", of |-> "USDC"]
           c == [op |-> "liquidity", of |-> "SOL"]
           d == [op |-> "save", of |-> "book"]
           tail == <<a, b, c, d>>
           parts == [v \in DOMAIN Vaults |-> VaultSteps(Vaults[v])]
           body == <<feed>> \o FlattenSeq(parts)
<1>1. Steps = body \o tail BY DEF Steps
<1>2. /\ a \in StepSet /\ b \in StepSet /\ c \in StepSet /\ d \in StepSet /\ feed \in StepSet
      /\ a.op \notin LabelOps /\ b.op \notin LabelOps /\ c.op \notin LabelOps
      /\ d.op \notin LabelOps /\ feed.op \notin LabelOps
      /\ a.op # "save" /\ b.op # "save" /\ c.op # "save" /\ d.op = "save" /\ feed.op # "save"
  <2>1. /\ a \in OtherSteps /\ b \in OtherSteps /\ c \in OtherSteps /\ d \in OtherSteps
        /\ feed \in OtherSteps
    BY DEF OtherSteps
  <2>2. /\ a.op \notin LabelOps /\ b.op \notin LabelOps /\ c.op \notin LabelOps
        /\ d.op \notin LabelOps /\ feed.op \notin LabelOps
        /\ a.op # "save" /\ b.op # "save" /\ c.op # "save" /\ d.op = "save" /\ feed.op # "save"
    BY DEF LabelOps
  <2> HIDE DEF a, b, c, d, feed
  <2>3. QED BY <2>1, <2>2 DEF StepSet
<1> HIDE DEF a, b, c, d, feed
<1>3. /\ tail \in Seq(StepSet) /\ Len(tail) = 4
      /\ tail[1] = a /\ tail[2] = b /\ tail[3] = c /\ tail[4] = d
  BY <1>2
<1>4. /\ DOMAIN Vaults = 1..Len(Vaults) /\ Len(Vaults) \in Nat \ {0}
  BY DevnetSetupAssumption
<1>5. /\ Len(parts) = Len(Vaults)
      /\ \A v \in DOMAIN Vaults : parts[v] = VaultSteps(Vaults[v])
  BY <1>4
<1> HIDE DEF parts, tail
<1> DEFINE f == FlattenSeq(parts)
<1>6. /\ f \in Blocks({})
      /\ \A x : (\E v \in DOMAIN Vaults : VaultSteps(Vaults[v]) \in Having(x)) => f \in Having(x)
  <2>1. \A i \in 1..Len(parts) : parts[i] \in Blocks({}) BY <1>4, <1>5, VaultBlock
  <2>2. /\ f \in Blocks({})
        /\ \A x : (\E k \in 1..Len(parts) : parts[k] \in Having(x)) => f \in Having(x)
    BY <1>4, <1>5, <2>1, BlocksFlatten
  <2> HIDE DEF f
  <2>3. QED BY <1>4, <1>5, <2>2
<1> HIDE DEF f
<1>7. body = <<feed>> \o f BY DEF f
<1> HIDE DEF body
<1>8. <<feed>> \in Blocks({}) BY <1>2, OneStep
<1>9. /\ body \in Blocks({}) /\ body \in Seq(StepSet)
      /\ \A x : f \in Having(x) => body \in Having(x)
  <2>1. body \in Blocks({}) BY <1>6, <1>7, <1>8, BlocksConcat
  <2>2. <<feed>> \in Seq(StepSet) /\ f \in Seq(StepSet) BY <1>6, <1>8 DEF Blocks
  <2>3. \A x : f \in Having(x) => body \in Having(x) BY <1>7, <2>2, HavingConcat
  <2>4. QED BY <2>1, <2>3 DEF Blocks
<1> DEFINE n == Len(body)
<1>10. /\ Steps \in Seq(StepSet) /\ Len(Steps) = n + 4 /\ n \in Nat
       /\ \A i \in 1..n : Steps[i] = body[i]
       /\ \A i \in 1..4 : Steps[n + i] = tail[i]
       /\ \A i \in 1..Len(Steps) : i \in 1..n \/ \E j \in 1..4 : i = n + j
  <2>1. /\ body \o tail \in Seq(StepSet) /\ Len(body \o tail) = Len(body) + Len(tail)
        /\ Len(body) \in Nat
        /\ \A i \in 1..Len(body) : (body \o tail)[i] = body[i]
        /\ \A i \in 1..Len(tail) : (body \o tail)[Len(body) + i] = tail[i]
        /\ \A i \in 1..Len(body \o tail) :
             i \in 1..Len(body) \/ \E j \in 1..Len(tail) : i = Len(body) + j
    <3>1. body \in Seq(StepSet) /\ tail \in Seq(StepSet) BY <1>3, <1>9
    <3>2. QED BY <3>1, ConcatIs
  <2>2. QED BY <1>1, <1>3, <2>1
<1> HIDE DEF n
<1>11. Steps[n + 1] = a /\ Steps[n + 2] = b /\ Steps[n + 3] = c /\ Steps[n + 4] = d
  BY <1>3, <1>10
<1>12. ASSUME NEW x, body \in Having(x) PROVE Early(x)
  <2>1. PICK i \in 1..n : body[i] = x BY <1>12 DEF Having, n
  <2>2. i \in 1..(Len(Steps) - 1) /\ Steps[i] = x BY <1>10, <2>1
  <2>3. QED BY <2>2 DEF Early
<1>13. Early(a) /\ Early(b)
  <2>1. n + 1 \in 1..(Len(Steps) - 1) /\ n + 2 \in 1..(Len(Steps) - 1) BY <1>10
  <2>2. QED BY <1>11, <2>1 DEF Early
<1>14. ASSUME NEW v \in DOMAIN Vaults
       PROVE  Early([op |-> "vault", of |-> Vaults[v].symbol])
  BY <1>6, <1>9, <1>12, VaultBlock
<1>15. ASSUME NEW l \in Labels
       PROVE  /\ Early([op |-> "verify", of |-> l]) /\ Early([op |-> "wrapper", of |-> l])
              /\ Early([op |-> "accounts", of |-> l])
  <2>1. PICK v \in DOMAIN Vaults : l \in ToSet(Vaults[v].labels) BY DEF Labels
  <2>2. /\ VaultSteps(Vaults[v]) \in Having([op |-> "verify", of |-> l])
        /\ VaultSteps(Vaults[v]) \in Having([op |-> "wrapper", of |-> l])
        /\ VaultSteps(Vaults[v]) \in Having([op |-> "accounts", of |-> l])
    BY <2>1, VaultBlock
  <2>3. QED BY <1>6, <1>9, <1>12, <2>2
<1>16. ASSUME NEW i \in 1..Len(Steps)
       PROVE  /\ Steps[i] \in StepSet
              /\ Steps[i].op = "save" => i = Len(Steps)
              /\ Steps[i].op \in LabelOps \ {"mint"} =>
                   \E j \in 1..(i - 1) : Steps[j] = MintStep(Steps[i].of)
              /\ Steps[i].op = "keeper accounts" => i + 1 < Len(Steps) /\ Steps[i + 1].op = "keeper"
  <2>1. CASE i \in 1..n
    <3>1. Steps[i] = body[i] BY <1>10, <2>1
    <3>2. i \in 1..Len(body) BY <2>1 DEF n
    <3>3. /\ body[i].op \in LabelOps \ {"mint"} =>
               \E j \in 1..(i - 1) : body[j] = MintStep(body[i].of)
          /\ body[i].op # "save"
      <4>1. body[i].op \in LabelOps \ {"mint"} =>
              body[i].of \in {} \/ \E j \in 1..(i - 1) : body[j] = MintStep(body[i].of)
        BY <1>9, <3>2 DEF Blocks
      <4>2. body[i].op # "save" BY <1>9, <3>2 DEF Blocks
      <4>3. QED BY <4>1, <4>2
    <3>4. body[i] \in StepSet BY <1>9, <3>2
    <3>5. \A j \in 1..(i - 1) : Steps[j] = body[j] BY <1>10, <2>1
    <3>6. i + 1 < Len(Steps) BY <1>10, <2>1
    <3>7. body[i].op = "keeper accounts" => Steps[i + 1].op = "keeper"
      <4>1. body[i].op = "keeper accounts" => i < Len(body) /\ body[i + 1].op = "keeper"
        BY <1>9, <3>2 DEF Blocks
      <4>2. i < Len(body) => i + 1 \in 1..n BY <1>10, <2>1 DEF n
      <4>3. QED BY <1>10, <4>1, <4>2
    <3>8. Steps[i].op \in LabelOps \ {"mint"} =>
            \E j \in 1..(i - 1) : Steps[j] = MintStep(Steps[i].of)
      BY <3>1, <3>3, <3>5
    <3>9. Steps[i].op # "save" BY <3>1, <3>3
    <3>10. Steps[i].op = "keeper accounts" => i + 1 < Len(Steps) /\ Steps[i + 1].op = "keeper"
      BY <3>1, <3>6, <3>7
    <3>11. QED BY <3>1, <3>4, <3>8, <3>9, <3>10
  <2>2. CASE \E j \in 1..4 : i = n + j
    <3>1. \/ Steps[i] = a \/ Steps[i] = b \/ Steps[i] = c
          \/ Steps[i] = d /\ i = Len(Steps)
      BY <1>10, <1>11, <2>2
    <3>2. Steps[i].op \notin LabelOps /\ Steps[i] \in StepSet BY <1>2, <3>1
    <3>3. Steps[i].op # "keeper accounts" BY <3>2 DEF LabelOps
    <3>4. Steps[i].op = "save" => i = Len(Steps) BY <1>2, <3>1
    <3>5. QED BY <3>2, <3>3, <3>4
  <2>3. QED BY <1>10, <2>1, <2>2
<1>17. Steps[Len(Steps)].op = "save" /\ Len(Steps) \in Nat \ {0} BY <1>2, <1>10, <1>11
<1>18. Early([op |-> "owner", of |-> "USDC"]) /\ Early([op |-> "liquidity accounts", of |-> "USDC"])
  BY <1>13 DEF a, b
<1> HIDE DEF Early
<1>19. QED BY <1>10, <1>14, <1>15, <1>16, <1>17, <1>18

-----------------------------------------------------------------------------
(* The invariant *)

\* A multiplier change has taken effect, and the run under way knows it.
Late == passed /\ (run.pc > 0 => run.passed)

\* What is true of a step that a run has done.
Done(s) ==
  /\ s.op = "mint" => s.of \in keyFile /\ multiplier[MintOf(s.of)] # "none"
  /\ s.op = "verify" => multiplier[MintOf(s.of)] = Live(s.of, run.passed)
  /\ s.op \in {"vault", "wrapper", "accounts", "owner", "liquidity accounts"} =>
       Object(s) \in chain

\* The account of a step, by the number its label's mint had when the step was sent.
ObjectGood(s, o) ==
  IF s.op = "vault" THEN o = <<s.op, s.of, 0>>
  ELSE IF s.of \in Labels THEN \E n \in 1..generated[s.of] : o = <<s.op, s.of, n>>
  ELSE o = <<s.op, s.of, 1>>

\* A transaction in flight is of a step that sends one, with the multiplier of its run.
FlightGood(x) ==
  /\ x.step \in StepSet /\ x.step.op \notin {"feed", "verify", "save"}
  /\ ObjectGood(x.step, x.object)
  /\ x.amount \in (IF TopsUp(x.step) THEN 1..Target ELSE {0})
  /\ x.late \in BOOLEAN /\ (x.late => Late)
  /\ x.step.op = "mint" /\ x.object[3] = 2 => x.late

\* What the variables range over.
RunRecord ==
  [pc : 0..Len(Steps), phase : {"read", "look", "send", "wait"}, slot : {0} \cup Slots,
   verdict : {"none", "ok", "err"}, short : Nat, passed : BOOLEAN]

Types ==
  /\ passed \in BOOLEAN
  /\ keyFile \subseteq Labels /\ told \subseteq Labels
  /\ generated \in [Labels -> 0..MAX_KEYS]
  /\ multiplier \in [Mints -> {"none", "old", "new"}]
  /\ \A o \in chain : o[3] \in 0..MAX_KEYS
  /\ held \in [Accounts -> Nat]
  /\ DOMAIN flight \subseteq Slots
  /\ run \in RunRecord
  /\ book.mints \in [Labels -> 0..MAX_KEYS] /\ book.late \in BOOLEAN /\ book.saved \in BOOLEAN
  /\ doubts \in [Accounts -> Nat] /\ mishaps \in 0..MAX_MISHAPS
  /\ \A a \in Accounts : doubts[a] <= mishaps

\* The run knows what it sent and waits for, and has done every step before its own.
RunGood ==
  /\ run.passed => passed
  /\ run.pc = 0 => run = Off
  /\ run.phase # "wait" => run.slot = 0 /\ run.verdict = "none"
  /\ run.phase = "look" => Step.op = "mint"
  /\ run.phase # "read" /\ Step.op = "mint" => Step.of \in keyFile
  /\ run.phase \in {"send", "wait"} =>
       /\ Step.op \notin {"feed", "verify", "save"}
       /\ run.short \in (IF TopsUp(Step) THEN 1..Target ELSE {0})
  /\ run.phase = "wait" /\ run.verdict = "none" =>
       /\ run.slot \in DOMAIN flight
       /\ flight[run.slot] = [step |-> Step, object |-> Object(Step), amount |-> run.short,
                              late |-> run.passed]
  /\ run.verdict # "none" => run.slot \notin DOMAIN flight
  /\ run.verdict = "ok" => Done(Step)
  /\ \A i \in 1..(run.pc - 1) : Done(Steps[i])

\* A label gets a second mint only after a multiplier change, when the first stays old;
\* then the second is new, and is the last.
KeyGood(l) ==
  /\ l \in keyFile => generated[l] >= 1
  /\ \A k \in 1..MAX_KEYS :
       /\ k > generated[l] => multiplier[<<l, k>>] = "none"
       /\ multiplier[<<l, k>>] = "new" => l \in Pending /\ Late
  /\ generated[l] <= 2
  /\ generated[l] = 2 =>
       /\ l \in keyFile /\ l \notin told /\ multiplier[<<l, 1>>] = "old"
       /\ multiplier[<<l, 2>>] # "old" /\ l \in Pending /\ Late
  /\ generated[l] = 1 /\ l \notin keyFile =>
       multiplier[<<l, 1>>] = "old" /\ l \in Pending /\ Late
  /\ l \in told =>
       l \in keyFile /\ multiplier[<<l, 1>>] = "old" /\ l \in Pending /\ Late

\* The address book is true, and names a mint that was made for each label.
BookGood == BookIsTrue /\ (book.saved => \A l \in Labels : book.mints[l] \in 1..MAX_KEYS)

SetupInv ==
  /\ Types /\ RunGood
  /\ \A i \in DOMAIN flight : FlightGood(flight[i])
  /\ \A l \in Labels : KeyGood(l)
  /\ BookGood

-----------------------------------------------------------------------------
(* What steps and runs are *)

\* What a step is about.
LEMMA StepForms ==
  ASSUME NEW s \in StepSet
  PROVE  /\ s = [op |-> s.op, of |-> s.of]
         /\ s.op \in LabelOps => s.of \in Labels
         /\ s.op \in {"owner", "liquidity accounts"} => s.of = "USDC" /\ s.of \notin Labels
         /\ s.op = "liquidity" => s.of = "SOL" /\ s.of \notin Labels
         /\ s.op \in LabelOps \cup {"feed", "vault", "owner", "liquidity accounts",
                                    "liquidity", "save"}
<1>1. "USDC" \notin Labels /\ "SOL" \notin Labels BY DevnetSetupAssumption
<1>2. s \in StepsOfLabels \/ s \in StepsOfVaults \/ s \in OtherSteps BY DEF StepSet
<1>3. ASSUME s \in StepsOfLabels
      PROVE  s = [op |-> s.op, of |-> s.of] /\ s.op \in LabelOps /\ s.of \in Labels
  BY <1>3 DEF StepsOfLabels
<1>4. ASSUME s \in StepsOfVaults
      PROVE  s = [op |-> s.op, of |-> s.of] /\ s.op \in {"feed", "vault"}
  BY <1>4 DEF StepsOfVaults
<1>5. ASSUME s \in OtherSteps
      PROVE  /\ s = [op |-> s.op, of |-> s.of]
             /\ \/ s.op \in {"owner", "liquidity accounts", "feed"} /\ s.of = "USDC"
                \/ s.op = "liquidity" /\ s.of = "SOL"
                \/ s.op = "save" /\ s.of = "book"
  <2>1. \/ s = [op |-> "feed", of |-> "USDC"] \/ s = [op |-> "owner", of |-> "USDC"]
        \/ s = [op |-> "liquidity accounts", of |-> "USDC"]
        \/ s = [op |-> "liquidity", of |-> "SOL"] \/ s = [op |-> "save", of |-> "book"]
    BY <1>5 DEF OtherSteps
  <2>2. CASE s = [op |-> "feed", of |-> "USDC"] BY <2>2
  <2>3. CASE s = [op |-> "owner", of |-> "USDC"] BY <2>3
  <2>4. CASE s = [op |-> "liquidity accounts", of |-> "USDC"] BY <2>4
  <2>5. CASE s = [op |-> "liquidity", of |-> "SOL"] BY <2>5
  <2>6. CASE s = [op |-> "save", of |-> "book"] BY <2>6
  <2>7. QED BY <2>1, <2>2, <2>3, <2>4, <2>5, <2>6
<1>6. s = [op |-> s.op, of |-> s.of] BY <1>2, <1>3, <1>4, <1>5
<1> DEFINE o == s.op
           l == s.of
<1>7. \/ o \in LabelOps /\ l \in Labels
      \/ o \in {"feed", "vault"}
      \/ o \in {"owner", "liquidity accounts", "feed"} /\ l = "USDC"
      \/ o = "liquidity" /\ l = "SOL"
      \/ o = "save" /\ l = "book"
  BY <1>2, <1>3, <1>4, <1>5
<1> HIDE DEF o, l
<1>8. /\ o \in LabelOps => l \in Labels
      /\ o \in {"owner", "liquidity accounts"} => l = "USDC" /\ l \notin Labels
      /\ o = "liquidity" => l = "SOL" /\ l \notin Labels
      /\ o \in LabelOps \cup {"feed", "vault", "owner", "liquidity accounts", "liquidity", "save"}
  BY <1>1, <1>7 DEF LabelOps
<1>9. QED BY <1>6, <1>8 DEF o, l

\* The step of a run, and those that follow it.
LEMMA StepOfRun ==
  ASSUME Types, run.pc > 0
  PROVE  /\ run.pc \in 1..Len(Steps) /\ Len(Steps) \in Nat /\ Step = Steps[run.pc]
         /\ Step \in StepSet
         /\ Step.op # "save" => run.pc + 1 \in 1..Len(Steps)
         /\ Step.op = "keeper accounts" =>
              run.pc + 2 \in 1..Len(Steps) /\ Steps[run.pc + 1].op = "keeper"
<1> DEFINE n == Len(Steps)
<1>1. run.pc \in 1..n /\ n \in Nat
  <2>1. n \in Nat \ {0} BY StepsAre
  <2>2. run.pc \in 0..n BY DEF Types, RunRecord
  <2> HIDE DEF n
  <2>3. QED BY <2>1, <2>2
<1>2. Step = Steps[run.pc] BY DEF Step
<1>3. /\ Step \in StepSet
      /\ Step.op = "keeper accounts" => run.pc + 1 < n /\ Steps[run.pc + 1].op = "keeper"
  BY <1>1, <1>2, StepsAre
<1>4. run.pc = n => Step.op = "save" BY <1>2, StepsAre
<1> HIDE DEF n
<1>5. /\ Step.op # "save" => run.pc + 1 \in 1..n
      /\ Step.op = "keeper accounts" => run.pc + 2 \in 1..n
  <2> DEFINE i == run.pc
  <2>1. i \in Nat /\ i <= n /\ i >= 1 BY <1>1
  <2> HIDE DEF i
  <2>2. i # n => i + 1 \in 1..n BY <1>1, <2>1
  <2>3. i + 1 < n => i + 2 \in 1..n BY <1>1, <2>1
  <2>4. QED BY <1>3, <1>4, <2>2, <2>3 DEF i
<1>6. QED BY <1>1, <1>2, <1>3, <1>5 DEF n

\* A run that got past a label's mint has the label's keypair.
LEMMA KeyKnown ==
  ASSUME Types, RunGood, run.pc > 0, NEW i \in 1..run.pc, Steps[i].op \in LabelOps,
         i = run.pc => Step.op # "mint" \/ run.phase # "read"
  PROVE  Steps[i].of \in keyFile
<1>1. run.pc \in 1..Len(Steps) /\ Len(Steps) \in Nat /\ Step = Steps[run.pc] BY StepOfRun
<1>2. \A j \in 1..(run.pc - 1) : Steps[j].op = "mint" => Steps[j].of \in keyFile
  BY DEF RunGood, Done
<1>3. CASE Steps[i].op = "mint"
  <2>1. CASE i = run.pc BY <1>1, <1>3, <2>1 DEF RunGood
  <2>2. CASE i # run.pc
    <3>1. i \in 1..(run.pc - 1) BY <1>1, <2>2
    <3>2. QED BY <1>2, <1>3, <3>1
  <2>3. QED BY <2>1, <2>2
<1>4. CASE Steps[i].op # "mint"
  <2>1. i \in 1..Len(Steps) BY <1>1
  <2>2. PICK j \in 1..(i - 1) : Steps[j] = MintStep(Steps[i].of) BY <1>4, <2>1, StepsAre
  <2>3. j \in 1..(run.pc - 1) BY <1>1, <2>2
  <2>4. Steps[j].op = "mint" /\ Steps[j].of = Steps[i].of BY <2>2 DEF MintStep
  <2>5. QED BY <1>2, <2>3, <2>4
<1>5. QED BY <1>3, <1>4

\* What is known of a keypair, and the mint it stands for.
LEMMA MintKnown ==
  ASSUME Types, NEW l \in Labels, KeyGood(l)
  PROVE  /\ generated[l] \in 0..MAX_KEYS /\ generated[l] \in {0, 1, 2}
         /\ MintOf(l) = <<l, generated[l]>>
         /\ l \in keyFile => generated[l] \in 1..MAX_KEYS /\ MintOf(l) \in Mints
         /\ \A k \in 1..MAX_KEYS : <<l, k>> \in Mints
         /\ MAX_KEYS \in Nat \ {0}
<1>1. generated[l] \in 0..MAX_KEYS /\ MAX_KEYS \in Nat \ {0}
  BY DevnetSetupAssumption DEF Types
<1>2. l \in keyFile => generated[l] \in 1..MAX_KEYS BY <1>1 DEF KeyGood
<1>3. generated[l] \in {0, 1, 2} BY <1>1 DEF KeyGood
<1>4. \A k \in 1..MAX_KEYS : <<l, k>> \in Mints BY DEF Mints
<1>5. QED BY <1>1, <1>2, <1>3, <1>4 DEF MintOf

\* What is done stays done as long as keypairs stay and nothing that exists goes.
LEMMA DoneKept ==
  ASSUME Types, NEW s \in StepSet, Done(s), s.op \in LabelOps => s.of \in keyFile,
         \A l \in Labels : KeyGood(l),
         \A l \in keyFile : l \in keyFile' /\ generated'[l] = generated[l],
         \A m \in Mints : multiplier[m] # "none" => multiplier'[m] = multiplier[m],
         chain \subseteq chain', run'.passed = run.passed
  PROVE  Done(s)'
<1>1. /\ s.op \in LabelOps => s.of \in Labels
      /\ s.op \in {"owner", "liquidity accounts"} => s.of \notin Labels
  BY StepForms
<1>2. s.op \in LabelOps => /\ MintOf(s.of) \in Mints /\ MintOf(s.of) = <<s.of, generated[s.of]>>
                           /\ generated'[s.of] = generated[s.of] /\ s.of \in keyFile'
  BY <1>1, MintKnown
<1>3. s.op \in LabelOps => MintOf(s.of)' = MintOf(s.of) BY <1>2 DEF MintOf
<1>4. s.op = "mint" => s.of \in keyFile' /\ multiplier'[MintOf(s.of)'] # "none"
  BY <1>2, <1>3 DEF Done, LabelOps
<1>5. s.op = "verify" => multiplier'[MintOf(s.of)'] = Live(s.of, run'.passed)
  <2>1. Live(s.of, run.passed) # "none" BY DEF Live
  <2>2. QED BY <1>2, <1>3, <2>1 DEF Done, LabelOps
<1>6. s.op \in {"vault", "wrapper", "accounts", "owner", "liquidity accounts"} =>
        Object(s)' = Object(s)
  BY <1>1, <1>2 DEF Object, LabelOps
<1>7. QED BY <1>4, <1>5, <1>6 DEF Done

-----------------------------------------------------------------------------
(* What the steps have in common *)

\* A transaction that stays in flight is as good as it was.
LEMMA FlightKept ==
  ASSUME SetupInv, NEW i \in DOMAIN flight, flight'[i] = flight[i],
         \A l \in Labels : generated[l] \in Nat /\ generated'[l] \in Nat
                           /\ generated[l] <= generated'[l],
         Late => Late'
  PROVE  FlightGood(flight[i])'
<1> DEFINE x == flight[i]
<1>1. FlightGood(x) BY DEF SetupInv
<1>2. flight'[i] = x OBVIOUS
<1> HIDE DEF x
<1>3. ASSUME ObjectGood(x.step, x.object)
      PROVE  ObjectGood(flight[i].step, flight[i].object)'
  <2>1. CASE x.step.op = "vault" BY <1>2, <1>3, <2>1 DEF ObjectGood
  <2>2. CASE x.step.op # "vault" /\ x.step.of \in Labels
    <3>1. PICK n \in 1..generated[x.step.of] : x.object = <<x.step.op, x.step.of, n>>
      BY <1>3, <2>2 DEF ObjectGood
    <3>2. n \in 1..generated'[x.step.of] BY <2>2
    <3>3. QED BY <1>2, <2>2, <3>1, <3>2 DEF ObjectGood
  <2>3. CASE x.step.op # "vault" /\ x.step.of \notin Labels
    BY <1>2, <1>3, <2>3 DEF ObjectGood
  <2>4. QED BY <2>1, <2>2, <2>3
<1>4. QED BY <1>1, <1>2, <1>3 DEF FlightGood, TopsUp

\* A step that leaves the keypairs and all accounts as they are.
LEMMA Frame ==
  ASSUME SetupInv, UNCHANGED <<keyFile, generated, multiplier, chain, told, book>>,
         Late => Late', Types', RunGood',
         \A i \in DOMAIN flight' :
           (i \in DOMAIN flight /\ flight'[i] = flight[i]) \/ FlightGood(flight[i])'
  PROVE  SetupInv'
<1>1. \A l \in Labels : generated[l] \in Nat
  BY DevnetSetupAssumption DEF SetupInv, Types
<1>2. ASSUME NEW i \in DOMAIN flight' PROVE FlightGood(flight[i])'
  <2>1. CASE i \in DOMAIN flight /\ flight'[i] = flight[i] BY <1>1, <2>1, FlightKept
  <2>2. QED BY <2>1
<1>3. ASSUME NEW l \in Labels PROVE KeyGood(l)'
  <2>1. KeyGood(l) BY DEF SetupInv
  <2> HIDE DEF Late
  <2>2. QED BY <2>1 DEF KeyGood
<1>4. BookGood' BY DEF SetupInv, BookGood, BookIsTrue
<1>5. QED BY <1>2, <1>3, <1>4 DEF SetupInv

\* A run that goes on to a later step, having done those between.
LEMMA Advances ==
  ASSUME SetupInv, run.pc > 0, NEW n \in 1..Len(Steps), n > run.pc,
         run' \in RunRecord, run'.pc = n, run'.phase = "read", run'.slot = 0,
         run'.verdict = "none", run'.passed = run.passed,
         \A i \in run.pc..(n - 1) : Done(Steps[i]),
         UNCHANGED <<passed, keyFile, generated, multiplier, chain, held, flight, told, book,
                     doubts, mishaps>>
  PROVE  SetupInv'
<1>1. run.pc \in 1..Len(Steps) /\ Len(Steps) \in Nat BY StepOfRun DEF SetupInv
<1>2. Types' BY DEF SetupInv, Types
<1>3. \A i \in 1..(n - 1) : Done(Steps[i])'
  <2> SUFFICES ASSUME NEW i \in 1..(n - 1) PROVE Done(Steps[i])'
    OBVIOUS
  <2>1. i \in 1..(run.pc - 1) \/ i \in run.pc..(n - 1) BY <1>1
  <2>2. Done(Steps[i]) BY <2>1 DEF SetupInv, RunGood
  <2>3. QED BY <2>2 DEF Done, MintOf, Object
<1>4. RunGood' BY <1>1, <1>3 DEF RunGood, SetupInv
<1>5. Late => Late' BY <1>1 DEF Late
<1>6. QED BY <1>2, <1>4, <1>5, Frame

\* A run that ends.
LEMMA Dies ==
  ASSUME SetupInv, run' = Off, UNCHANGED <<passed, keyFile, generated, multiplier, chain, held,
                                           flight>>,
         \/ book' = book
         \/ BookGood' /\ book'.mints = generated /\ book'.late = run.passed /\ book'.saved,
         told' \subseteq Labels,
         \A l \in told' : l \in told \/ (l \in keyFile /\ generated[l] = 1
                                         /\ multiplier[<<l, 1>>] = "old" /\ l \in Pending /\ Late),
         doubts' \in [Accounts -> Nat], mishaps' \in 0..MAX_MISHAPS,
         \A a \in Accounts : doubts'[a] <= mishaps'
  PROVE  SetupInv'
<1>1. /\ Off \in RunRecord /\ Off.pc = 0 /\ Off.phase = "read" /\ Off.slot = 0
      /\ Off.verdict = "none" /\ ~Off.passed
  <2>1. Len(Steps) \in Nat BY StepsAre
  <2>2. 0 \in 0..Len(Steps) BY <2>1
  <2>3. QED BY <2>2 DEF Off, RunRecord
<1>2. Types'
  <2>1. /\ book'.mints \in [Labels -> 0..MAX_KEYS] /\ book'.late \in BOOLEAN
        /\ book'.saved \in BOOLEAN
    BY DEF SetupInv, Types, RunRecord
  <2>2. QED BY <1>1, <2>1 DEF SetupInv, Types
<1>3. RunGood' BY <1>1 DEF RunGood
<1>4. Late => Late' BY <1>1 DEF Late
<1>5. \A l \in Labels : generated[l] \in Nat /\ generated'[l] = generated[l]
  BY DevnetSetupAssumption DEF SetupInv, Types
<1>6. \A i \in DOMAIN flight' : FlightGood(flight[i])' BY <1>4, <1>5, FlightKept
<1>7. ASSUME NEW l \in Labels PROVE KeyGood(l)'
  <2>1. KeyGood(l) /\ generated[l] \in Nat BY <1>5 DEF SetupInv
  <2>2. l \in told' => l \in told \/ (l \in keyFile /\ generated[l] = 1
                                     /\ multiplier[<<l, 1>>] = "old" /\ l \in Pending /\ Late)
    OBVIOUS
  <2> HIDE DEF Late
  <2>3. QED BY <1>4, <2>1, <2>2 DEF KeyGood
<1>8. BookGood' BY DEF SetupInv, BookGood, BookIsTrue
<1>9. QED BY <1>2, <1>3, <1>6, <1>7, <1>8 DEF SetupInv

-----------------------------------------------------------------------------
(* The steps of a run *)

\* A top up is of an account there is.
LEMMA AccountIs ==
  ASSUME SetupInv, run.pc > 0, TopsUp(Step)
  PROVE  /\ Account(Step) \in Accounts
         /\ Account(Step) = <<<<Step.of, Object(Step)[3]>>, Step.op>>
<1>1. Types /\ RunGood BY DEF SetupInv
<1>2. Step \in StepSet /\ Step = Steps[run.pc] /\ run.pc \in 1..run.pc
  <2>1. run.pc \in 1..Len(Steps) /\ Step \in StepSet /\ Step = Steps[run.pc]
    BY <1>1, StepOfRun
  <2>2. Len(Steps) \in Nat BY StepsAre
  <2>3. QED BY <2>1, <2>2
<1>3. CASE Step.op \in {"wallet", "keeper"}
  <2>1. Step.op \in LabelOps /\ Step.op # "mint" /\ Step.op # "liquidity" /\ Step.op # "vault"
    BY <1>3 DEF LabelOps
  <2>2. Step.of \in Labels BY <1>2, <2>1, StepForms
  <2>3. Step.of \in keyFile BY <1>1, <1>2, <2>1, KeyKnown
  <2>4. MintOf(Step.of) \in Mints /\ MintOf(Step.of) = <<Step.of, generated[Step.of]>>
    BY <1>1, <2>2, <2>3, MintKnown DEF SetupInv
  <2>5. Account(Step) = <<MintOf(Step.of), Step.op>> BY <2>1 DEF Account
  <2>6. Object(Step)[3] = generated[Step.of] BY <2>1, <2>2 DEF Object
  <2>7. QED BY <1>3, <2>4, <2>5, <2>6 DEF Accounts
<1>4. CASE Step.op = "liquidity"
  <2>1. Step.of = "SOL" /\ Step.of \notin Labels BY <1>2, <1>4, StepForms
  <2>2. Account(Step) = <<<<"SOL", 1>>, "liquidity">> BY <1>4 DEF Account
  <2>3. Object(Step)[3] = 1 BY <1>4, <2>1 DEF Object
  <2>4. QED BY <1>4, <2>1, <2>2, <2>3 DEF Accounts
<1>5. QED BY <1>3, <1>4 DEF TopsUp

\* A shortfall is of at least one unit and at most the target, and tops up to it.
LEMMA ShortfallIs ==
  ASSUME SetupInv, run.pc > 0, TopsUp(Step), Shortfall(Step) # 0
  PROVE  /\ Shortfall(Step) \in 1..Target
         /\ held[Account(Step)] + Shortfall(Step) = Target
<1> DEFINE h == held[Account(Step)]
           least == IF Step.op = "liquidity" THEN Refill ELSE Target
<1>1. h \in Nat BY AccountIs DEF SetupInv, Types
<1>2. Target \in Nat \ {0} /\ Refill \in 1..Target BY DevnetSetupAssumption
<1>3. Shortfall(Step) = IF h >= least THEN 0 ELSE Target - h BY DEF Shortfall
<1> HIDE DEF h
<1>4. QED BY <1>1, <1>2, <1>3 DEF h

LEMMA StartStep == ASSUME SetupInv, Start PROVE SetupInv'
<1> DEFINE r == [Off EXCEPT !.pc = 1, !.passed = passed]
<1>1. /\ run' = r /\ run.pc = 0
      /\ UNCHANGED <<passed, keyFile, generated, multiplier, chain, held, flight, told, book,
                     doubts, mishaps>>
  BY DEF Start
<1>2. /\ r \in RunRecord /\ r.pc = 1 /\ r.phase = "read" /\ r.slot = 0
      /\ r.verdict = "none" /\ r.passed = passed
  <2>1. Len(Steps) \in Nat \ {0} /\ passed \in BOOLEAN BY StepsAre DEF SetupInv, Types
  <2>2. 1 \in 0..Len(Steps) BY <2>1
  <2>3. QED BY <2>1, <2>2 DEF Off, RunRecord
<1> HIDE DEF r
<1>3. Types' BY <1>1, <1>2 DEF SetupInv, Types
<1>4. RunGood' BY <1>1, <1>2 DEF RunGood
<1>5. Late => Late' BY <1>1, <1>2 DEF Late
<1>6. QED BY <1>1, <1>3, <1>4, <1>5, Frame

\* A run that goes on sending, or sends again.
LEMMA Prepares ==
  ASSUME SetupInv, run.pc > 0, Step.op \notin {"feed", "verify", "save"},
         Step.op = "mint" => Step.of \in keyFile,
         run' \in RunRecord, run'.pc = run.pc, run'.phase = "send", run'.slot = 0,
         run'.verdict = "none", run'.passed = run.passed,
         run'.short \in (IF TopsUp(Step) THEN 1..Target ELSE {0}),
         UNCHANGED <<passed, keyFile, generated, multiplier, chain, held, flight, told, book>>,
         doubts' \in [Accounts -> Nat], mishaps' \in 0..MAX_MISHAPS,
         \A a \in Accounts : doubts'[a] <= mishaps'
  PROVE  SetupInv'
<1>1. Types' BY DEF SetupInv, Types
<1>2. \A i \in 1..(run.pc - 1) : Done(Steps[i])'
  <2> SUFFICES ASSUME NEW i \in 1..(run.pc - 1) PROVE Done(Steps[i])' OBVIOUS
  <2>1. Done(Steps[i]) BY DEF SetupInv, RunGood
  <2>2. QED BY <2>1 DEF Done, MintOf, Object
<1>3. Step' = Step BY DEF Step
<1>4. RunGood' BY <1>2, <1>3 DEF RunGood, SetupInv, TopsUp
<1>5. Late => Late' BY DEF Late
<1>6. QED BY <1>1, <1>4, <1>5, Frame

\* A run that goes on to the next step.
LEMMA NextStep ==
  ASSUME SetupInv, run.pc > 0, Step.op # "save", Done(Step), run.phase # "wait" \/ run.verdict = "ok",
         run' \in {[run EXCEPT !.pc = @ + 1], [run EXCEPT !.phase = "read", !.pc = @ + 1],
                   [run EXCEPT !.phase = "read", !.pc = @ + 1, !.slot = 0, !.verdict = "none",
                               !.short = 0]},
         run'.phase = "read", run.phase = "wait" => run'.slot = 0 /\ run'.verdict = "none",
         UNCHANGED <<passed, keyFile, generated, multiplier, chain, held, flight, told, book,
                     doubts, mishaps>>
  PROVE  SetupInv'
<1>1. Types /\ RunGood /\ run \in RunRecord BY DEF SetupInv, Types
<1>2. run.pc + 1 \in 1..Len(Steps) /\ run.pc \in Nat /\ Len(Steps) \in Nat /\ Step = Steps[run.pc]
  <2>1. /\ run.pc \in 1..Len(Steps) /\ run.pc + 1 \in 1..Len(Steps)
        /\ Len(Steps) \in Nat /\ Step = Steps[run.pc]
    BY <1>1, StepOfRun
  <2>2. run.pc \in Nat BY <2>1
  <2>3. QED BY <2>1, <2>2
<1>3. run.phase # "wait" => run.slot = 0 /\ run.verdict = "none" BY <1>1 DEF RunGood
<1>4. run' \in RunRecord /\ run'.pc = run.pc + 1 /\ run'.passed = run.passed
  <2>1. run.pc + 1 \in 0..Len(Steps) BY <1>2
  <2>2. CASE run' = [run EXCEPT !.pc = @ + 1] BY <1>1, <2>1, <2>2 DEF RunRecord
  <2>3. CASE run' = [run EXCEPT !.phase = "read", !.pc = @ + 1]
    BY <1>1, <2>1, <2>3 DEF RunRecord
  <2>4. CASE run' = [run EXCEPT !.phase = "read", !.pc = @ + 1, !.slot = 0, !.verdict = "none",
                                !.short = 0]
    BY <1>1, <2>1, <2>4 DEF RunRecord
  <2>5. QED BY <2>2, <2>3, <2>4
<1>5. run'.slot = 0 /\ run'.verdict = "none" BY <1>1, <1>3 DEF RunRecord
<1>6. \A i \in run.pc..(run.pc + 1 - 1) : Done(Steps[i]) BY <1>2
<1>7. run.pc + 1 > run.pc BY <1>2
<1>8. QED BY <1>2, <1>4, <1>5, <1>6, <1>7, Advances

\* What a step looks for and finds is done; what it does not find, it sends.
LEMMA LookStep == ASSUME SetupInv, Look PROVE SetupInv'
<1>1. /\ run.pc > 0 /\ run.phase = (IF Step.op = "mint" THEN "look" ELSE "read")
      /\ Step.op \notin {"feed", "verify", "save"}
      /\ UNCHANGED <<passed, keyFile, generated, multiplier, chain, held, flight, told, book,
                     doubts, mishaps>>
  BY DEF Look, Reads
<1>2. Types /\ RunGood /\ run \in RunRecord BY DEF SetupInv, Types
<1>3. /\ run.phase # "wait" /\ run.slot = 0 /\ run.verdict = "none"
      /\ Step.op = "mint" => Step.of \in keyFile
  BY <1>1, <1>2 DEF RunGood
<1>4. CASE Missing(Step)
  <2> DEFINE short == IF TopsUp(Step) THEN Shortfall(Step) ELSE 0
  <2>1. run' = [run EXCEPT !.phase = "send", !.short = short] BY <1>4 DEF Look
  <2>2. short \in (IF TopsUp(Step) THEN 1..Target ELSE {0}) /\ short \in Nat
    <3>1. CASE TopsUp(Step)
      <4>1. Shortfall(Step) # 0 BY <1>4, <3>1 DEF Missing, TopsUp, Unretried
      <4>2. Shortfall(Step) \in 1..Target BY <1>1, <3>1, <4>1, ShortfallIs
      <4>3. Target \in Nat BY DevnetSetupAssumption
      <4>4. QED BY <3>1, <4>2, <4>3
    <3>2. CASE ~TopsUp(Step) BY <3>2
    <3>3. QED BY <3>1, <3>2
  <2> HIDE DEF short
  <2>3. /\ run' \in RunRecord /\ run'.pc = run.pc /\ run'.phase = "send" /\ run'.slot = 0
        /\ run'.verdict = "none" /\ run'.passed = run.passed /\ run'.short = short
    BY <1>2, <1>3, <2>1, <2>2 DEF RunRecord
  <2>4. /\ doubts' \in [Accounts -> Nat] /\ mishaps' \in 0..MAX_MISHAPS
        /\ \A a \in Accounts : doubts'[a] <= mishaps'
    BY <1>1, <1>2 DEF Types
  <2>5. QED BY <1>1, <1>3, <2>2, <2>3, <2>4, Prepares
<1>5. CASE ~Missing(Step)
  <2>1. run' = [run EXCEPT !.phase = "read", !.pc = @ + 1] /\ run'.phase = "read"
    BY <1>2, <1>5 DEF Look, Reused, RunRecord
  <2>2. Done(Step) BY <1>1, <1>3, <1>5 DEF Done, Missing, Unretried
  <2>3. QED BY <1>1, <1>3, <2>1, <2>2, NextStep
<1>6. QED BY <1>4, <1>5

LEMMA NoKeeperStep == ASSUME SetupInv, NoKeeper PROVE SetupInv'
<1>1. /\ run.pc > 0 /\ run.phase = "read" /\ Step.op = "keeper accounts"
      /\ run' = [run EXCEPT !.pc = @ + 2]
      /\ UNCHANGED <<passed, keyFile, generated, multiplier, chain, held, flight, told, book,
                     doubts, mishaps>>
  BY DEF NoKeeper
<1>2. Types /\ RunGood /\ run \in RunRecord BY DEF SetupInv, Types
<1>3. /\ run.pc + 2 \in 1..Len(Steps) /\ Steps[run.pc + 1].op = "keeper" /\ run.pc \in Nat
      /\ Len(Steps) \in Nat /\ Step = Steps[run.pc]
  <2>1. /\ run.pc \in 1..Len(Steps) /\ run.pc + 2 \in 1..Len(Steps)
        /\ Steps[run.pc + 1].op = "keeper" /\ Len(Steps) \in Nat /\ Step = Steps[run.pc]
    BY <1>1, <1>2, StepOfRun
  <2>2. run.pc \in Nat BY <2>1
  <2>3. QED BY <2>1, <2>2
<1>4. run.slot = 0 /\ run.verdict = "none" BY <1>1, <1>2 DEF RunGood
<1>5. /\ run' \in RunRecord /\ run'.pc = run.pc + 2 /\ run'.phase = "read" /\ run'.slot = 0
      /\ run'.verdict = "none" /\ run'.passed = run.passed
  <2>1. run.pc + 2 \in 0..Len(Steps) BY <1>3
  <2>2. QED BY <1>1, <1>2, <1>4, <2>1 DEF RunRecord
<1>6. Done(Steps[run.pc]) /\ Done(Steps[run.pc + 1]) BY <1>1, <1>3 DEF Done
<1> DEFINE n == run.pc + 2
<1>7. \A i \in run.pc..(n - 1) : i = run.pc \/ i = run.pc + 1 BY <1>3
<1>8. n > run.pc /\ n \in 1..Len(Steps) /\ run'.pc = n BY <1>3, <1>5
<1> HIDE DEF n
<1>9. \A i \in run.pc..(n - 1) : Done(Steps[i]) BY <1>6, <1>7
<1>10. QED BY <1>1, <1>3, <1>5, <1>8, <1>9, Advances

LEMMA SendStep == ASSUME SetupInv, Send PROVE SetupInv'
<1> DEFINE x == [step |-> Step, object |-> Object(Step), amount |-> run.short,
                 late |-> run.passed]
<1>1. PICK i \in Slots :
        /\ run.pc > 0 /\ run.phase = "send" /\ i \notin DOMAIN flight
        /\ flight' = [k \in DOMAIN flight \cup {i} |-> IF k = i THEN x ELSE flight[k]]
        /\ run' = [run EXCEPT !.phase = "wait", !.slot = i]
        /\ UNCHANGED <<passed, keyFile, generated, multiplier, chain, held, told, book, doubts,
                       mishaps>>
  BY DEF Send
<1>2. Types /\ RunGood /\ run \in RunRecord /\ \A l \in Labels : KeyGood(l)
  BY DEF SetupInv, Types
<1>3. /\ run.pc \in 1..Len(Steps) /\ Len(Steps) \in Nat /\ Step \in StepSet
      /\ Step = Steps[run.pc]
  BY <1>1, <1>2, StepOfRun
<1>4. /\ run.verdict = "none" /\ (run.passed => passed)
      /\ Step.op \notin {"feed", "verify", "save"}
      /\ run.short \in (IF TopsUp(Step) THEN 1..Target ELSE {0})
      /\ Step.op = "mint" => Step.of \in keyFile
      /\ \A j \in 1..(run.pc - 1) : Done(Steps[j])
  BY <1>1, <1>2 DEF RunGood
<1>5. /\ run' \in RunRecord /\ run'.pc = run.pc /\ run'.phase = "wait" /\ run'.slot = i
      /\ run'.verdict = "none" /\ run'.passed = run.passed /\ run'.short = run.short
  <2>1. i \in {0} \cup Slots /\ run' = [run EXCEPT !.phase = "wait", !.slot = i] BY <1>1
  <2>2. run \in RunRecord /\ run.verdict = "none" BY <1>2, <1>4
  <2>3. QED BY <2>1, <2>2 DEF RunRecord
<1>6. Step.op \in LabelOps => /\ Step.of \in Labels /\ Step.of \in keyFile
                              /\ generated[Step.of] \in {1, 2}
  <2>1. SUFFICES ASSUME Step.op \in LabelOps
                 PROVE  Step.of \in Labels /\ Step.of \in keyFile /\ generated[Step.of] \in {1, 2}
    OBVIOUS
  <2>2. Step.of \in Labels BY <1>3, <2>1, StepForms
  <2>3. run.pc \in 1..run.pc BY <1>3
  <2>4. Step.of \in keyFile BY <1>1, <1>2, <1>3, <2>1, <2>3, KeyKnown
  <2>5. /\ generated[Step.of] \in {0, 1, 2} /\ generated[Step.of] >= 1
    BY <1>2, <2>2, <2>4, MintKnown DEF KeyGood
  <2>6. QED BY <2>2, <2>4, <2>5
<1>7. ObjectGood(Step, Object(Step))
  <2>1. CASE Step.op \in LabelOps
    <3>1. Step.op # "vault" BY <2>1 DEF LabelOps
    <3>2. Object(Step) = <<Step.op, Step.of, generated[Step.of]>> BY <1>6, <2>1, <3>1 DEF Object
    <3>3. generated[Step.of] \in 1..generated[Step.of] BY <1>6, <2>1
    <3>4. QED BY <1>6, <2>1, <3>1, <3>2, <3>3 DEF ObjectGood
  <2>2. CASE Step.op \notin LabelOps
    <3>1. Step.op = "vault" \/ Step.of \notin Labels BY <1>3, <1>4, <2>2, StepForms
    <3>2. QED BY <3>1 DEF ObjectGood, Object
  <2>3. QED BY <2>1, <2>2
<1>8. run.passed => Late
  <2>1. run.passed => passed BY <1>4
  <2>2. QED BY <2>1, Zenon DEF Late
<1>9. Step.op = "mint" /\ Object(Step)[3] = 2 => run.passed
  <2>1. SUFFICES ASSUME Step.op = "mint", Object(Step)[3] = 2 PROVE run.passed OBVIOUS
  <2>2. Step.of \in Labels BY <1>6, <2>1 DEF LabelOps
  <2>3. generated[Step.of] = 2 BY <2>1, <2>2 DEF Object
  <2>4. Late BY <1>2, <2>2, <2>3 DEF KeyGood
  <2>5. QED BY <1>1, <2>4 DEF Late
<1>10. FlightGood(x)
  <2>1. run.passed \in BOOLEAN BY <1>2 DEF RunRecord
  <2>2. QED BY <1>3, <1>4, <1>7, <1>8, <1>9, <2>1 DEF FlightGood
<1>11. /\ flight'[i] = x /\ DOMAIN flight' = DOMAIN flight \cup {i}
       /\ \A k \in DOMAIN flight : flight'[k] = flight[k]
  BY <1>1
<1>12. Step' = Step /\ Object(Step)' = Object(Step) BY <1>1, <1>5 DEF Step, Object
<1>13. /\ x.step = Step /\ x.object = Object(Step) /\ x.amount = run.short
       /\ x.late = run.passed
  OBVIOUS
<1>14. flight'[i] = [step |-> Step', object |-> Object(Step)', amount |-> run'.short,
                     late |-> run'.passed]
  BY <1>5, <1>11, <1>12
<1> HIDE DEF x
<1>15. Late' = Late BY <1>1, <1>5 DEF Late
<1>16. FlightGood(flight[i])'
  BY <1>1, <1>10, <1>11, <1>15 DEF FlightGood, ObjectGood, TopsUp
<1>17. Types' BY <1>1, <1>2, <1>5, <1>11 DEF Types
<1>18. \A j \in 1..(run.pc - 1) : Done(Steps[j])' BY <1>1, <1>4, <1>5 DEF Done, MintOf, Object
<1>19. RunGood'
  <2>1. run'.pc # 0 BY <1>1, <1>5
  <2>2. run'.passed => passed' BY <1>1, <1>4, <1>5
  <2>3. /\ Step'.op = "mint" => Step'.of \in keyFile'
        /\ Step'.op \notin {"feed", "verify", "save"}
        /\ run'.short \in (IF TopsUp(Step') THEN 1..Target ELSE {0})
    BY <1>1, <1>4, <1>5, <1>12
  <2>4. run'.slot \in DOMAIN flight' BY <1>5, <1>11
  <2>5. QED BY <1>5, <1>14, <1>18, <2>1, <2>2, <2>3, <2>4 DEF RunGood, TopsUp
<1>20. QED BY <1>1, <1>11, <1>15, <1>16, <1>17, <1>19, Frame

LEMMA ConfirmStep == ASSUME SetupInv, Confirm PROVE SetupInv'
<1>1. /\ run.verdict = "ok"
      /\ run' = [run EXCEPT !.phase = "read", !.pc = @ + 1, !.slot = 0, !.verdict = "none",
                            !.short = 0]
      /\ UNCHANGED <<passed, keyFile, generated, multiplier, chain, held, flight, told, book,
                     doubts, mishaps>>
  BY DEF Confirm
<1>2. RunGood /\ run \in RunRecord BY DEF SetupInv, Types
<1>3. run.phase = "wait" /\ run.pc # 0 /\ Done(Step) /\ Step.op # "save"
  BY <1>1, <1>2 DEF RunGood, Off
<1>4. run.pc > 0
  <2>1. Len(Steps) \in Nat BY StepsAre
  <2>2. run.pc \in 0..Len(Steps) BY <1>2 DEF RunRecord
  <2>3. QED BY <1>3, <2>1, <2>2
<1>5. run'.phase = "read" /\ run'.slot = 0 /\ run'.verdict = "none"
  BY <1>1, <1>2 DEF RunRecord
<1>6. QED BY <1>1, <1>3, <1>4, <1>5, NextStep

LEMMA CheckFeedStep == ASSUME SetupInv, CheckFeed PROVE SetupInv'
<1>1. /\ run.pc > 0 /\ Step.op = "feed" /\ run' = [run EXCEPT !.pc = @ + 1]
      /\ UNCHANGED <<passed, keyFile, generated, multiplier, chain, held, flight, told, book,
                     doubts, mishaps>>
  BY DEF CheckFeed
<1>2. RunGood /\ run \in RunRecord BY DEF SetupInv, Types
<1>3. run.phase = "read" BY <1>1, <1>2 DEF RunGood, RunRecord
<1>4. Done(Step) BY <1>1 DEF Done
<1>5. run'.phase = "read" BY <1>1, <1>2, <1>3 DEF RunRecord
<1>6. QED BY <1>1, <1>3, <1>4, <1>5, NextStep

\* A top up that the script gives up on is counted.
LEMMA DoubtTypes ==
  ASSUME SetupInv, run.pc > 0, Mishap, Doubt \/ UNCHANGED doubts
  PROVE  /\ doubts' \in [Accounts -> Nat] /\ mishaps' \in 0..MAX_MISHAPS
         /\ \A a \in Accounts : doubts'[a] <= mishaps'
<1>1. /\ doubts \in [Accounts -> Nat] /\ mishaps \in 0..MAX_MISHAPS
      /\ \A a \in Accounts : doubts[a] <= mishaps
  BY DEF SetupInv, Types
<1>2. MAX_MISHAPS \in Nat BY DevnetSetupAssumption
<1>3. mishaps' = mishaps + 1 /\ mishaps' \in 0..MAX_MISHAPS BY <1>1, <1>2 DEF Mishap
<1>4. CASE UNCHANGED doubts BY <1>1, <1>2, <1>3, <1>4
<1>5. CASE TopsUp(Step) /\ Doubt
  <2> DEFINE a == Account(Step)
  <2>1. a \in Accounts BY <1>5, AccountIs
  <2>2. doubts' = [doubts EXCEPT ![a] = @ + 1] BY <1>5 DEF Doubt
  <2> HIDE DEF a
  <2>3. \A b \in Accounts : doubts'[b] \in Nat /\ (doubts'[b] = doubts[b] \/ doubts'[b] = doubts[b] + 1)
    BY <1>1, <2>1, <2>2
  <2>4. doubts' \in [Accounts -> Nat] BY <1>1, <2>1, <2>2
  <2>5. \A b \in Accounts : doubts'[b] <= mishaps' BY <1>1, <1>2, <1>3, <2>3
  <2>6. QED BY <1>3, <2>4, <2>5
<1>6. QED BY <1>4, <1>5 DEF Doubt

LEMMA RejectedStep == ASSUME SetupInv, Rejected PROVE SetupInv'
<1>1. /\ run' = Off
      /\ UNCHANGED <<passed, keyFile, generated, multiplier, chain, held, flight, told, book,
                     doubts, mishaps>>
  BY DEF Rejected, Die
<1>2. /\ doubts' \in [Accounts -> Nat] /\ mishaps' \in 0..MAX_MISHAPS /\ told' \subseteq Labels
      /\ \A a \in Accounts : doubts'[a] <= mishaps'
  BY <1>1 DEF SetupInv, Types
<1>3. QED BY <1>1, <1>2, Dies

LEMMA FailStep == ASSUME SetupInv, Fail PROVE SetupInv'
<1>1. /\ run.pc > 0 /\ Mishap /\ (Doubt \/ UNCHANGED doubts) /\ run' = Off
      /\ UNCHANGED <<passed, keyFile, generated, multiplier, chain, held, flight, told, book>>
  BY DEF Fail, Die
<1>2. told' \subseteq Labels BY <1>1 DEF SetupInv, Types
<1>3. /\ doubts' \in [Accounts -> Nat] /\ mishaps' \in 0..MAX_MISHAPS
      /\ \A a \in Accounts : doubts'[a] <= mishaps'
  BY <1>1, DoubtTypes
<1>4. QED BY <1>1, <1>2, <1>3, Dies

\* A run that does not learn what became of a transaction sends it again, or ends.
LEMMA UnsureStep == ASSUME SetupInv, Unknown \/ Misjudge PROVE SetupInv'
<1>1. /\ run.phase = "wait" /\ Mishap /\ Doubt /\ (run' = Off \/ Resend)
      /\ UNCHANGED <<passed, keyFile, generated, multiplier, chain, held, flight, told, book>>
  BY DEF Unknown, Misjudge, Die
<1>2. RunGood /\ run \in RunRecord BY DEF SetupInv, Types
<1>3. /\ run.pc # 0 /\ Step.op \notin {"feed", "verify", "save"}
      /\ run.short \in (IF TopsUp(Step) THEN 1..Target ELSE {0})
      /\ Step.op = "mint" => Step.of \in keyFile
  BY <1>1, <1>2 DEF RunGood, Off
<1>4. run.pc > 0
  <2>1. Len(Steps) \in Nat BY StepsAre
  <2>2. run.pc \in 0..Len(Steps) BY <1>2 DEF RunRecord
  <2>3. QED BY <1>3, <2>1, <2>2
<1>5. /\ doubts' \in [Accounts -> Nat] /\ mishaps' \in 0..MAX_MISHAPS
      /\ \A a \in Accounts : doubts'[a] <= mishaps'
  BY <1>1, <1>4, DoubtTypes
<1>6. CASE run' = Off
  <2>1. told' \subseteq Labels BY <1>1 DEF SetupInv, Types
  <2>2. QED BY <1>1, <1>5, <1>6, <2>1, Dies
<1>7. CASE Resend
  <2>1. run' = [run EXCEPT !.phase = "send", !.slot = 0, !.verdict = "none"]
    BY <1>7 DEF Resend
  <2>2. /\ run' \in RunRecord /\ run'.pc = run.pc /\ run'.phase = "send" /\ run'.slot = 0
        /\ run'.verdict = "none" /\ run'.passed = run.passed /\ run'.short = run.short
    BY <1>2, <2>1 DEF RunRecord
  <2>3. QED BY <1>1, <1>3, <1>4, <1>5, <2>2, Prepares
<1>8. QED BY <1>1, <1>6, <1>7

\* A mint that is worth something else than the real one is an old one: the multiplier
\* changed after it was made.
LEMMA VerifyStep == ASSUME SetupInv, Verify PROVE SetupInv'
<1> DEFINE l == Step.of
           g == generated[l]
<1>1. /\ run.pc > 0 /\ Step.op = "verify"
      /\ UNCHANGED <<passed, keyFile, generated, multiplier, chain, held, flight, book, doubts,
                     mishaps>>
      /\ IF Matches(l) THEN run' = [run EXCEPT !.pc = @ + 1] /\ UNCHANGED told
         ELSE run' = Off /\ told' = told \cup {l}
  BY DEF Verify, Die
<1>2. Types /\ RunGood /\ run \in RunRecord /\ \A k \in Labels : KeyGood(k)
  BY DEF SetupInv, Types
<1>3. CASE Matches(l)
  <2>1. run' = [run EXCEPT !.pc = @ + 1] /\ UNCHANGED told BY <1>1, <1>3
  <2>2. run.phase = "read" BY <1>1, <1>2 DEF RunGood, RunRecord
  <2>3. Done(Step) BY <1>1, <1>3 DEF Done, Matches
  <2>4. run'.phase = "read" BY <1>2, <2>1, <2>2 DEF RunRecord
  <2>5. QED BY <1>1, <2>1, <2>2, <2>3, <2>4, NextStep
<1>4. CASE ~Matches(l)
  <2>1. run' = Off /\ told' = told \cup {l} BY <1>1, <1>4
  <2>2. /\ run.pc \in 1..Len(Steps) /\ Len(Steps) \in Nat /\ Step \in StepSet
        /\ Step = Steps[run.pc]
    BY <1>1, <1>2, StepOfRun
  <2>3. Step.op \in LabelOps \ {"mint"} /\ l \in Labels BY <1>1, <2>2, StepForms DEF LabelOps
  <2>4. l \in keyFile
    <3>1. run.pc \in 1..run.pc BY <2>2
    <3>2. QED BY <1>1, <1>2, <2>2, <2>3, <3>1, KeyKnown
  <2>5. multiplier[MintOf(l)] # "none"
    <3>1. PICK j \in 1..(run.pc - 1) : Steps[j] = MintStep(l) BY <2>2, <2>3, StepsAre
    <3>2. Steps[j].op = "mint" /\ Steps[j].of = l BY <3>1 DEF MintStep
    <3>3. Done(Steps[j]) BY <1>2 DEF RunGood
    <3>4. QED BY <3>2, <3>3 DEF Done
  <2>6. g \in {1, 2} /\ MintOf(l) = <<l, g>> /\ MintOf(l) \in Mints
    <3>1. g \in {0, 1, 2} /\ g \in 1..MAX_KEYS /\ MAX_KEYS \in Nat BY <1>2, <2>3, <2>4, MintKnown
    <3>2. QED BY <1>2, <2>3, <2>4, <3>1, MintKnown
  <2>7. multiplier[MintOf(l)] \in {"old", "new"} BY <1>2, <2>5, <2>6 DEF Types
  <2>8. g \in 1..MAX_KEYS BY <1>2, <2>3, <2>4, MintKnown
  <2>9. Late => run.passed BY <1>1 DEF Late
  <2>10. multiplier[MintOf(l)] # (IF l \in Pending /\ run.passed THEN "new" ELSE "old")
    BY <1>4 DEF Matches, Live
  <2>11. multiplier[MintOf(l)] = "new" => l \in Pending /\ Late
    BY <1>2, <2>3, <2>6, <2>8 DEF KeyGood
  <2>12. multiplier[MintOf(l)] = "old" /\ l \in Pending /\ run.passed
    BY <2>7, <2>9, <2>10, <2>11
  <2>13. g = 1 BY <1>2, <2>3, <2>6, <2>12 DEF KeyGood
  <2>14. Late
    <3>1. passed BY <1>2, <2>12 DEF RunGood
    <3>2. QED BY <2>12, <3>1, Zenon DEF Late
  <2>15. multiplier[<<l, 1>>] = "old" BY <2>6, <2>12, <2>13
  <2>16. /\ told' \subseteq Labels /\ doubts' \in [Accounts -> Nat]
         /\ mishaps' \in 0..MAX_MISHAPS /\ \A a \in Accounts : doubts'[a] <= mishaps'
    BY <1>1, <1>2, <2>1, <2>3 DEF Types
  <2> HIDE DEF l, Late
  <2>17. \A k \in told' : k \in told \/ k = l BY <2>1
  <2>18. generated[l] = 1 /\ l \in Pending /\ l \in keyFile BY <2>4, <2>12, <2>13
  <2>19. \A k \in told' : k \in told \/ (k \in keyFile /\ generated[k] = 1
                                         /\ multiplier[<<k, 1>>] = "old" /\ k \in Pending /\ Late)
    BY <2>14, <2>15, <2>17, <2>18
  <2>20. UNCHANGED <<passed, keyFile, generated, multiplier, chain, held, flight>> /\ book' = book
    BY <1>1
  <2>21. QED BY <2>1, <2>16, <2>19, <2>20, Dies
<1>5. QED BY <1>3, <1>4

\* A book that is saved names what its run saw done.
LEMMA SaveStep == ASSUME SetupInv, Save PROVE SetupInv'
<1>1. /\ run.pc > 0 /\ Step.op = "save"
      /\ book' = [saved |-> TRUE, late |-> run.passed, mints |-> generated] /\ run' = Off
      /\ UNCHANGED <<passed, keyFile, generated, multiplier, chain, held, flight, told, doubts,
                     mishaps>>
  BY DEF Save
<1>2. Types /\ RunGood /\ run \in RunRecord /\ \A k \in Labels : KeyGood(k)
  BY DEF SetupInv, Types
<1>3. run.pc \in 1..Len(Steps) /\ Len(Steps) \in Nat /\ Step = Steps[run.pc]
  BY <1>1, <1>2, StepOfRun
<1>4. run.pc = Len(Steps) BY <1>1, <1>3, StepsAre
<1>5. ASSUME NEW x, Early(x) PROVE Done(x)
  <2>1. PICK i \in 1..(Len(Steps) - 1) : Steps[i] = x BY <1>5 DEF Early
  <2>2. i \in 1..(run.pc - 1) BY <1>4, <2>1
  <2>3. QED BY <1>2, <2>1, <2>2 DEF RunGood
<1>6. ASSUME NEW v \in DOMAIN Vaults PROVE <<"vault", Vaults[v].symbol, 0>> \in chain
  <2> DEFINE s == [op |-> "vault", of |-> Vaults[v].symbol]
  <2>1. Done(s) BY <1>5, StepsAre
  <2>2. s.op = "vault" /\ Object(s) = <<"vault", Vaults[v].symbol, 0>> BY DEF Object
  <2> HIDE DEF s
  <2>3. Object(s) \in chain BY <2>1, <2>2 DEF Done
  <2>4. QED BY <2>2, <2>3
<1>7. ASSUME NEW l \in Labels
      PROVE  /\ multiplier[<<l, generated[l]>>] = Live(l, run.passed)
             /\ <<"wrapper", l, generated[l]>> \in chain
             /\ <<"accounts", l, generated[l]>> \in chain
             /\ generated[l] \in 1..MAX_KEYS
  <2> DEFINE s == [op |-> "verify", of |-> l]
             w == [op |-> "wrapper", of |-> l]
             a == [op |-> "accounts", of |-> l]
  <2>1. Early(s) /\ Early(w) /\ Early(a) BY StepsAre
  <2>2. Done(s) /\ Done(w) /\ Done(a) BY <1>5, <2>1
  <2>3. /\ s.op = "verify" /\ s.of = l /\ w.op = "wrapper" /\ a.op = "accounts"
        /\ Object(w) = <<"wrapper", l, generated[l]>> /\ Object(a) = <<"accounts", l, generated[l]>>
    BY DEF Object
  <2>4. PICK i \in 1..(Len(Steps) - 1) : Steps[i] = s BY <2>1 DEF Early
  <2> HIDE DEF s, w, a
  <2>5. i \in 1..run.pc /\ i # run.pc BY <1>3, <1>4
  <2>6. l \in keyFile
    <3>1. Steps[i].op \in LabelOps /\ Steps[i].of = l BY <2>3, <2>4 DEF LabelOps
    <3>2. QED BY <1>1, <1>2, <2>5, <3>1, KeyKnown
  <2>7. generated[l] \in 1..MAX_KEYS BY <1>2, <2>6, MintKnown
  <2>8. multiplier[MintOf(l)] = Live(l, run.passed) BY <2>2, <2>3 DEF Done
  <2>9. Object(w) \in chain /\ Object(a) \in chain BY <2>2, <2>3 DEF Done
  <2>10. QED BY <2>3, <2>7, <2>8, <2>9 DEF MintOf
<1>8. <<"owner", "USDC", 1>> \in chain /\ <<"liquidity accounts", "USDC", 1>> \in chain
  <2> DEFINE s == [op |-> "owner", of |-> "USDC"]
             a == [op |-> "liquidity accounts", of |-> "USDC"]
  <2>1. Done(s) /\ Done(a) BY <1>5, StepsAre
  <2>2. "USDC" \notin Labels BY DevnetSetupAssumption
  <2>3. /\ s.op = "owner" /\ a.op = "liquidity accounts"
        /\ Object(s) = <<"owner", "USDC", 1>> /\ Object(a) = <<"liquidity accounts", "USDC", 1>>
    BY <2>2 DEF Object
  <2> HIDE DEF s, a
  <2>4. Object(s) \in chain /\ Object(a) \in chain BY <2>1, <2>3 DEF Done
  <2>5. QED BY <2>3, <2>4
<1>9. book'.saved /\ book'.late = run.passed /\ book'.mints = generated BY <1>1
<1>10. BookIsTrue'
  <2>1. /\ \A v \in DOMAIN Vaults : <<"vault", Vaults[v].symbol, 0>> \in chain'
        /\ <<"owner", "USDC", 1>> \in chain' /\ <<"liquidity accounts", "USDC", 1>> \in chain'
    BY <1>1, <1>6, <1>8
  <2>2. \A l \in Labels :
          /\ multiplier'[<<l, book'.mints[l]>>] = Live(l, book'.late)
          /\ <<"wrapper", l, book'.mints[l]>> \in chain'
          /\ <<"accounts", l, book'.mints[l]>> \in chain'
    BY <1>1, <1>7, <1>9
  <2>3. QED BY <2>1, <2>2 DEF BookIsTrue
<1>11. BookGood' BY <1>7, <1>9, <1>10 DEF BookGood
<1>12. /\ told' \subseteq Labels /\ doubts' \in [Accounts -> Nat]
       /\ mishaps' \in 0..MAX_MISHAPS /\ \A a \in Accounts : doubts'[a] <= mishaps'
  BY <1>1, <1>2 DEF Types
<1>13. QED BY <1>1, <1>9, <1>11, <1>12, Dies

\* A label whose keypair is not there gets one: its first, or a second because the
\* operator deleted the first.
LEMMA OpenKeyStep == ASSUME SetupInv, OpenKey PROVE SetupInv'
<1> DEFINE l == Step.of
           g == generated[l]
<1>1. /\ run.pc > 0 /\ run.phase = "read" /\ Step.op = "mint" /\ LoadKey(l)
      /\ run' = [run EXCEPT !.phase = "look"]
      /\ UNCHANGED <<passed, multiplier, chain, held, flight, told, book, doubts, mishaps>>
  BY DEF OpenKey
<1>2. /\ Types /\ RunGood /\ run \in RunRecord /\ \A k \in Labels : KeyGood(k)
      /\ generated \in [Labels -> 0..MAX_KEYS] /\ keyFile \subseteq Labels
  BY DEF SetupInv, Types
<1>3. /\ run.pc \in 1..Len(Steps) /\ Len(Steps) \in Nat /\ Step \in StepSet
      /\ Step = Steps[run.pc]
  BY <1>1, <1>2, StepOfRun
<1>4. l \in Labels BY <1>1, <1>3, StepForms DEF LabelOps
<1>5. g \in {0, 1, 2} /\ g \in 0..MAX_KEYS /\ MAX_KEYS \in Nat \ {0} BY <1>2, <1>4, MintKnown
<1>6. /\ l \in keyFile' /\ keyFile' = keyFile \cup {l} /\ generated' \in [Labels -> 0..MAX_KEYS]
      /\ \A k \in Labels : k # l => generated'[k] = generated[k]
      /\ IF l \in keyFile THEN generated'[l] = g
         ELSE generated'[l] = g + 1 /\ g < MAX_KEYS
  <2>1. CASE l \in keyFile BY <1>1, <1>2, <2>1 DEF LoadKey
  <2>2. CASE l \notin keyFile
    <3>1. g < MAX_KEYS /\ generated' = [generated EXCEPT ![l] = g + 1] /\ keyFile' = keyFile \cup {l}
      BY <1>1, <2>2 DEF LoadKey
    <3>2. g + 1 \in 0..MAX_KEYS BY <1>5, <3>1
    <3> HIDE DEF l, g
    <3>3. QED BY <1>2, <1>4, <2>2, <3>1, <3>2
  <2>3. QED BY <2>1, <2>2
<1>7. /\ run.slot = 0 /\ run.verdict = "none" /\ (run.passed => passed)
      /\ \A j \in 1..(run.pc - 1) : Done(Steps[j])
  BY <1>1, <1>2 DEF RunGood
<1>8. /\ run' \in RunRecord /\ run'.pc = run.pc /\ run'.phase = "look" /\ run'.slot = 0
      /\ run'.verdict = "none" /\ run'.passed = run.passed
  BY <1>1, <1>2, <1>7 DEF RunRecord
<1>9. Late' = Late BY <1>1, <1>8 DEF Late
<1>10. Types' BY <1>1, <1>2, <1>4, <1>6, <1>8 DEF Types
<1>11. \A j \in 1..(run.pc - 1) : Done(Steps[j])'
  <2> SUFFICES ASSUME NEW j \in 1..(run.pc - 1) PROVE Done(Steps[j])' OBVIOUS
  <2>1. j \in 1..run.pc /\ j # run.pc /\ j \in 1..Len(Steps) BY <1>3
  <2>2. Steps[j] \in StepSet BY <2>1, StepsAre
  <2>3. Steps[j].op \in LabelOps => Steps[j].of \in keyFile BY <1>1, <1>2, <2>1, KeyKnown
  <2>4. \A k \in keyFile : k \in keyFile' /\ generated'[k] = generated[k] BY <1>2, <1>6
  <2>5. Done(Steps[j]) BY <1>7
  <2>6. QED BY <1>1, <1>2, <1>8, <2>2, <2>3, <2>4, <2>5, DoneKept
<1>12. RunGood'
  <2>1. run'.pc # 0 BY <1>1, <1>8
  <2>2. Step' = Step BY <1>8 DEF Step
  <2>3. QED BY <1>1, <1>6, <1>7, <1>8, <1>11, <2>1, <2>2 DEF RunGood
<1>13. \A k \in Labels : generated[k] \in Nat /\ generated'[k] \in Nat
                         /\ generated[k] <= generated'[k]
  <2> SUFFICES ASSUME NEW k \in Labels
               PROVE  generated[k] \in Nat /\ generated'[k] \in Nat /\ generated[k] <= generated'[k]
    OBVIOUS
  <2>1. generated[k] \in 0..MAX_KEYS /\ generated'[k] \in 0..MAX_KEYS BY <1>2, <1>6
  <2>2. generated'[k] = generated[k] \/ generated'[k] = generated[k] + 1 BY <1>6
  <2>3. QED BY <1>5, <2>1, <2>2
<1>14. \A i \in DOMAIN flight' : FlightGood(flight[i])' BY <1>1, <1>9, <1>13, FlightKept
<1>15. ASSUME NEW k \in Labels PROVE KeyGood(k)'
  <2>1. KeyGood(k) BY <1>2
  <2> HIDE DEF Late
  <2>2. CASE k # l \/ l \in keyFile
    <3>1. generated'[k] = generated[k] /\ (k \in keyFile' <=> k \in keyFile) BY <1>6, <2>2
    <3>2. QED BY <1>1, <1>9, <2>1, <3>1 DEF KeyGood
  <2>3. CASE k = l /\ l \notin keyFile
    <3>1. k \in keyFile' /\ generated'[k] = g + 1 /\ g < MAX_KEYS /\ k \notin keyFile BY <1>6, <2>3
    <3>2. g = generated[k] BY <2>3
    <3> HIDE DEF g, l
    <3>3. g \in {0, 1} /\ k \notin told BY <1>5, <2>1, <3>1, <3>2 DEF KeyGood
    <3>4. g = 1 => /\ multiplier[<<k, 1>>] = "old" /\ k \in Pending /\ Late
                   /\ multiplier[<<k, 2>>] = "none"
      <4>1. g = 1 => 2 \in 1..MAX_KEYS BY <1>5, <3>1
      <4>2. QED BY <2>1, <3>1, <3>2, <4>1 DEF KeyGood
    <3>5. \A n \in 1..MAX_KEYS :
            /\ n > g + 1 => multiplier[<<k, n>>] = "none"
            /\ multiplier[<<k, n>>] = "new" => k \in Pending /\ Late
      <4> SUFFICES ASSUME NEW n \in 1..MAX_KEYS
                   PROVE  /\ n > g + 1 => multiplier[<<k, n>>] = "none"
                          /\ multiplier[<<k, n>>] = "new" => k \in Pending /\ Late
        OBVIOUS
      <4>1. n > g + 1 => n > g BY <1>5
      <4>2. QED BY <2>1, <3>2, <4>1 DEF KeyGood
    <3>6. g + 1 >= 1 /\ g + 1 <= 2 /\ (g + 1 = 2 => g = 1) BY <3>3
    <3>7. QED BY <1>1, <1>9, <3>1, <3>3, <3>4, <3>5, <3>6 DEF KeyGood
  <2>4. QED BY <2>2, <2>3
<1>16. BookGood' BY <1>1 DEF SetupInv, BookGood, BookIsTrue
<1>17. QED BY <1>10, <1>12, <1>14, <1>15, <1>16 DEF SetupInv

\* The operator deletes the keypair of an old mint.
LEMMA DeleteKeyStep == ASSUME SetupInv, NEW l \in Labels, DeleteKey(l) PROVE SetupInv'
<1>1. /\ run.pc = 0 /\ l \in told /\ keyFile' = keyFile \ {l} /\ told' = told \ {l}
      /\ UNCHANGED <<passed, generated, multiplier, chain, held, flight, run, book, doubts,
                     mishaps>>
  BY DEF DeleteKey
<1>2. Types /\ RunGood /\ \A k \in Labels : KeyGood(k) BY DEF SetupInv
<1>3. Late' = Late BY <1>1 DEF Late
<1>4. Types' BY <1>1, <1>2 DEF Types
<1>5. RunGood'
  <2>1. run = Off BY <1>1, <1>2 DEF RunGood
  <2>2. /\ Off.pc = 0 /\ Off.phase = "read" /\ Off.slot = 0 /\ Off.verdict = "none" /\ ~Off.passed
    BY DEF Off
  <2>3. QED BY <1>1, <2>1, <2>2 DEF RunGood
<1>6. \A k \in Labels : generated[k] \in Nat /\ generated'[k] = generated[k]
  BY <1>1, <1>2, DevnetSetupAssumption DEF Types
<1>7. \A i \in DOMAIN flight' : FlightGood(flight[i])' BY <1>1, <1>3, <1>6, FlightKept
<1>8. ASSUME NEW k \in Labels PROVE KeyGood(k)'
  <2>1. KeyGood(k) /\ generated[k] \in Nat BY <1>2, <1>6
  <2> HIDE DEF Late
  <2>2. CASE k # l
    <3>1. (k \in keyFile' <=> k \in keyFile) /\ (k \in told' <=> k \in told) BY <1>1, <2>2
    <3>2. QED BY <1>1, <1>3, <2>1, <3>1 DEF KeyGood
  <2>3. CASE k = l
    <3>1. k \notin keyFile' /\ k \notin told' /\ k \in told BY <1>1, <2>3
    <3>2. /\ k \in keyFile /\ multiplier[<<k, 1>>] = "old" /\ k \in Pending /\ Late
          /\ generated[k] # 2
      BY <2>1, <3>1 DEF KeyGood
    <3>3. QED BY <1>1, <1>3, <2>1, <3>1, <3>2 DEF KeyGood
  <2>4. QED BY <2>2, <2>3
<1>9. BookGood' BY <1>1 DEF SetupInv, BookGood, BookIsTrue
<1>10. QED BY <1>4, <1>5, <1>7, <1>8, <1>9 DEF SetupInv

-----------------------------------------------------------------------------
(* The steps of the network, the clock, and whoever uses the balances *)

\* The run after one of its transactions, or another, is off.
LEMMA JudgedRun ==
  ASSUME SetupInv, NEW i \in DOMAIN flight, NEW v \in {"ok", "err"}, Judged(i, v)
  PROVE  /\ run' \in RunRecord
         /\ \A f \in {"pc", "phase", "slot", "short", "passed"} : run'[f] = run[f]
         /\ run.slot = i => /\ run'.verdict = v /\ run.verdict = "none" /\ run.phase = "wait"
                            /\ run.pc > 0
                            /\ flight[i] = [step |-> Step, object |-> Object(Step),
                                            amount |-> run.short, late |-> run.passed]
         /\ run.slot # i => run' = run
<1>1. Types /\ RunGood /\ run \in RunRecord /\ i \in Slots BY DEF SetupInv, Types
<1>2. run' = IF run.slot = i THEN [run EXCEPT !.verdict = v] ELSE run BY DEF Judged
<1>3. CASE run.slot = i
  <2>1. run' = [run EXCEPT !.verdict = v] BY <1>2, <1>3
  <2>2. run' \in RunRecord /\ run'.verdict = v BY <1>1, <2>1 DEF RunRecord
  <2>3. \A f \in {"pc", "phase", "slot", "short", "passed"} : run'[f] = run[f]
    BY <1>1, <2>1 DEF RunRecord
  <2>4. run.verdict = "none" BY <1>1, <1>3 DEF RunGood
  <2>5. i # 0 BY <1>1, DevnetSetupAssumption DEF Slots
  <2>6. run.phase = "wait" BY <1>1, <1>3, <2>5 DEF RunGood
  <2>7. run.pc # 0 BY <1>1, <2>6 DEF RunGood, Off
  <2>8. run.pc > 0
    <3>1. Len(Steps) \in Nat BY StepsAre
    <3>2. run.pc \in 0..Len(Steps) BY <1>1 DEF RunRecord
    <3>3. QED BY <2>7, <3>1, <3>2
  <2>9. flight[i] = [step |-> Step, object |-> Object(Step), amount |-> run.short,
                     late |-> run.passed]
    BY <1>1, <1>3, <2>4, <2>6 DEF RunGood
  <2>10. QED BY <1>3, <2>2, <2>3, <2>4, <2>6, <2>8, <2>9
<1>4. CASE run.slot # i
  <2>1. run' = run BY <1>2, <1>4
  <2>2. QED BY <1>1, <1>4, <2>1
<1>5. QED BY <1>3, <1>4

\* A transaction that is off leaves the others as they were.
LEMMA WithoutIs ==
  ASSUME NEW i \in DOMAIN flight, Without(i)
  PROVE  /\ DOMAIN flight' = DOMAIN flight \ {i}
         /\ \A k \in DOMAIN flight' : k \in DOMAIN flight /\ flight'[k] = flight[k]
BY DEF Without

\* The mint and the account a transaction is about.
LEMMA FlightMint ==
  ASSUME SetupInv, NEW i \in DOMAIN flight
  PROVE  LET x == flight[i] IN
         /\ x.step \in StepSet /\ x.step.op \notin {"feed", "verify", "save"}
         /\ x.step.op \in LabelOps =>
              /\ x.step.of \in Labels /\ <<x.step.of, x.object[3]>> \in Mints
              /\ x.object[3] \in 1..generated[x.step.of]
         /\ TopsUp(x.step) => <<<<x.step.of, x.object[3]>>, x.step.op>> \in Accounts
<1> DEFINE x == flight[i]
<1>1. FlightGood(x) BY DEF SetupInv
<1> HIDE DEF x
<1>2. x.step \in StepSet /\ x.step.op \notin {"feed", "verify", "save"} /\ ObjectGood(x.step, x.object)
  BY <1>1 DEF FlightGood
<1>3. \A l \in Labels : generated[l] \in 0..MAX_KEYS BY DEF SetupInv, Types
<1>4. MAX_KEYS \in Nat BY DevnetSetupAssumption
<1>5. ASSUME x.step.op \in LabelOps
      PROVE  /\ x.step.of \in Labels /\ <<x.step.of, x.object[3]>> \in Mints
             /\ x.object[3] \in 1..generated[x.step.of]
  <2>1. x.step.of \in Labels /\ x.step.op # "vault" BY <1>2, <1>5, StepForms DEF LabelOps
  <2>2. PICK n \in 1..generated[x.step.of] : x.object = <<x.step.op, x.step.of, n>>
    BY <1>2, <2>1 DEF ObjectGood
  <2>3. x.object[3] = n BY <2>2
  <2>4. n \in 1..MAX_KEYS BY <1>3, <1>4, <2>1
  <2>5. QED BY <2>1, <2>3, <2>4 DEF Mints
<1>6. ASSUME TopsUp(x.step)
      PROVE  <<<<x.step.of, x.object[3]>>, x.step.op>> \in Accounts
  <2>1. CASE x.step.op \in {"wallet", "keeper"}
    <3>1. x.step.op \in LabelOps BY <2>1 DEF LabelOps
    <3>2. QED BY <1>5, <2>1, <3>1 DEF Accounts
  <2>2. CASE x.step.op = "liquidity"
    <3>1. x.step.of = "SOL" /\ x.step.of \notin Labels BY <1>2, <2>2, StepForms
    <3>2. x.object = <<x.step.op, x.step.of, 1>> BY <1>2, <2>2, <3>1 DEF ObjectGood
    <3>3. x.object[3] = 1 BY <3>2
    <3>4. QED BY <2>2, <3>1, <3>3 DEF Accounts
  <2>3. QED BY <1>6, <2>1, <2>2 DEF TopsUp
<1>7. QED BY <1>2, <1>5, <1>6 DEF x

\* A transaction that lands and is refused changes nothing but what the run knows.
LEMMA RefusedStep ==
  ASSUME SetupInv, NEW i \in DOMAIN flight, Land(i), ~Acceptable(flight[i])
  PROVE  SetupInv'
<1>1. /\ Without(i) /\ Judged(i, "err")
      /\ UNCHANGED <<multiplier, chain, held, passed, keyFile, generated, told, book, doubts,
                     mishaps>>
  BY DEF Land
<1>2. /\ run' \in RunRecord
      /\ \A f \in {"pc", "phase", "slot", "short", "passed"} : run'[f] = run[f]
      /\ run.slot = i => run'.verdict = "err" /\ run.phase = "wait"
      /\ run.slot # i => run' = run
  BY <1>1, JudgedRun
<1>3. /\ run'.pc = run.pc /\ run'.phase = run.phase /\ run'.slot = run.slot
      /\ run'.short = run.short /\ run'.passed = run.passed
  BY <1>2
<1>4. /\ DOMAIN flight' = DOMAIN flight \ {i}
      /\ \A k \in DOMAIN flight' : k \in DOMAIN flight /\ flight'[k] = flight[k]
  BY <1>1, WithoutIs
<1>5. Types /\ RunGood BY DEF SetupInv
<1>6. Types' BY <1>1, <1>2, <1>4, <1>5 DEF Types
<1>7. Step' = Step /\ Object(Step)' = Object(Step) BY <1>1, <1>3 DEF Step, Object
<1>8. \A s : Done(s) => Done(s)' BY <1>1, <1>3 DEF Done, MintOf, Object
<1>9. RunGood'
  <2>1. CASE run.slot = i
    <3>1. run'.verdict = "err" /\ run'.phase = "wait" BY <1>2, <1>3, <2>1
    <3>2. /\ run'.passed => passed'
          /\ run'.pc # 0
          /\ Step'.op = "mint" => Step'.of \in keyFile'
          /\ Step'.op \notin {"feed", "verify", "save"}
          /\ run'.short \in (IF TopsUp(Step') THEN 1..Target ELSE {0})
      <4>1. run.phase = "wait" BY <1>3, <3>1
      <4>2. /\ run.passed => passed
            /\ Step.op = "mint" => Step.of \in keyFile
            /\ Step.op \notin {"feed", "verify", "save"}
            /\ run.short \in (IF TopsUp(Step) THEN 1..Target ELSE {0})
        BY <1>5, <4>1 DEF RunGood
      <4>3. run.pc # 0 BY <1>5, <4>1 DEF RunGood, Off
      <4>4. QED BY <1>1, <1>3, <1>7, <4>2, <4>3
    <3>3. run'.slot \notin DOMAIN flight' BY <1>3, <1>4, <2>1
    <3>4. \A j \in 1..(run'.pc - 1) : Done(Steps[j])' BY <1>3, <1>5, <1>8 DEF RunGood
    <3>5. QED BY <3>1, <3>2, <3>3, <3>4 DEF RunGood, TopsUp
  <2>2. CASE run.slot # i
    <3>1. run' = run BY <1>2, <2>2
    <3>2. run.slot \in DOMAIN flight => run.slot \in DOMAIN flight' /\ flight'[run.slot] = flight[run.slot]
      BY <1>4, <2>2
    <3>3. run.slot \notin DOMAIN flight => run.slot \notin DOMAIN flight' BY <1>4
    <3>4. QED BY <1>1, <1>5, <1>7, <1>8, <3>1, <3>2, <3>3 DEF RunGood, TopsUp
  <2>3. QED BY <2>1, <2>2
<1>10. Late => Late' BY <1>1, <1>3 DEF Late
<1>11. QED BY <1>1, <1>4, <1>6, <1>9, <1>10, Frame

LEMMA DropStep == ASSUME SetupInv, NEW i \in DOMAIN flight, Drop(i) PROVE SetupInv'
<1>1. /\ i # run.slot /\ Without(i)
      /\ UNCHANGED <<passed, keyFile, generated, multiplier, chain, held, run, told, book,
                     doubts, mishaps>>
  BY DEF Drop
<1>2. /\ DOMAIN flight' = DOMAIN flight \ {i}
      /\ \A k \in DOMAIN flight' : k \in DOMAIN flight /\ flight'[k] = flight[k]
  BY <1>1, WithoutIs
<1>3. Types /\ RunGood BY DEF SetupInv
<1>4. Types' BY <1>1, <1>2, <1>3 DEF Types
<1>5. \A s : Done(s) => Done(s)' BY <1>1 DEF Done, MintOf, Object
<1>6. Step' = Step /\ Object(Step)' = Object(Step) BY <1>1 DEF Step, Object
<1>7. run.slot \in DOMAIN flight => run.slot \in DOMAIN flight' /\ flight'[run.slot] = flight[run.slot]
  BY <1>1, <1>2
<1>8. run.slot \notin DOMAIN flight => run.slot \notin DOMAIN flight' BY <1>2
<1>9. RunGood' BY <1>1, <1>3, <1>5, <1>6, <1>7, <1>8 DEF RunGood, TopsUp
<1>10. Late => Late' BY <1>1 DEF Late
<1>11. QED BY <1>1, <1>2, <1>4, <1>9, <1>10, Frame

LEMMA PassStep == ASSUME SetupInv, Pass PROVE SetupInv'
<1>1. /\ ~passed /\ passed' = TRUE
      /\ UNCHANGED <<keyFile, generated, multiplier, chain, held, flight, run, told, book,
                     doubts, mishaps>>
  BY DEF Pass
<1>2. Types /\ RunGood BY DEF SetupInv
<1>3. Types' BY <1>1, <1>2 DEF Types
<1>4. \A s : Done(s) => Done(s)' BY <1>1 DEF Done, MintOf, Object
<1>5. Step' = Step /\ Object(Step)' = Object(Step) BY <1>1 DEF Step, Object
<1>6. RunGood' BY <1>1, <1>2, <1>4, <1>5 DEF RunGood, TopsUp
<1>7. Late => Late' BY <1>1 DEF Late
<1>8. QED BY <1>1, <1>3, <1>6, <1>7, Frame

LEMMA SpendStep == ASSUME SetupInv, Spend PROVE SetupInv'
<1>1. PICK a \in Accounts : held[a] > 0 /\ held' = [held EXCEPT ![a] = @ - 1] BY DEF Spend
<1>2. /\ Mishap
      /\ UNCHANGED <<passed, keyFile, generated, multiplier, chain, flight, run, told, book,
                     doubts>>
  BY DEF Spend
<1>3. Types /\ RunGood BY DEF SetupInv
<1>4. held' \in [Accounts -> Nat]
  <2>1. held \in [Accounts -> Nat] BY <1>3 DEF Types
  <2>2. held[a] - 1 \in Nat BY <1>1, <2>1
  <2>3. QED BY <1>1, <2>1, <2>2
<1>5. mishaps' \in 0..MAX_MISHAPS /\ \A b \in Accounts : doubts'[b] <= mishaps'
  <2>1. /\ mishaps \in 0..MAX_MISHAPS /\ doubts \in [Accounts -> Nat]
        /\ \A b \in Accounts : doubts[b] <= mishaps
    BY <1>3 DEF Types
  <2>2. MAX_MISHAPS \in Nat BY DevnetSetupAssumption
  <2>3. mishaps < MAX_MISHAPS /\ mishaps' = mishaps + 1 BY <1>2 DEF Mishap
  <2>4. QED BY <1>2, <2>1, <2>2, <2>3
<1>6. Types' BY <1>2, <1>3, <1>4, <1>5 DEF Types
<1>7. \A s : Done(s) => Done(s)' BY <1>2 DEF Done, MintOf, Object
<1>8. Step' = Step /\ Object(Step)' = Object(Step) BY <1>2 DEF Step, Object
<1>9. RunGood' BY <1>2, <1>3, <1>7, <1>8 DEF RunGood, TopsUp
<1>10. Late => Late' BY <1>2 DEF Late
<1>11. QED BY <1>2, <1>6, <1>9, <1>10, Frame

\* A transaction that lands and is accepted: an account is made once, and the run that
\* waits for it learns that its step is done.
LEMMA AcceptedStep ==
  ASSUME SetupInv, NEW i \in DOMAIN flight, Land(i), Acceptable(flight[i])
  PROVE  SetupInv'
<1> DEFINE x == flight[i]
           m == <<x.step.of, x.object[3]>>
           a == <<m, x.step.op>>
<1>1. /\ Without(i) /\ Judged(i, "ok")
      /\ multiplier' = IF x.step.op = "mint"
                         THEN [multiplier EXCEPT ![m] = Live(x.step.of, x.late)] ELSE multiplier
      /\ held' = IF TopsUp(x.step) THEN [held EXCEPT ![a] = @ + x.amount] ELSE held
      /\ chain' = IF x.step.op = "mint" \/ TopsUp(x.step) THEN chain ELSE chain \cup {x.object}
      /\ UNCHANGED <<passed, keyFile, generated, told, book, doubts, mishaps>>
  BY DEF Land
<1>2. /\ run' \in RunRecord
      /\ \A f \in {"pc", "phase", "slot", "short", "passed"} : run'[f] = run[f]
      /\ run.slot = i => /\ run'.verdict = "ok" /\ run.phase = "wait" /\ run.pc > 0
                         /\ x = [step |-> Step, object |-> Object(Step), amount |-> run.short,
                                 late |-> run.passed]
      /\ run.slot # i => run' = run
  BY <1>1, JudgedRun
<1>3. /\ run'.pc = run.pc /\ run'.phase = run.phase /\ run'.slot = run.slot
      /\ run'.short = run.short /\ run'.passed = run.passed
  BY <1>2
<1>4. /\ DOMAIN flight' = DOMAIN flight \ {i}
      /\ \A k \in DOMAIN flight' : k \in DOMAIN flight /\ flight'[k] = flight[k]
  BY <1>1, WithoutIs
<1>5. Types /\ RunGood /\ \A l \in Labels : KeyGood(l) BY DEF SetupInv
<1>6. /\ x.step \in StepSet /\ x.step.op \notin {"feed", "verify", "save"}
      /\ x.step.op = "mint" => /\ x.step.of \in Labels /\ m \in Mints
                               /\ x.object[3] \in 1..generated[x.step.of]
      /\ TopsUp(x.step) => a \in Accounts
  BY FlightMint DEF LabelOps
<1>7. FlightGood(x) BY DEF SetupInv
<1>8. x.step.op = "mint" => multiplier[m] = "none" BY DEF Acceptable
<1>9. run.slot = i => /\ x.step = Step /\ x.object = Object(Step) /\ x.late = run.passed
  BY <1>2
<1>10. Late' = Late BY <1>1, <1>3 DEF Late
<1> HIDE DEF x, m, a
<1>11. \A n \in Mints : multiplier[n] # "none" => multiplier'[n] = multiplier[n]
  BY <1>1, <1>5, <1>6, <1>8 DEF Types
<1>12. chain \subseteq chain' BY <1>1
<1>13. x.step.op = "mint" => multiplier'[m] = Live(x.step.of, x.late)
  BY <1>1, <1>5, <1>6 DEF Types
<1>14. \A n \in Mints : n # m \/ x.step.op # "mint" => multiplier'[n] = multiplier[n]
  BY <1>1, <1>5, <1>6 DEF Types
<1>15. \A s \in StepSet : Done(s) /\ (s.op \in LabelOps => s.of \in keyFile) => Done(s)'
  BY <1>1, <1>3, <1>5, <1>11, <1>12, DoneKept
<1>16. Types'
  <2>1. multiplier' \in [Mints -> {"none", "old", "new"}]
    <3>1. Live(x.step.of, x.late) \in {"none", "old", "new"} BY DEF Live
    <3>2. multiplier \in [Mints -> {"none", "old", "new"}] BY <1>5 DEF Types
    <3>3. QED BY <1>1, <1>6, <3>1, <3>2
  <2>2. held' \in [Accounts -> Nat]
    <3>1. held \in [Accounts -> Nat] BY <1>5 DEF Types
    <3>2. x.amount \in Nat BY <1>7, DevnetSetupAssumption DEF FlightGood
    <3>3. TopsUp(x.step) => held[a] + x.amount \in Nat BY <1>6, <3>1, <3>2
    <3>4. QED BY <1>1, <1>6, <3>1, <3>3
  <2>3. \A o \in chain' : o[3] \in 0..MAX_KEYS
    <3>1. x.object[3] \in 0..MAX_KEYS
      <4>1. ObjectGood(x.step, x.object) BY <1>7 DEF FlightGood
      <4>2. MAX_KEYS \in Nat \ {0} BY DevnetSetupAssumption
      <4>3. \A l \in Labels : generated[l] \in 0..MAX_KEYS BY <1>5 DEF Types
      <4>4. CASE x.step.op = "vault"
        <5>1. x.object[3] = 0 BY <4>1, <4>4 DEF ObjectGood
        <5>2. QED BY <4>2, <5>1
      <4>5. CASE x.step.op # "vault" /\ x.step.of \in Labels
        <5>1. PICK n \in 1..generated[x.step.of] : x.object = <<x.step.op, x.step.of, n>>
          BY <4>1, <4>5 DEF ObjectGood
        <5>2. x.object[3] = n BY <5>1
        <5>3. QED BY <4>2, <4>3, <4>5, <5>2
      <4>6. CASE x.step.op # "vault" /\ x.step.of \notin Labels
        <5>1. x.object[3] = 1 BY <4>1, <4>6 DEF ObjectGood
        <5>2. QED BY <4>2, <5>1
      <4>7. QED BY <4>4, <4>5, <4>6
    <3>2. chain' \subseteq chain \cup {x.object} BY <1>1
    <3>3. QED BY <1>5, <3>1, <3>2 DEF Types
  <2>4. QED BY <1>1, <1>2, <1>4, <1>5, <2>1, <2>2, <2>3 DEF Types
<1>17. Step' = Step /\ Object(Step)' = Object(Step) BY <1>1, <1>3 DEF Step, Object
<1>18. \A j \in 1..(run.pc - 1) : Done(Steps[j])'
  <2> SUFFICES ASSUME NEW j \in 1..(run.pc - 1) PROVE Done(Steps[j])' OBVIOUS
  <2>1. run.pc > 0 /\ run.pc \in Nat /\ run.pc \in 0..Len(Steps)
    <3>1. Len(Steps) \in Nat BY StepsAre
    <3>2. run.pc \in 0..Len(Steps) BY <1>5 DEF Types, RunRecord
    <3>3. QED BY <3>1, <3>2
  <2>2. run.pc \in 1..Len(Steps) /\ Len(Steps) \in Nat BY <1>5, <2>1, StepOfRun
  <2>3. j \in 1..run.pc /\ j # run.pc /\ j \in 1..Len(Steps) BY <2>1, <2>2
  <2>4. Steps[j] \in StepSet BY <2>3, StepsAre
  <2>5. Steps[j].op \in LabelOps => Steps[j].of \in keyFile BY <1>5, <2>1, <2>3, KeyKnown
  <2>6. Done(Steps[j]) BY <1>5 DEF RunGood
  <2>7. QED BY <1>15, <2>4, <2>5, <2>6
<1>19. run'.verdict = "ok" => Done(Step)'
  <2>1. CASE run.slot = i
    <3>1. /\ run.phase = "wait" /\ run.pc > 0 /\ x.step = Step /\ x.object = Object(Step)
          /\ Step.op \notin {"feed", "verify", "save"}
          /\ Step.op = "mint" => Step.of \in keyFile
      BY <1>2, <1>5, <1>9, <2>1 DEF RunGood
    <3>2. CASE Step.op = "mint"
      <4>1. Step.of \in Labels /\ Step.of \in keyFile BY <1>6, <3>1, <3>2
      <4>2. m = MintOf(Step.of)
        <5>1. Object(Step)[3] = generated[Step.of] BY <3>2, <4>1 DEF Object
        <5>2. QED BY <3>1, <5>1 DEF m, MintOf
      <4>3. multiplier'[m] # "none" BY <1>13, <3>1, <3>2 DEF Live
      <4>4. MintOf(Step.of)' = MintOf(Step.of) BY <1>1, <1>17 DEF MintOf
      <4>5. QED BY <1>1, <1>17, <3>2, <4>1, <4>2, <4>3, <4>4 DEF Done
    <3>3. CASE Step.op # "mint"
      <4>1. Step.op \in {"vault", "wrapper", "accounts", "owner", "liquidity accounts"} =>
              Object(Step) \in chain'
        BY <1>1, <3>1, <3>3 DEF TopsUp
      <4>2. QED BY <1>17, <3>1, <3>3, <4>1 DEF Done
    <3>4. QED BY <3>2, <3>3
  <2>2. CASE run.slot # i /\ run.verdict = "ok"
    <3>1. Done(Step) /\ run.phase = "wait" BY <1>5, <2>2 DEF RunGood
    <3>2. run.pc > 0
      <4>1. run.pc # 0 BY <1>5, <3>1 DEF RunGood, Off
      <4>2. Len(Steps) \in Nat BY StepsAre
      <4>3. run.pc \in 0..Len(Steps) BY <1>5 DEF Types, RunRecord
      <4>4. QED BY <4>1, <4>2, <4>3
    <3>3. run.pc \in 1..Len(Steps) /\ Len(Steps) \in Nat /\ Step \in StepSet /\ Step = Steps[run.pc]
      BY <1>5, <3>2, StepOfRun
    <3>4. run.pc \in 1..run.pc BY <3>3
    <3>5. Step.op \in LabelOps => Step.of \in keyFile BY <1>5, <3>1, <3>2, <3>3, <3>4, KeyKnown
    <3>6. QED BY <1>15, <1>17, <3>1, <3>3, <3>5
  <2>3. QED BY <1>2, <2>1, <2>2
<1>20. RunGood'
  <2>1. CASE run.slot = i
    <3>1. run'.verdict = "ok" /\ run.phase = "wait" /\ run.pc > 0 BY <1>2, <2>1
    <3>2. /\ run.passed => passed
          /\ Step.op = "mint" => Step.of \in keyFile
          /\ Step.op \notin {"feed", "verify", "save"}
          /\ run.short \in (IF TopsUp(Step) THEN 1..Target ELSE {0})
      BY <1>5, <3>1 DEF RunGood
    <3>3. /\ run'.passed => passed'
          /\ run'.pc # 0
          /\ Step'.op = "mint" => Step'.of \in keyFile'
          /\ Step'.op \notin {"feed", "verify", "save"}
          /\ run'.short \in (IF TopsUp(Step') THEN 1..Target ELSE {0})
      BY <1>1, <1>3, <1>17, <3>1, <3>2
    <3>4. run'.slot \notin DOMAIN flight' BY <1>3, <1>4, <2>1
    <3>5. \A j \in 1..(run'.pc - 1) : Done(Steps[j])' BY <1>3, <1>18
    <3>6. run'.phase = "wait" BY <1>3, <3>1
    <3>7. QED BY <1>19, <3>1, <3>3, <3>4, <3>5, <3>6 DEF RunGood, TopsUp
  <2>2. CASE run.slot # i
    <3>1. run' = run BY <1>2, <2>2
    <3>2. run.slot \in DOMAIN flight => run.slot \in DOMAIN flight' /\ flight'[run.slot] = flight[run.slot]
      BY <1>4, <2>2
    <3>3. run.slot \notin DOMAIN flight => run.slot \notin DOMAIN flight' BY <1>4
    <3>4. QED BY <1>1, <1>5, <1>17, <1>18, <1>19, <3>1, <3>2, <3>3 DEF RunGood, TopsUp
  <2>3. QED BY <2>1, <2>2
<1>21. \A l \in Labels : generated[l] \in Nat /\ generated'[l] = generated[l]
  BY <1>1, <1>5, DevnetSetupAssumption DEF Types
<1>22. \A k \in DOMAIN flight' : FlightGood(flight[k])' BY <1>4, <1>10, <1>21, FlightKept
<1>23. ASSUME NEW l \in Labels PROVE KeyGood(l)'
  <2>1. KeyGood(l) /\ generated[l] \in Nat BY <1>5, <1>21
  <2> HIDE DEF Late
  <2>2. CASE x.step.op # "mint" \/ l # x.step.of
    <3>1. \A k \in 1..MAX_KEYS : <<l, k>> \in Mints /\ multiplier'[<<l, k>>] = multiplier[<<l, k>>]
      <4> SUFFICES ASSUME NEW k \in 1..MAX_KEYS
                   PROVE  <<l, k>> \in Mints /\ multiplier'[<<l, k>>] = multiplier[<<l, k>>]
        OBVIOUS
      <4>1. <<l, k>> \in Mints BY DEF Mints
      <4>2. <<l, k>> # m \/ x.step.op # "mint" BY <2>2 DEF m
      <4>3. QED BY <1>14, <4>1, <4>2
    <3>2. generated[l] = 2 => 1 \in 1..MAX_KEYS /\ 2 \in 1..MAX_KEYS
      <4>1. generated[l] \in 0..MAX_KEYS /\ MAX_KEYS \in Nat BY <1>5, DevnetSetupAssumption DEF Types
      <4>2. QED BY <4>1
    <3>3. 1 \in 1..MAX_KEYS BY DevnetSetupAssumption
    <3>4. QED BY <1>1, <1>10, <2>1, <3>1, <3>2, <3>3 DEF KeyGood
  <2>3. CASE x.step.op = "mint" /\ l = x.step.of
    <3> DEFINE n == x.object[3]
               g == generated[l]
    <3>1. m = <<l, n>> /\ n \in 1..g /\ g \in 0..MAX_KEYS /\ MAX_KEYS \in Nat \ {0}
      BY <1>5, <1>6, <2>3, DevnetSetupAssumption DEF m, Types
    <3>2. multiplier[<<l, n>>] = "none" /\ multiplier'[<<l, n>>] = Live(l, x.late)
      BY <1>8, <1>13, <2>3, <3>1
    <3>3. x.late => Late BY <1>7 DEF FlightGood
    <3>4. n = 2 => x.late BY <1>7, <2>3 DEF FlightGood
    <3>5. generated'[l] = g BY <1>21
    <3> HIDE DEF n, g
    <3>6. \A k \in 1..MAX_KEYS : k # n => multiplier'[<<l, k>>] = multiplier[<<l, k>>]
      <4> SUFFICES ASSUME NEW k \in 1..MAX_KEYS, k # n
                   PROVE  multiplier'[<<l, k>>] = multiplier[<<l, k>>]
        OBVIOUS
      <4>1. <<l, k>> \in Mints /\ <<l, k>> # m BY <3>1 DEF Mints
      <4>2. QED BY <1>14, <4>1
    <3>7. n \in 1..MAX_KEYS /\ 1 \in 1..MAX_KEYS /\ (g = 2 => 2 \in 1..MAX_KEYS) BY <3>1
    <3>8. Live(l, x.late) = "new" => l \in Pending /\ Late BY <3>3 DEF Live
    <3>9. \A k \in 1..MAX_KEYS :
            /\ k > g => multiplier'[<<l, k>>] = "none"
            /\ multiplier'[<<l, k>>] = "new" => l \in Pending /\ Late
      <4> SUFFICES ASSUME NEW k \in 1..MAX_KEYS
                   PROVE  /\ k > g => multiplier'[<<l, k>>] = "none"
                          /\ multiplier'[<<l, k>>] = "new" => l \in Pending /\ Late
        OBVIOUS
      <4>1. /\ k > g => multiplier[<<l, k>>] = "none"
            /\ multiplier[<<l, k>>] = "new" => l \in Pending /\ Late
        BY <2>1 DEF KeyGood, g
      <4>2. k > g => k # n BY <3>1
      <4>3. QED BY <3>2, <3>6, <3>8, <4>1, <4>2
    <3>10. multiplier[<<l, 1>>] = "old" => multiplier'[<<l, 1>>] = "old"
      BY <3>2, <3>6, <3>7
    <3>11. g = 2 => /\ l \in keyFile /\ l \notin told /\ multiplier[<<l, 1>>] = "old"
                    /\ multiplier[<<l, 2>>] # "old" /\ l \in Pending /\ Late
      BY <2>1 DEF KeyGood, g
    <3>12. g = 2 => multiplier'[<<l, 2>>] # "old"
      <4>1. CASE n = 2 BY <3>2, <3>4, <3>11, <4>1 DEF Live
      <4>2. CASE n # 2 BY <3>6, <3>7, <3>11, <4>2
      <4>3. QED BY <4>1, <4>2
    <3>13. /\ l \in keyFile => g >= 1
           /\ g <= 2
           /\ g = 1 /\ l \notin keyFile => multiplier[<<l, 1>>] = "old" /\ l \in Pending /\ Late
           /\ l \in told => l \in keyFile /\ multiplier[<<l, 1>>] = "old" /\ l \in Pending /\ Late
      BY <2>1 DEF KeyGood, g
    <3>14. QED BY <1>1, <1>10, <3>5, <3>9, <3>10, <3>11, <3>12, <3>13 DEF KeyGood
  <2>4. QED BY <2>2, <2>3
<1>24. BookGood'
  <2>1. SUFFICES ASSUME book.saved PROVE BookGood'
    BY <1>1 DEF BookGood, BookIsTrue
  <2>2. /\ \A v \in DOMAIN Vaults : <<"vault", Vaults[v].symbol, 0>> \in chain
        /\ \A l \in Labels :
             /\ multiplier[<<l, book.mints[l]>>] = Live(l, book.late)
             /\ {<<"wrapper", l, book.mints[l]>>, <<"accounts", l, book.mints[l]>>} \subseteq chain
             /\ book.mints[l] \in 1..MAX_KEYS
        /\ {<<"owner", "USDC", 1>>, <<"liquidity accounts", "USDC", 1>>} \subseteq chain
    BY <2>1 DEF SetupInv, BookGood, BookIsTrue
  <2>3. \A l \in Labels : multiplier'[<<l, book.mints[l]>>] = Live(l, book.late)
    <3> SUFFICES ASSUME NEW l \in Labels
                 PROVE  multiplier'[<<l, book.mints[l]>>] = Live(l, book.late)
      OBVIOUS
    <3>1. <<l, book.mints[l]>> \in Mints BY <2>2 DEF Mints
    <3>2. multiplier[<<l, book.mints[l]>>] # "none" BY <2>2 DEF Live
    <3>3. QED BY <1>11, <2>2, <3>1, <3>2
  <2>4. book' = book BY <1>1
  <2>5. QED BY <1>12, <2>2, <2>3, <2>4 DEF BookGood, BookIsTrue
<1>25. QED BY <1>16, <1>20, <1>22, <1>23, <1>24 DEF SetupInv

-----------------------------------------------------------------------------
(* The theorems on what exists *)

LEMMA SetupInit == Init => SetupInv
<1> SUFFICES ASSUME Init PROVE SetupInv OBVIOUS
<1>1. /\ passed = FALSE /\ keyFile = {} /\ told = {} /\ generated = [l \in Labels |-> 0]
      /\ multiplier = [m \in Mints |-> "none"] /\ chain = {} /\ flight = <<>>
      /\ held = [a \in Accounts |-> 0] /\ run = Off
      /\ book = [saved |-> FALSE, late |-> FALSE, mints |-> [l \in Labels |-> 0]]
      /\ doubts = [a \in Accounts |-> 0] /\ mishaps = 0
  BY DEF Init
<1>2. /\ Off \in RunRecord /\ Off.pc = 0 /\ Off.phase = "read" /\ Off.slot = 0
      /\ Off.verdict = "none" /\ ~Off.passed
  <2>1. Len(Steps) \in Nat BY StepsAre
  <2>2. 0 \in 0..Len(Steps) BY <2>1
  <2>3. QED BY <2>2 DEF Off, RunRecord
<1>3. MAX_KEYS \in Nat \ {0} /\ MAX_MISHAPS \in Nat BY DevnetSetupAssumption
<1>4. DOMAIN flight = {} BY <1>1
<1>5. /\ ~book.saved /\ book.mints = [l \in Labels |-> 0] /\ ~book.late
      /\ book.saved \in BOOLEAN /\ book.late \in BOOLEAN
  BY <1>1
<1>6. Types
  <2>1. /\ generated \in [Labels -> 0..MAX_KEYS] /\ book.mints \in [Labels -> 0..MAX_KEYS]
        /\ held \in [Accounts -> Nat] /\ doubts \in [Accounts -> Nat]
        /\ \A a \in Accounts : doubts[a] <= mishaps
        /\ mishaps \in 0..MAX_MISHAPS
    BY <1>1, <1>3, <1>5
  <2>2. multiplier \in [Mints -> {"none", "old", "new"}] BY <1>1
  <2>3. passed \in BOOLEAN /\ keyFile \subseteq Labels /\ told \subseteq Labels /\ run \in RunRecord
    BY <1>1, <1>2
  <2>4. QED BY <1>1, <1>4, <1>5, <2>1, <2>2, <2>3 DEF Types
<1>7. RunGood BY <1>1, <1>2 DEF RunGood
<1>8. ASSUME NEW l \in Labels PROVE KeyGood(l)
  <2>1. l \notin keyFile /\ l \notin told /\ generated[l] = 0 BY <1>1
  <2>2. \A k \in 1..MAX_KEYS : multiplier[<<l, k>>] = "none" BY <1>1 DEF Mints
  <2>3. QED BY <2>1, <2>2 DEF KeyGood
<1>9. BookGood BY <1>5 DEF BookGood, BookIsTrue
<1>10. QED BY <1>4, <1>6, <1>7, <1>8, <1>9 DEF SetupInv

LEMMA SetupStep == SetupInv /\ [Next]_vars => SetupInv'
<1> SUFFICES ASSUME SetupInv, [Next]_vars PROVE SetupInv' OBVIOUS
<1>1. CASE Start BY <1>1, StartStep
<1>2. CASE Runs
  BY <1>2, OpenKeyStep, LookStep, NoKeeperStep, SendStep, ConfirmStep, RejectedStep,
     CheckFeedStep, VerifyStep, SaveStep DEF Runs
<1>3. CASE Unknown \/ Misjudge BY <1>3, UnsureStep
<1>4. CASE Fail BY <1>4, FailStep
<1>5. ASSUME NEW i \in DOMAIN flight, Land(i) \/ Drop(i) PROVE SetupInv'
  BY <1>5, RefusedStep, AcceptedStep, DropStep
<1>6. CASE Pass BY <1>6, PassStep
<1>7. CASE Spend BY <1>7, SpendStep
<1>8. ASSUME NEW l \in Labels, DeleteKey(l) PROVE SetupInv' BY <1>8, DeleteKeyStep
<1>9. CASE UNCHANGED vars
  <2>1. UNCHANGED <<passed, keyFile, generated, multiplier, chain, held, flight, run, told, book,
                    doubts, mishaps>>
    BY <1>9 DEF vars
  <2>2. Types' BY <2>1 DEF SetupInv, Types
  <2>3. RunGood' BY <2>1 DEF SetupInv, RunGood, Done, MintOf, Object, Step, TopsUp
  <2>4. Late => Late' BY <2>1 DEF Late
  <2>5. QED BY <2>1, <2>2, <2>3, <2>4, Frame
<1>10. QED BY <1>1, <1>2, <1>3, <1>4, <1>5, <1>6, <1>7, <1>8, <1>9 DEF Next

\* The invariant holds throughout.
LEMMA SetupAlways == Spec => []SetupInv
BY SetupInit, SetupStep, PTL DEF Spec

\* Types and bounds: whatever failed and however often the script was rerun, what it sends
\* tops an account up by one unit at least and by the target at most.
THEOREM SetupTypes == Spec => []TypeOK
<1>1. SetupInv => TypeOK
  <2> SUFFICES ASSUME SetupInv PROVE TypeOK OBVIOUS
  <2>1. Types BY DEF SetupInv
  <2>2. \A i \in DOMAIN flight :
          flight[i].amount \in (IF TopsUp(flight[i].step) THEN 1..Target ELSE {0})
    BY DEF SetupInv, FlightGood
  <2>3. doubts \in [Accounts -> 0..MAX_MISHAPS]
    <3>1. /\ doubts \in [Accounts -> Nat] /\ mishaps \in 0..MAX_MISHAPS
          /\ \A a \in Accounts : doubts[a] <= mishaps
      BY <2>1 DEF Types
    <3>2. MAX_MISHAPS \in Nat BY DevnetSetupAssumption
    <3>3. \A a \in Accounts : doubts[a] \in 0..MAX_MISHAPS BY <3>1, <3>2
    <3>4. QED BY <3>1, <3>3
  <2>4. /\ run.pc \in 0..Len(Steps) /\ run.phase \in {"read", "look", "send", "wait"}
        /\ run.slot \in {0} \cup Slots /\ run.verdict \in {"none", "ok", "err"}
    BY <2>1 DEF Types, RunRecord
  <2>5. QED BY <2>1, <2>2, <2>3, <2>4 DEF TypeOK, Types
<1>2. QED BY <1>1, SetupAlways, PTL

\* The address book every client reads names nothing that is not there (saveAddressBook).
THEOREM BookTrue == Spec => []BookIsTrue
<1>1. SetupInv => BookIsTrue BY DEF SetupInv, BookGood
<1>2. QED BY <1>1, SetupAlways, PTL

\* Reruns recognise the mints of earlier runs: a label has no two mints of one worth
\* (loadOrCreateKeypair).
THEOREM OneMint == Spec => []OneMintPerWorth
<1>1. SetupInv => OneMintPerWorth
  <2> SUFFICES ASSUME SetupInv, NEW m \in Mints, NEW n \in Mints, m[1] = n[1], m # n,
                      multiplier[m] # "none"
               PROVE  multiplier[m] # multiplier[n]
    BY DEF OneMintPerWorth
  <2> DEFINE l == m[1]
  <2>1. /\ l \in Labels /\ m = <<l, m[2]>> /\ n = <<l, n[2]>>
        /\ m[2] \in 1..MAX_KEYS /\ n[2] \in 1..MAX_KEYS
    BY DEF Mints
  <2>2. m[2] # n[2] BY <2>1
  <2>3. KeyGood(l) /\ generated[l] \in 0..MAX_KEYS /\ MAX_KEYS \in Nat
    BY <2>1, DevnetSetupAssumption DEF SetupInv, Types
  <2>4. \A k \in 1..MAX_KEYS : multiplier[<<l, k>>] # "none" => k <= generated[l]
    BY <2>3 DEF KeyGood
  <2> DEFINE i == m[2]
             j == n[2]
  <2>5. i \in 1..MAX_KEYS /\ j \in 1..MAX_KEYS /\ i # j /\ m = <<l, i>> /\ n = <<l, j>>
        /\ multiplier[<<l, i>>] # "none"
    BY <2>1, <2>2
  <2> HIDE DEF l, i, j
  <2>6. SUFFICES ASSUME multiplier[<<l, j>>] # "none"
                 PROVE  multiplier[<<l, i>>] # multiplier[<<l, j>>]
    BY <2>5
  <2>7. generated[l] <= 2 BY <2>3 DEF KeyGood
  <2>8. i <= generated[l] /\ j <= generated[l] BY <2>4, <2>5, <2>6
  <2>9. ((i = 1 /\ j = 2) \/ (i = 2 /\ j = 1)) /\ generated[l] = 2 BY <2>3, <2>5, <2>7, <2>8
  <2>10. multiplier[<<l, 1>>] = "old" /\ multiplier[<<l, 2>>] # "old" BY <2>3, <2>9 DEF KeyGood
  <2>11. QED BY <2>9, <2>10
<1>2. QED BY <1>1, SetupAlways, PTL

-----------------------------------------------------------------------------
(* Balances *)

\* A transaction tops an account up.
Pays(x, a) == TopsUp(x.step) /\ a = <<<<x.step.of, x.object[3]>>, x.step.op>>

\* Top ups of an account that no run waits for any more.
Doubtful(a) == {i \in DOMAIN flight \ {run.slot} : Pays(flight[i], a)}

\* What the run is about to add to an account.
Coming(a) ==
  IF run.phase \in {"send", "wait"} /\ run.verdict = "none" /\ TopsUp(Step) /\ Account(Step) = a
  THEN run.short ELSE 0

\* Each top up that may still land was given up on, and even if all of them landed the
\* account would hold no more than its target and one target for each that was given up on.
BalanceOf(a) ==
  /\ Cardinality(Doubtful(a)) <= doubts[a]
  /\ held[a] + Coming(a) + Target * Cardinality(Doubtful(a)) <= Target * (1 + doubts[a])

BalanceInv == \A a \in Accounts : BalanceOf(a)

LEMMA TimesMore ==
  ASSUME NEW t \in Nat, NEW c \in Nat, NEW d \in Nat
  PROVE  /\ t * c \in Nat /\ t * d \in Nat /\ t * (c + 1) = t * c + t
         /\ t * (1 + d) = t * d + t /\ t * (1 + (d + 1)) = t * d + t + t
         /\ c <= d => t * c <= t * d
<1>1. /\ t * c \in Nat /\ t * d \in Nat /\ t * (c + 1) = t * c + t
      /\ t * (1 + d) = t * d + t /\ t * (1 + (d + 1)) = t * d + t + t
  OBVIOUS
<1>2. ASSUME c <= d PROVE t * c <= t * d
  <2>1. d - c \in Nat /\ d = c + (d - c) BY <1>2
  <2>2. t * d = t * c + t * (d - c) /\ t * (d - c) \in Nat BY <2>1
  <2>3. QED BY <1>1, <2>2
<1>3. QED BY <1>1, <1>2

\* The transactions in flight are finitely many.
LEMMA DoubtfulFinite ==
  ASSUME SetupInv, NEW a
  PROVE  IsFiniteSet(Doubtful(a)) /\ Cardinality(Doubtful(a)) \in Nat
<1>1. MAX_MISHAPS + 1 \in Int /\ 1 \in Int BY DevnetSetupAssumption
<1>2. IsFiniteSet(Slots) BY <1>1, FS_Interval DEF Slots
<1>3. Doubtful(a) \subseteq Slots BY DEF Doubtful, SetupInv, Types
<1>4. IsFiniteSet(Doubtful(a)) BY <1>2, <1>3, FS_Subset
<1>5. QED BY <1>4, FS_CardinalityType

LEMMA ComingIs ==
  ASSUME SetupInv, NEW a
  PROVE  Target \in Nat \ {0} /\ Coming(a) \in Nat /\ Coming(a) <= Target
<1>1. Target \in Nat \ {0} BY DevnetSetupAssumption
<1>2. CASE run.phase \in {"send", "wait"} /\ TopsUp(Step)
  <2>1. run.short \in 1..Target BY <1>2 DEF SetupInv, RunGood
  <2>2. QED BY <1>1, <2>1 DEF Coming
<1>3. CASE ~(run.phase \in {"send", "wait"} /\ TopsUp(Step)) BY <1>1, <1>3 DEF Coming
<1>4. QED BY <1>2, <1>3

\* What the numbers of an account are, by the invariant.
LEMMA Numbers ==
  ASSUME SetupInv, BalanceInv, NEW a \in Accounts
  PROVE  LET c == Cardinality(Doubtful(a)) IN
         /\ c \in Nat /\ held[a] \in Nat /\ doubts[a] \in Nat /\ c <= doubts[a]
         /\ Target * c \in Nat /\ Target * doubts[a] \in Nat
         /\ held[a] + Coming(a) + Target * c <= Target * doubts[a] + Target
<1>1. Cardinality(Doubtful(a)) \in Nat BY DoubtfulFinite
<1>2. held[a] \in Nat /\ doubts[a] \in Nat BY DEF SetupInv, Types
<1>3. Target \in Nat BY DevnetSetupAssumption
<1>4. BalanceOf(a) BY DEF BalanceInv
<1> DEFINE c == Cardinality(Doubtful(a))
<1> HIDE DEF c
<1>5. c \in Nat BY <1>1 DEF c
<1>6. /\ c <= doubts[a] /\ held[a] + Coming(a) + Target * c <= Target * (1 + doubts[a])
  BY <1>4 DEF BalanceOf, c
<1>7. /\ Target * c \in Nat /\ Target * doubts[a] \in Nat
      /\ Target * (1 + doubts[a]) = Target * doubts[a] + Target
  BY <1>2, <1>3, <1>5, TimesMore
<1>8. QED BY <1>2, <1>5, <1>6, <1>7 DEF c

\* An account with no more doubtful top ups and no more held and to come.
LEMMA BalanceShrinks ==
  ASSUME SetupInv, BalanceInv, NEW a \in Accounts, Doubtful(a)' \subseteq Doubtful(a),
         doubts'[a] = doubts[a], held'[a] \in Nat, Coming(a)' \in Nat,
         held'[a] + Coming(a)' <= held[a] + Coming(a)
  PROVE  BalanceOf(a)'
<1> DEFINE c == Cardinality(Doubtful(a))
           e == Cardinality(Doubtful(a)')
           k == Coming(a)
           n == Coming(a)'
<1>1. /\ c \in Nat /\ held[a] \in Nat /\ doubts[a] \in Nat /\ c <= doubts[a]
      /\ Target * c \in Nat /\ Target * doubts[a] \in Nat
      /\ held[a] + k + Target * c <= Target * doubts[a] + Target
  BY Numbers
<1>2. e \in Nat /\ e <= c
  <2>1. IsFiniteSet(Doubtful(a)) BY DoubtfulFinite
  <2>2. QED BY <2>1, FS_Subset, FS_CardinalityType
<1>3. Target \in Nat /\ k \in Nat BY ComingIs
<1>4. n \in Nat /\ held'[a] + n <= held[a] + k OBVIOUS
<1> HIDE DEF c, e, k, n
<1>5. Target * e \in Nat /\ Target * e <= Target * c BY <1>1, <1>2, <1>3, TimesMore
<1>6. Target * (1 + doubts[a]) = Target * doubts[a] + Target BY <1>1, <1>3, TimesMore
<1>7. e <= doubts[a] BY <1>1, <1>2
<1>8. held'[a] + n + Target * e <= Target * (1 + doubts[a]) BY <1>1, <1>3, <1>4, <1>5, <1>6
<1>9. QED BY <1>7, <1>8 DEF BalanceOf, e, n

\* An account that is topped up to its target.
LEMMA BalanceFills ==
  ASSUME SetupInv, BalanceInv, NEW a \in Accounts, Doubtful(a)' = Doubtful(a),
         doubts'[a] = doubts[a], held'[a] \in Nat, Coming(a)' \in Nat,
         held'[a] + Coming(a)' = Target
  PROVE  BalanceOf(a)'
<1> DEFINE c == Cardinality(Doubtful(a))
           n == Coming(a)'
<1>1. /\ c \in Nat /\ doubts[a] \in Nat /\ c <= doubts[a] BY Numbers
<1>2. Target \in Nat BY DevnetSetupAssumption
<1>3. n \in Nat /\ held'[a] + n = Target OBVIOUS
<1>4. Cardinality(Doubtful(a)') = c OBVIOUS
<1> HIDE DEF c, n
<1>5. Target * c \in Nat /\ Target * doubts[a] \in Nat /\ Target * c <= Target * doubts[a]
  BY <1>1, <1>2, TimesMore
<1>6. Target * (1 + doubts[a]) = Target * doubts[a] + Target BY <1>1, <1>2, TimesMore
<1>7. held'[a] + n + Target * c <= Target * (1 + doubts[a]) BY <1>2, <1>3, <1>5, <1>6
<1>8. QED BY <1>1, <1>4, <1>7 DEF BalanceOf, n

\* An account one of whose top ups is given up on: it may still land, or it has landed
\* and the run adds another.
LEMMA BalanceDoubts ==
  ASSUME SetupInv, BalanceInv, NEW a \in Accounts, NEW i,
         doubts'[a] = doubts[a] + 1, held'[a] = held[a], Coming(a)' \in Nat,
         \/ Doubtful(a)' \subseteq Doubtful(a) \cup {i} /\ Coming(a)' <= Coming(a)
         \/ Doubtful(a)' \subseteq Doubtful(a) /\ Coming(a)' <= Target
  PROVE  BalanceOf(a)'
<1> DEFINE c == Cardinality(Doubtful(a))
           e == Cardinality(Doubtful(a)')
           k == Coming(a)
           n == Coming(a)'
<1>1. /\ c \in Nat /\ held[a] \in Nat /\ doubts[a] \in Nat /\ c <= doubts[a]
      /\ Target * c \in Nat /\ Target * doubts[a] \in Nat
      /\ held[a] + k + Target * c <= Target * doubts[a] + Target
  BY Numbers
<1>2. Target \in Nat /\ k \in Nat /\ n \in Nat BY ComingIs
<1>3. IsFiniteSet(Doubtful(a)) BY DoubtfulFinite
<1>4. e \in Nat /\ ((e <= c + 1 /\ n <= k) \/ (e <= c /\ n <= Target))
  <2>1. CASE Doubtful(a)' \subseteq Doubtful(a) \cup {i} /\ n <= k
    <3>1. /\ IsFiniteSet(Doubtful(a) \cup {i})
          /\ Cardinality(Doubtful(a) \cup {i}) = c \/ Cardinality(Doubtful(a) \cup {i}) = c + 1
      BY <1>3, FS_AddElement
    <3>2. e <= Cardinality(Doubtful(a) \cup {i}) /\ IsFiniteSet(Doubtful(a)')
      BY <2>1, <3>1, FS_Subset
    <3>3. e \in Nat BY <3>2, FS_CardinalityType
    <3> HIDE DEF c, e, k, n
    <3>4. e <= c + 1 BY <1>1, <3>1, <3>2, <3>3
    <3>5. QED BY <2>1, <3>3, <3>4
  <2>2. CASE Doubtful(a)' \subseteq Doubtful(a) /\ n <= Target
    <3>1. e <= c /\ IsFiniteSet(Doubtful(a)') BY <1>3, <2>2, FS_Subset
    <3>2. e \in Nat BY <3>1, FS_CardinalityType
    <3>3. QED BY <2>2, <3>1, <3>2
  <2>3. QED BY <2>1, <2>2
<1> HIDE DEF c, e, k, n
<1>5. e <= doubts[a] + 1 BY <1>1, <1>4
<1>6. Target * (1 + (doubts[a] + 1)) = Target * doubts[a] + Target + Target
  BY <1>1, <1>2, TimesMore
<1>7. held[a] + n + Target * e <= Target * doubts[a] + Target + Target
  <2>1. CASE e <= c + 1 /\ n <= k
    <3>1. c + 1 \in Nat BY <1>1
    <3>2. Target * e \in Nat /\ Target * e <= Target * (c + 1) BY <1>2, <1>4, <2>1, <3>1, TimesMore
    <3>3. Target * (c + 1) = Target * c + Target BY <1>1, <1>2, TimesMore
    <3>4. QED BY <1>1, <1>2, <2>1, <3>2, <3>3
  <2>2. CASE e <= c /\ n <= Target
    <3>1. Target * e \in Nat /\ Target * e <= Target * c BY <1>1, <1>2, <1>4, <2>2, TimesMore
    <3>2. QED BY <1>1, <1>2, <2>2, <3>1
  <2>3. QED BY <1>4, <2>1, <2>2
<1>8. QED BY <1>5, <1>6, <1>7 DEF BalanceOf, e, n

\* An account one of whose doubtful top ups lands.
LEMMA BalanceLands ==
  ASSUME SetupInv, BalanceInv, NEW a \in Accounts, NEW i \in Doubtful(a),
         Doubtful(a)' = Doubtful(a) \ {i}, doubts'[a] = doubts[a], Coming(a)' = Coming(a),
         NEW x \in 1..Target, held'[a] = held[a] + x
  PROVE  BalanceOf(a)'
<1> DEFINE c == Cardinality(Doubtful(a))
           e == Cardinality(Doubtful(a)')
           k == Coming(a)
<1>1. /\ c \in Nat /\ held[a] \in Nat /\ doubts[a] \in Nat /\ c <= doubts[a]
      /\ Target * c \in Nat /\ Target * doubts[a] \in Nat
      /\ held[a] + k + Target * c <= Target * doubts[a] + Target
  BY Numbers
<1>2. Target \in Nat /\ k \in Nat /\ Coming(a)' = k BY ComingIs
<1>3. IsFiniteSet(Doubtful(a)) BY DoubtfulFinite
<1>4. e = c - 1 /\ e \in Nat
  <2>1. e = c - 1 /\ IsFiniteSet(Doubtful(a) \ {i}) BY <1>3, FS_RemoveElement
  <2>2. QED BY <2>1, FS_CardinalityType
<1> HIDE DEF c, e, k
<1>5. c = e + 1 BY <1>1, <1>4
<1>6. Target * c = Target * e + Target /\ Target * e \in Nat BY <1>2, <1>4, <1>5, TimesMore
<1>7. Target * (1 + doubts[a]) = Target * doubts[a] + Target BY <1>1, <1>2, TimesMore
<1>8. e <= doubts[a] BY <1>1, <1>4
<1>9. held[a] + x + k + Target * e <= Target * (1 + doubts[a]) BY <1>1, <1>2, <1>6, <1>7
<1>10. QED BY <1>2, <1>8, <1>9 DEF BalanceOf, e

\* Only a run that waits for an answer waits for a transaction.
LEMMA NoSlot ==
  ASSUME SetupInv, run.phase # "wait" \/ run.verdict # "none"
  PROVE  run.slot \notin DOMAIN flight
<1>1. RunGood /\ DOMAIN flight \subseteq Slots BY DEF SetupInv, Types
<1>2. 0 \notin Slots BY DevnetSetupAssumption DEF Slots
<1>3. CASE run.phase # "wait" BY <1>1, <1>2, <1>3 DEF RunGood
<1>4. CASE run.verdict # "none" BY <1>1, <1>4 DEF RunGood
<1>5. QED BY <1>3, <1>4

\* A step of a run that waits for nothing, to where it sends nothing.
LEMMA BalanceCalm ==
  ASSUME SetupInv, SetupInv', BalanceInv, UNCHANGED <<flight, held, doubts>>,
         run.phase # "wait" \/ run.verdict # "none", run'.phase \in {"read", "look"}
  PROVE  BalanceInv'
<1> SUFFICES ASSUME NEW a \in Accounts PROVE BalanceOf(a)' BY DEF BalanceInv
<1>1. run.slot \notin DOMAIN flight BY NoSlot
<1>2. Doubtful(a)' \subseteq Doubtful(a) BY <1>1 DEF Doubtful, Pays, TopsUp
<1>3. Coming(a)' = 0 BY DEF Coming
<1>4. held'[a] \in Nat /\ held[a] \in Nat /\ held'[a] = held[a] /\ doubts'[a] = doubts[a]
  BY DEF SetupInv, Types
<1>5. Coming(a) \in Nat BY ComingIs
<1>6. held'[a] + Coming(a)' <= held[a] + Coming(a) BY <1>3, <1>4, <1>5
<1>7. Coming(a)' \in Nat BY <1>3
<1>8. QED BY <1>2, <1>4, <1>6, <1>7, BalanceShrinks

\* A step that leaves the run as it is, and lands nothing.
LEMMA BalanceSame ==
  ASSUME SetupInv, SetupInv', BalanceInv, UNCHANGED <<run, generated, doubts>>,
         \A k \in DOMAIN flight' : k \in DOMAIN flight /\ flight'[k] = flight[k],
         \A a \in Accounts : held'[a] <= held[a]
  PROVE  BalanceInv'
<1> SUFFICES ASSUME NEW a \in Accounts PROVE BalanceOf(a)' BY DEF BalanceInv
<1>1. Doubtful(a)' \subseteq Doubtful(a) BY DEF Doubtful, Pays, TopsUp
<1>2. Coming(a)' = Coming(a) BY DEF Coming, Step, Account, MintOf, TopsUp
<1>3. held'[a] \in Nat /\ held[a] \in Nat /\ held'[a] <= held[a] /\ doubts'[a] = doubts[a]
  BY DEF SetupInv, Types
<1>4. Coming(a) \in Nat BY ComingIs
<1>5. held'[a] + Coming(a)' <= held[a] + Coming(a) /\ Coming(a)' \in Nat BY <1>2, <1>3, <1>4
<1>6. QED BY <1>1, <1>3, <1>5, BalanceShrinks

LEMMA LookBalance == ASSUME SetupInv, SetupInv', BalanceInv, Look PROVE BalanceInv'
<1>1. /\ run.pc > 0 /\ run.phase = (IF Step.op = "mint" THEN "look" ELSE "read")
      /\ UNCHANGED <<passed, keyFile, generated, multiplier, chain, held, flight, told, book,
                     doubts, mishaps>>
  BY DEF Look
<1>2. run \in RunRecord /\ run.phase # "wait" BY <1>1 DEF SetupInv, Types
<1>3. CASE ~Missing(Step)
  <2>1. run' = [run EXCEPT !.phase = "read", !.pc = Reused(Step)] BY <1>3 DEF Look
  <2>2. run'.phase = "read" BY <1>2, <2>1 DEF RunRecord
  <2>3. QED BY <1>1, <1>2, <2>2, BalanceCalm
<1>4. CASE Missing(Step)
  <2> DEFINE short == IF TopsUp(Step) THEN Shortfall(Step) ELSE 0
  <2>1. run' = [run EXCEPT !.phase = "send", !.short = short] BY <1>4 DEF Look
  <2> HIDE DEF short
  <2>2. /\ run'.phase = "send" /\ run'.short = short /\ run'.pc = run.pc /\ run'.slot = run.slot
        /\ run'.verdict = run.verdict
    BY <1>2, <2>1 DEF RunRecord
  <2> SUFFICES ASSUME NEW a \in Accounts PROVE BalanceOf(a)' BY DEF BalanceInv
  <2>3. Doubtful(a)' = Doubtful(a) BY <1>1, <2>2 DEF Doubtful, Pays, TopsUp
  <2>4. held'[a] \in Nat /\ held[a] \in Nat /\ held'[a] = held[a] /\ doubts'[a] = doubts[a]
    BY <1>1 DEF SetupInv, Types
  <2>5. Step' = Step BY <2>2 DEF Step
  <2>6. Account(Step)' = Account(Step) BY <1>1, <2>5 DEF Account, MintOf
  <2>7. run.verdict = "none" BY <1>2 DEF SetupInv, RunGood
  <2>8. CASE TopsUp(Step) /\ Account(Step) = a
    <3>1. Coming(a)' = short BY <2>2, <2>5, <2>6, <2>7, <2>8 DEF Coming, TopsUp
    <3>2. Shortfall(Step) # 0 BY <1>4, <2>8 DEF Missing, TopsUp, Unretried
    <3>3. Shortfall(Step) \in 1..Target /\ held[a] + Shortfall(Step) = Target
      BY <1>1, <2>8, <3>2, ShortfallIs
    <3>4. short = Shortfall(Step) BY <2>8 DEF short
    <3>5. held'[a] + Coming(a)' = Target /\ Coming(a)' \in Nat
      <4>1. short \in Nat BY <3>3, <3>4, DevnetSetupAssumption
      <4>2. QED BY <2>4, <3>1, <3>3, <3>4, <4>1
    <3>6. QED BY <2>3, <2>4, <3>5, BalanceFills
  <2>9. CASE ~(TopsUp(Step) /\ Account(Step) = a)
    <3>1. Coming(a)' = 0 BY <2>5, <2>6, <2>9 DEF Coming, TopsUp
    <3>2. Coming(a) \in Nat BY ComingIs
    <3>3. held'[a] + Coming(a)' <= held[a] + Coming(a) /\ Coming(a)' \in Nat BY <2>4, <3>1, <3>2
    <3>4. QED BY <2>3, <2>4, <3>3, BalanceShrinks
  <2>10. QED BY <2>8, <2>9
<1>5. QED BY <1>3, <1>4

LEMMA SendBalance == ASSUME SetupInv, SetupInv', BalanceInv, Send PROVE BalanceInv'
<1>1. PICK i \in Slots :
        /\ run.pc > 0 /\ run.phase = "send" /\ i \notin DOMAIN flight
        /\ DOMAIN flight' = DOMAIN flight \cup {i}
        /\ \A k \in DOMAIN flight : flight'[k] = flight[k]
        /\ run' = [run EXCEPT !.phase = "wait", !.slot = i]
        /\ UNCHANGED <<passed, keyFile, generated, multiplier, chain, held, told, book, doubts,
                       mishaps>>
  <2>1. PICK i \in Slots :
        /\ run.pc > 0 /\ run.phase = "send" /\ i \notin DOMAIN flight
        /\ flight' = [k \in DOMAIN flight \cup {i} |->
             IF k = i THEN [step |-> Step, object |-> Object(Step), amount |-> run.short,
                            late |-> run.passed] ELSE flight[k]]
        /\ run' = [run EXCEPT !.phase = "wait", !.slot = i]
        /\ UNCHANGED <<passed, keyFile, generated, multiplier, chain, held, told, book, doubts,
                       mishaps>>
    BY DEF Send
  <2>2. /\ DOMAIN flight' = DOMAIN flight \cup {i}
        /\ \A k \in DOMAIN flight : flight'[k] = flight[k]
    BY <2>1
  <2>3. QED BY <2>1, <2>2
<1>2. run \in RunRecord BY DEF SetupInv, Types
<1>3. /\ run'.phase = "wait" /\ run'.short = run.short /\ run'.pc = run.pc /\ run'.slot = i
      /\ run'.verdict = run.verdict
  BY <1>1, <1>2 DEF RunRecord
<1> SUFFICES ASSUME NEW a \in Accounts PROVE BalanceOf(a)' BY DEF BalanceInv
<1>4. run.slot \notin DOMAIN flight BY <1>1, NoSlot
<1>5. Doubtful(a)' \subseteq Doubtful(a) BY <1>1, <1>3, <1>4 DEF Doubtful, Pays, TopsUp
<1>6. Step' = Step BY <1>3 DEF Step
<1>7. Account(Step)' = Account(Step) BY <1>1, <1>6 DEF Account, MintOf
<1>8. Coming(a)' = Coming(a) BY <1>1, <1>3, <1>6, <1>7 DEF Coming, TopsUp
<1>9. held'[a] \in Nat /\ held[a] \in Nat /\ held'[a] = held[a] /\ doubts'[a] = doubts[a]
  BY <1>1 DEF SetupInv, Types
<1>10. Coming(a) \in Nat BY ComingIs
<1>11. held'[a] + Coming(a)' <= held[a] + Coming(a) /\ Coming(a)' \in Nat BY <1>8, <1>9, <1>10
<1>12. QED BY <1>5, <1>9, <1>11, BalanceShrinks

\* The run gives up on what it waits for, and ends or sends again.
LEMMA DoubtBalance ==
  ASSUME SetupInv, SetupInv', BalanceInv, run.pc > 0, run.phase = "wait", Doubt,
         run' = Off \/ Resend, UNCHANGED <<generated, held, flight>>
  PROVE  BalanceInv'
<1>1. run \in RunRecord /\ RunGood BY DEF SetupInv, Types
<1>2. /\ run'.slot = 0
      /\ run'.phase = "read" \/ (run'.pc = run.pc /\ run'.short = run.short)
  <2>1. CASE run' = Off BY <2>1 DEF Off
  <2>2. CASE Resend
    <3>1. run' = [run EXCEPT !.phase = "send", !.slot = 0, !.verdict = "none"]
      BY <2>2 DEF Resend
    <3>2. QED BY <1>1, <3>1 DEF RunRecord
  <2>3. QED BY <2>1, <2>2
<1>3. run.verdict = "none" => /\ run.slot \in DOMAIN flight
                              /\ flight[run.slot].step = Step /\ flight[run.slot].object = Object(Step)
  BY <1>1 DEF RunGood
<1>4. run.verdict # "none" => run.slot \notin DOMAIN flight BY NoSlot
<1> SUFFICES ASSUME NEW a \in Accounts PROVE BalanceOf(a)' BY DEF BalanceInv
<1>5. Coming(a) \in Nat BY ComingIs
<1>6. held'[a] \in Nat /\ held[a] \in Nat /\ held'[a] = held[a] BY DEF SetupInv, Types
<1>7. Doubtful(a)' \subseteq Doubtful(a) \cup {run.slot} BY DEF Doubtful, Pays, TopsUp
<1>8. CASE TopsUp(Step) /\ Account(Step) = a
  <2>1. doubts'[a] = doubts[a] + 1 BY <1>8 DEF Doubt, SetupInv, Types
  <2>2. run.short \in 1..Target /\ Target \in Nat
    BY <1>1, <1>8, DevnetSetupAssumption DEF RunGood
  <2>3. Coming(a)' = 0 \/ Coming(a)' = run.short
    <3>1. CASE run'.phase = "read" BY <3>1 DEF Coming
    <3>2. CASE run'.phase # "read" BY <1>2, <3>2 DEF Coming
    <3>3. QED BY <3>1, <3>2
  <2>4. CASE run.verdict = "none"
    <3>1. Coming(a) = run.short BY <1>8, <2>4 DEF Coming
    <3>2. Coming(a)' \in Nat /\ Coming(a)' <= Coming(a) BY <2>2, <2>3, <3>1
    <3>3. QED BY <1>6, <1>7, <2>1, <3>2, BalanceDoubts
  <2>5. CASE run.verdict # "none"
    <3>1. Coming(a)' \in Nat /\ Coming(a)' <= Target BY <2>2, <2>3
    <3>2. Doubtful(a)' \subseteq Doubtful(a) BY <1>4, <2>5 DEF Doubtful, Pays, TopsUp
    <3>3. QED BY <1>6, <2>1, <3>1, <3>2, BalanceDoubts
  <2>6. QED BY <2>4, <2>5
<1>9. CASE ~(TopsUp(Step) /\ Account(Step) = a)
  <2>1. doubts'[a] = doubts[a] BY <1>9 DEF Doubt, SetupInv, Types
  <2>2. Coming(a)' = 0
    <3>1. CASE run'.phase = "read" BY <3>1 DEF Coming
    <3>2. CASE run'.pc = run.pc
      <4>1. Step' = Step BY <3>2 DEF Step
      <4>2. Account(Step)' = Account(Step) BY <4>1 DEF Account, MintOf
      <4>3. QED BY <1>9, <4>1, <4>2 DEF Coming, TopsUp
    <3>3. QED BY <1>2, <3>1, <3>2
  <2>3. run.slot \in DOMAIN flight => ~Pays(flight[run.slot], a)
    <3>1. SUFFICES ASSUME run.slot \in DOMAIN flight, Pays(flight[run.slot], a) PROVE FALSE
      OBVIOUS
    <3>2. flight[run.slot].step = Step /\ flight[run.slot].object = Object(Step)
      BY <1>3, <1>4, <3>1
    <3>3. TopsUp(Step) /\ a = <<<<Step.of, Object(Step)[3]>>, Step.op>>
      BY <3>1, <3>2 DEF Pays
    <3>4. QED BY <1>9, <3>3, AccountIs
  <2>4. Doubtful(a)' \subseteq Doubtful(a) BY <2>3 DEF Doubtful, Pays, TopsUp
  <2>5. held'[a] + Coming(a)' <= held[a] + Coming(a) /\ Coming(a)' \in Nat BY <1>5, <1>6, <2>2
  <2>6. QED BY <1>6, <2>1, <2>4, <2>5, BalanceShrinks
<1>10. QED BY <1>8, <1>9

\* What lands was counted: as what the run adds, or as a top up that was given up on.
LEMMA LandBalance ==
  ASSUME SetupInv, SetupInv', BalanceInv, NEW i \in DOMAIN flight, Land(i)
  PROVE  BalanceInv'
<1> DEFINE x == flight[i]
           b == <<<<x.step.of, x.object[3]>>, x.step.op>>
<1>1. PICK v \in {"ok", "err"} : Judged(i, v) BY DEF Land
<1>2. /\ Without(i) /\ UNCHANGED <<generated, doubts>>
      /\ held' = held \/ (TopsUp(x.step) /\ held' = [held EXCEPT ![b] = @ + x.amount])
  BY DEF Land
<1>3. /\ \A f \in {"pc", "phase", "slot", "short", "passed"} : run'[f] = run[f]
      /\ run.slot = i => /\ run'.verdict = v /\ run.verdict = "none" /\ run.phase = "wait"
                         /\ run.pc > 0
                         /\ x = [step |-> Step, object |-> Object(Step), amount |-> run.short,
                                 late |-> run.passed]
      /\ run.slot # i => run' = run
  BY <1>1, JudgedRun
<1>4. /\ DOMAIN flight' = DOMAIN flight \ {i}
      /\ \A k \in DOMAIN flight' : k \in DOMAIN flight /\ flight'[k] = flight[k]
  BY <1>2, WithoutIs
<1>5. TopsUp(x.step) => b \in Accounts /\ x.amount \in 1..Target
  <2>1. TopsUp(x.step) => b \in Accounts BY FlightMint
  <2>2. FlightGood(x) BY DEF SetupInv
  <2>3. QED BY <2>1, <2>2 DEF FlightGood
<1>6. held \in [Accounts -> Nat] /\ held' \in [Accounts -> Nat] BY DEF SetupInv, Types
<1>7. run'.pc = run.pc /\ run'.slot = run.slot /\ run'.phase = run.phase /\ run'.short = run.short
  BY <1>3
<1>8. run.slot = i => x.step = Step /\ x.object = Object(Step) /\ x.amount = run.short
  BY <1>3
<1> HIDE DEF x, b
<1> SUFFICES ASSUME NEW a \in Accounts PROVE BalanceOf(a)' BY DEF BalanceInv
<1>10. held'[a] \in Nat /\ held[a] \in Nat /\ doubts'[a] = doubts[a] BY <1>2, <1>6
<1>11. held'[a] = held[a] \/ (TopsUp(x.step) /\ a = b /\ held'[a] = held[a] + x.amount)
  BY <1>2, <1>5, <1>6
<1>12. Coming(a) \in Nat BY ComingIs
<1>13. CASE run.slot = i
  <2>1. Doubtful(a)' \subseteq Doubtful(a) BY <1>4, <1>7 DEF Doubtful, Pays, TopsUp
  <2>2. Coming(a)' = 0
    <3>1. run'.verdict # "none" BY <1>3, <1>13
    <3>2. QED BY <3>1 DEF Coming
  <2>3. held'[a] <= held[a] + Coming(a)
    <3>1. CASE held'[a] = held[a] BY <1>10, <1>12, <3>1
    <3>2. CASE TopsUp(x.step) /\ a = b /\ held'[a] = held[a] + x.amount
      <4>1. TopsUp(Step) /\ run.verdict = "none" /\ run.phase = "wait" /\ run.pc > 0
        BY <1>3, <1>8, <1>13, <3>2
      <4>2. Account(Step) = <<<<Step.of, Object(Step)[3]>>, Step.op>> BY <4>1, AccountIs
      <4>3. Account(Step) = a BY <1>8, <1>13, <3>2, <4>2 DEF b
      <4>4. Coming(a) = run.short BY <4>1, <4>3 DEF Coming
      <4>5. QED BY <1>8, <1>10, <1>12, <1>13, <3>2, <4>4
    <3>3. QED BY <1>11, <3>1, <3>2
  <2>4. held'[a] + Coming(a)' <= held[a] + Coming(a) /\ Coming(a)' \in Nat
    BY <1>10, <1>12, <2>2, <2>3
  <2>5. QED BY <1>10, <2>1, <2>4, BalanceShrinks
<1>14. CASE run.slot # i
  <2>1. run' = run BY <1>3, <1>14
  <2>2. Coming(a)' = Coming(a) BY <1>2, <2>1 DEF Coming, Step, Account, MintOf, TopsUp
  <2>3. Doubtful(a)' = Doubtful(a) \ {i} BY <1>4, <2>1 DEF Doubtful, Pays, TopsUp
  <2>4. CASE held'[a] = held[a]
    <3>1. Doubtful(a)' \subseteq Doubtful(a) BY <2>3
    <3>2. held'[a] + Coming(a)' <= held[a] + Coming(a) /\ Coming(a)' \in Nat
      BY <1>10, <1>12, <2>2, <2>4
    <3>3. QED BY <1>10, <3>1, <3>2, BalanceShrinks
  <2>5. CASE TopsUp(x.step) /\ a = b /\ held'[a] = held[a] + x.amount
    <3>1. i \in Doubtful(a) BY <1>14, <2>5 DEF Doubtful, Pays, x, b
    <3>2. x.amount \in 1..Target BY <1>5, <2>5
    <3>3. QED BY <1>10, <2>2, <2>3, <2>5, <3>1, <3>2, BalanceLands
  <2>6. QED BY <1>11, <2>4, <2>5
<1>15. QED BY <1>13, <1>14

LEMMA BalanceInit == Init => BalanceInv
<1> SUFFICES ASSUME Init, NEW a \in Accounts PROVE BalanceOf(a) BY DEF BalanceInv
<1>1. held[a] = 0 /\ doubts[a] = 0 /\ DOMAIN flight = {} /\ run.phase = "read" BY DEF Init, Off
<1>2. Doubtful(a) = {} /\ Coming(a) = 0 BY <1>1 DEF Doubtful, Coming
<1>3. Cardinality(Doubtful(a)) = 0 BY <1>2, FS_EmptySet
<1>4. Target \in Nat BY DevnetSetupAssumption
<1>5. Target * 0 = 0 /\ Target * (1 + 0) = Target BY <1>4
<1>6. QED BY <1>1, <1>2, <1>3, <1>4, <1>5 DEF BalanceOf

LEMMA BalanceStep == SetupInv /\ SetupInv' /\ BalanceInv /\ [Next]_vars => BalanceInv'
<1> SUFFICES ASSUME SetupInv, SetupInv', BalanceInv, [Next]_vars PROVE BalanceInv' OBVIOUS
<1>1. RunGood /\ run \in RunRecord /\ held \in [Accounts -> Nat] BY DEF SetupInv, Types
<1>2. Off.phase = "read" /\ Off.slot = 0 BY DEF Off
<1>3. CASE Start
  <2>1. run.phase = "read" BY <1>1, <1>2, <1>3 DEF Start, RunGood
  <2>2. run'.phase = "read" /\ UNCHANGED <<flight, held, doubts>> BY <1>3 DEF Start, Off
  <2>3. QED BY <2>1, <2>2, BalanceCalm
<1>4. CASE OpenKey
  <2>1. run.phase = "read" /\ UNCHANGED <<flight, held, doubts>> BY <1>4 DEF OpenKey
  <2>2. run'.phase = "look" BY <1>1, <1>4 DEF OpenKey, RunRecord
  <2>3. QED BY <2>1, <2>2, BalanceCalm
<1>5. CASE NoKeeper
  <2>1. run.phase = "read" /\ UNCHANGED <<flight, held, doubts>> BY <1>5 DEF NoKeeper
  <2>2. run'.phase = "read" BY <1>1, <1>5 DEF NoKeeper, RunRecord
  <2>3. QED BY <2>1, <2>2, BalanceCalm
<1>6. CASE Confirm
  <2>1. run.verdict # "none" /\ UNCHANGED <<flight, held, doubts>> BY <1>6 DEF Confirm
  <2>2. run'.phase = "read" BY <1>1, <1>6 DEF Confirm, RunRecord
  <2>3. QED BY <2>1, <2>2, BalanceCalm
<1>7. CASE Rejected
  <2>1. /\ run.verdict # "none" /\ UNCHANGED <<flight, held, doubts>>
        /\ run' = Off
    BY <1>7 DEF Rejected, Die
  <2>2. QED BY <1>2, <2>1, BalanceCalm
<1>8. CASE CheckFeed \/ Verify \/ Save
  <2>1. /\ Step.op \in {"feed", "verify", "save"} /\ UNCHANGED <<flight, held, doubts>>
        /\ run' = Off \/ run' = [run EXCEPT !.pc = @ + 1]
    BY <1>8 DEF CheckFeed, Verify, Save, Die
  <2>2. run.phase \notin {"send", "wait"} BY <1>1, <2>1 DEF RunGood
  <2>3. run'.phase \in {"read", "look"} BY <1>1, <1>2, <2>1, <2>2 DEF RunRecord
  <2>4. QED BY <2>1, <2>2, <2>3, BalanceCalm
<1>9. CASE Unknown \/ Misjudge
  <2>1. /\ run.phase = "wait" /\ Doubt /\ (run' = Off \/ Resend)
        /\ UNCHANGED <<generated, held, flight>>
    BY <1>9 DEF Unknown, Misjudge, Die
  <2>2. run.pc > 0
    <3>1. run.pc # 0 BY <1>1, <2>1 DEF RunGood, Off
    <3>2. Len(Steps) \in Nat BY StepsAre
    <3>3. run.pc \in 0..Len(Steps) BY <1>1 DEF RunRecord
    <3>4. QED BY <3>1, <3>2, <3>3
  <2>3. QED BY <2>1, <2>2, DoubtBalance
<1>10. CASE Fail
  <2>1. /\ run.pc > 0 /\ run' = Off /\ UNCHANGED <<generated, held, flight>>
        /\ IF run.phase = "wait" THEN Doubt ELSE UNCHANGED doubts
    BY <1>10 DEF Fail, Die
  <2>2. CASE run.phase = "wait" BY <2>1, <2>2, DoubtBalance
  <2>3. CASE run.phase # "wait" BY <1>2, <2>1, <2>3, BalanceCalm
  <2>4. QED BY <2>2, <2>3
<1>11. ASSUME NEW i \in DOMAIN flight, Drop(i) PROVE BalanceInv'
  <2>1. /\ UNCHANGED <<run, generated, doubts, held>>
        /\ \A k \in DOMAIN flight' : k \in DOMAIN flight /\ flight'[k] = flight[k]
    BY <1>11, WithoutIs DEF Drop
  <2>2. \A a \in Accounts : held'[a] <= held[a] BY <1>1, <2>1
  <2>3. QED BY <2>1, <2>2, BalanceSame
<1>12. CASE Spend
  <2>1. UNCHANGED <<run, generated, doubts, flight>> BY <1>12 DEF Spend
  <2>2. PICK b \in Accounts : held' = [held EXCEPT ![b] = @ - 1] BY <1>12 DEF Spend
  <2>3. \A a \in Accounts : held'[a] <= held[a] BY <1>1, <2>2
  <2>4. QED BY <2>1, <2>3, BalanceSame
<1>13. ASSUME UNCHANGED <<run, generated, doubts, flight, held>> PROVE BalanceInv'
  <2>1. \A a \in Accounts : held'[a] <= held[a] BY <1>1, <1>13
  <2>2. QED BY <1>13, <2>1, BalanceSame
<1>14. CASE Pass BY <1>13, <1>14 DEF Pass
<1>15. ASSUME NEW l \in Labels, DeleteKey(l) PROVE BalanceInv' BY <1>13, <1>15 DEF DeleteKey
<1>16. CASE UNCHANGED vars BY <1>13, <1>16 DEF vars
<1>17. CASE Runs
  BY <1>4, <1>5, <1>6, <1>7, <1>8, <1>17, LookBalance, SendBalance DEF Runs
<1>18. ASSUME NEW i \in DOMAIN flight, Land(i) PROVE BalanceInv' BY <1>18, LandBalance
<1>19. QED BY <1>3, <1>9, <1>10, <1>11, <1>12, <1>14, <1>15, <1>16, <1>17, <1>18 DEF Next

\* "Minting only the shortfall, so reruns never inflate a balance without bound": what an
\* account holds over its target is paid for by top ups whose outcome the script did not
\* learn, whatever was interrupted, resent or landed late.
THEOREM NeverInflates == Spec => []NeverInflated
<1>1. SetupInv /\ BalanceInv => NeverInflated
  <2> SUFFICES ASSUME SetupInv, BalanceInv, NEW a \in Accounts
               PROVE  held[a] <= Target * (1 + doubts[a])
    BY DEF NeverInflated
  <2> DEFINE c == Cardinality(Doubtful(a))
             k == Coming(a)
  <2>1. /\ c \in Nat /\ held[a] \in Nat /\ doubts[a] \in Nat
        /\ Target * c \in Nat /\ Target * doubts[a] \in Nat
        /\ held[a] + k + Target * c <= Target * doubts[a] + Target
    BY Numbers
  <2>2. k \in Nat /\ Target \in Nat BY ComingIs
  <2> HIDE DEF c, k
  <2>3. Target * (1 + doubts[a]) = Target * doubts[a] + Target BY <2>1, <2>2, TimesMore
  <2>4. QED BY <2>1, <2>2, <2>3
<1>2. QED BY <1>1, SetupInit, SetupStep, BalanceInit, BalanceStep, PTL DEF Spec
=============================================================================
