------------------------------ MODULE DataLemmas ------------------------------
(***************************************************************************)
(* Facts about the data of the models that the other proofs cite: least    *)
(* elements, quotients, and sums over finite sets as the community         *)
(* modules' folds compute them.  The least-element principle stands for    *)
(* induction: of the numbers that refute a claim it gives the first.       *)
(***************************************************************************)
EXTENDS Integers, FiniteSets, FiniteSetsExt, FiniteSetTheorems, WellFoundedInduction, TLAPS

\* A nonempty set of numbers has a least one.
LEMMA LeastOf == ASSUME NEW T, T \subseteq Nat, T # {} PROVE \E x \in T : \A y \in T : x <= y
  <1> DEFINE R == {ss \in Nat \X Nat : ss[1] < ss[2]}
  <1>1. IsWellFoundedOn(R, Nat)
    BY NatLessThanWellFounded DEF OpToRel
  <1>2. PICK x \in T : \A y \in T : ~ (<<y, x>> \in R)
    <2> HIDE DEF R
    <2> QED BY <1>1, WFMin
  <1>3. ASSUME NEW y \in T PROVE x <= y
    <2>1. x \in Nat /\ y \in Nat /\ <<y, x>> \in Nat \X Nat /\ <<y, x>>[1] = y /\ <<y, x>>[2] = x
      OBVIOUS
    <2>2. ~(y < x)
      BY <1>2, <2>1, <1>3
    <2>3. QED BY <2>1, <2>2
  <1>4. QED BY <1>3

\* A finite set of numbers has a greatest and a least one, and the community
\* modules' Max and Min are these.
LEMMA MaxIs ==
    ASSUME NEW S, IsFiniteSet(S), S \subseteq Int, S # {}
    PROVE  Max(S) \in S /\ \A y \in S : Max(S) >= y
  <1> DEFINE Topped(s) == \E x \in s : \A y \in s : x >= y
             Bad == {k \in Nat : \E s \in SUBSET Int : IsFiniteSet(s) /\ Cardinality(s) = k /\ s # {} /\ ~Topped(s)}
  <1>1. Topped(S)
    <2>1. SUFFICES ASSUME ~Topped(S) PROVE FALSE
      OBVIOUS
    <2>2. Cardinality(S) \in Bad
      BY <2>1, FS_CardinalityType
    <2>3. PICK k \in Bad : \A j \in Bad : k <= j
      <3>1. Bad \subseteq Nat /\ Bad # {}
        BY <2>2
      <3> HIDE DEF Bad
      <3>2. QED
        BY <3>1, LeastOf
    <2>4. PICK s \in SUBSET Int : IsFiniteSet(s) /\ Cardinality(s) = k /\ s # {} /\ ~Topped(s)
      BY <2>3
    <2>5. PICK a \in s : TRUE
      BY <2>4
    <2>6. /\ IsFiniteSet(s \ {a}) /\ Cardinality(s \ {a}) = k - 1
          /\ k \in Nat /\ Cardinality(s \ {a}) \in Nat
      BY <2>4, <2>5, FS_RemoveElement, FS_CardinalityType
    <2>7. CASE s \ {a} = {}
      BY <2>4, <2>5, <2>7
    <2>8. CASE s \ {a} # {}
      <3>1. k - 1 \notin Bad
        BY <2>3, <2>6
      <3>2. Topped(s \ {a})
        BY <2>4, <2>6, <2>8, <3>1
      <3>3. PICK b \in s \ {a} : \A y \in s \ {a} : b >= y
        BY <3>2
      <3>4. a \in Int /\ b \in Int /\ \A y \in s : y \in Int
        BY <2>4, <2>5, <3>3
      <3>5. CASE a >= b
        <4>1. \A y \in s : a >= y
          BY <3>3, <3>4, <3>5
        <4>2. QED
          BY <2>4, <2>5, <4>1
      <3>6. CASE ~(a >= b)
        <4>1. \A y \in s : b >= y
          BY <3>3, <3>4, <3>6
        <4>2. QED
          BY <2>4, <3>3, <4>1
      <3>7. QED
        BY <3>5, <3>6
    <2>9. QED
      BY <2>7, <2>8
  <1>2. QED
    BY <1>1 DEF Max

LEMMA MinIs ==
    ASSUME NEW S, S \subseteq Nat, S # {}
    PROVE  Min(S) \in S /\ \A y \in S : Min(S) <= y
  BY LeastOf DEF Min

-----------------------------------------------------------------------------
(* Sums. *)

Chosen(s) == CHOOSE x \in s : TRUE

\* g is the recursion of MapThenFoldSet over the subsets of S, for the sum of f.
IsSum(g, f, S) == g = [s \in SUBSET S |-> IF s = {} THEN 0 ELSE f[Chosen(s)] + g[s \ {Chosen(s)}]]

SumOver(f, S) == (CHOOSE g : IsSum(g, f, S))[S]

\* What is summed has whole numbers for values.
Summed(f, S) == IsFiniteSet(S) /\ \A x \in S : f[x] \in Int

LEMMA ChosenIn == ASSUME NEW s, s # {} PROVE Chosen(s) \in s
  BY DEF Chosen

LEMMA ChosenLeaves ==
    ASSUME NEW s, IsFiniteSet(s), s # {}
    PROVE  /\ Chosen(s) \in s /\ IsFiniteSet(s \ {Chosen(s)})
           /\ Cardinality(s) \in Nat \ {0} /\ Cardinality(s \ {Chosen(s)}) = Cardinality(s) - 1
  <1>1. Chosen(s) \in s
    BY ChosenIn
  <1>2. IsFiniteSet(s \ {Chosen(s)}) /\ Cardinality(s \ {Chosen(s)}) = Cardinality(s) - 1
    BY <1>1, FS_RemoveElement
  <1>3. Cardinality(s) \in Nat /\ Cardinality(s) # 0
    BY FS_CardinalityType, FS_EmptySet
  <1>4. QED
    BY <1>1, <1>2, <1>3

\* Two sums agree on a common subset if what they sum does.
LEMMA SumUnique ==
    ASSUME NEW S, NEW T, NEW f, NEW e, NEW g, NEW h, IsSum(g, f, S), IsSum(h, e, T),
           NEW t, t \subseteq S, t \subseteq T, IsFiniteSet(t), \A x \in t : f[x] = e[x]
    PROVE  g[t] = h[t]
  <1> DEFINE Bad == {k \in Nat : \E s \in SUBSET t : Cardinality(s) = k /\ g[s] # h[s]}
  <1>1. SUFFICES ASSUME g[t] # h[t] PROVE FALSE
    OBVIOUS
  <1>2. Cardinality(t) \in Bad
    BY <1>1, FS_CardinalityType
  <1>3. PICK m \in Bad : \A k \in Bad : m <= k
    <2>1. Bad \subseteq Nat /\ Bad # {}
      BY <1>2
    <2> HIDE DEF Bad
    <2>2. QED
      BY <2>1, LeastOf
  <1>4. PICK s \in SUBSET t : Cardinality(s) = m /\ g[s] # h[s]
    BY <1>3
  <1>5. /\ g[s] = IF s = {} THEN 0 ELSE f[Chosen(s)] + g[s \ {Chosen(s)}]
        /\ h[s] = IF s = {} THEN 0 ELSE e[Chosen(s)] + h[s \ {Chosen(s)}]
    BY DEF IsSum
  <1>6. s # {} /\ IsFiniteSet(s)
    BY <1>4, <1>5, FS_Subset
  <1>7. /\ Chosen(s) \in s /\ m \in Nat \ {0} /\ Cardinality(s \ {Chosen(s)}) = m - 1
    BY <1>4, <1>6, ChosenLeaves
  <1>8. g[s \ {Chosen(s)}] = h[s \ {Chosen(s)}]
    <2>1. m - 1 \in Nat /\ ~(m <= m - 1)
      BY <1>7
    <2>2. m - 1 \notin Bad
      BY <1>3, <2>1
    <2>3. s \ {Chosen(s)} \in SUBSET t
      OBVIOUS
    <2>4. QED
      BY <1>7, <2>1, <2>2, <2>3
  <1>9. QED
    BY <1>4, <1>5, <1>6, <1>7, <1>8

\* The recursion has a solution.
LEMMA SumExists ==
    ASSUME NEW S, NEW f, Summed(f, S)
    PROVE  \E g : IsSum(g, f, S) /\ g \in [SUBSET S -> Int]
  <1> DEFINE Small(k) == {s \in SUBSET S : Cardinality(s) <= k}
             Value(g, s) == IF s = {} THEN 0 ELSE f[Chosen(s)] + g[s \ {Chosen(s)}]
             Solves(g, k) == g \in [Small(k) -> Int] /\ \A s \in Small(k) : g[s] = Value(g, s)
             Bad == {k \in Nat : \A g : ~Solves(g, k)}
  <1>0. \A s \in SUBSET S : IsFiniteSet(s) /\ Cardinality(s) \in Nat
    BY FS_Subset, FS_CardinalityType DEF Summed
  <1>1. ASSUME NEW k \in Nat PROVE k \notin Bad
    <2>1. SUFFICES ASSUME k \in Bad PROVE FALSE
      OBVIOUS
    <2>2. PICK m \in Bad : \A i \in Bad : m <= i
      <3>1. Bad \subseteq Nat /\ Bad # {}
        BY <2>1
      <3> HIDE DEF Bad
      <3>2. QED
        BY <3>1, LeastOf
    <2>3. CASE m = 0
      <3>1. \A s \in Small(0) : s = {}
        BY <1>0, FS_EmptySet
      <3>2. Solves([s \in Small(0) |-> 0], 0)
        BY <3>1
      <3>3. QED
        BY <2>2, <2>3, <3>2
    <2>4. CASE m # 0
      <3>1. m \in Nat /\ m - 1 \in Nat /\ ~(m <= m - 1)
        BY <2>2, <2>4
      <3>2. PICK g : Solves(g, m - 1)
        BY <2>2, <3>1
      <3> DEFINE h == [s \in Small(m) |-> Value(g, s)]
      <3>3. ASSUME NEW s \in Small(m), s # {}
            PROVE  Chosen(s) \in S /\ s \ {Chosen(s)} \in Small(m - 1) /\ s \ {Chosen(s)} \in Small(m)
        <4>1. Chosen(s) \in s /\ Cardinality(s) \in Nat /\ Cardinality(s \ {Chosen(s)}) = Cardinality(s) - 1
          BY <1>0, <3>3, ChosenLeaves
        <4>2. Cardinality(s) <= m
          OBVIOUS
        <4>3. Cardinality(s \ {Chosen(s)}) <= m - 1 /\ Cardinality(s \ {Chosen(s)}) <= m
          BY <3>1, <4>1, <4>2
        <4>4. QED
          BY <4>1, <4>3
      <3>4. \A s \in Small(m - 1) : g[s] \in Int /\ g[s] = Value(g, s)
        BY <3>2
      <3>5. ASSUME NEW s \in Small(m) PROVE Value(g, s) \in Int /\ Value(g, s) = Value(h, s)
        <4>1. CASE s = {}
          BY <4>1
        <4>2. CASE s # {}
          <5> DEFINE r == s \ {Chosen(s)}
          <5>1. f[Chosen(s)] \in Int /\ r \in Small(m - 1) /\ r \in Small(m)
            BY <3>3, <4>2 DEF Summed
          <5>2. g[r] \in Int /\ g[r] = Value(g, r)
            BY <3>4, <5>1
          <5>3. h[r] = Value(g, r)
            BY <5>1
          <5> HIDE DEF h, r
          <5>4. Value(g, s) = f[Chosen(s)] + g[r] /\ Value(h, s) = f[Chosen(s)] + h[r]
            BY <4>2 DEF r
          <5>5. QED
            BY <5>1, <5>2, <5>3, <5>4
        <4>3. QED
          BY <4>1, <4>2
      <3>6. h \in [Small(m) -> Int] /\ \A s \in Small(m) : h[s] = Value(h, s)
        <4>1. \A s \in Small(m) : h[s] = Value(g, s)
          OBVIOUS
        <4>2. h = [s \in Small(m) |-> Value(g, s)]
          OBVIOUS
        <4> HIDE DEF h, Value, Small
        <4>3. h \in [Small(m) -> Int]
          BY <3>5, <4>2
        <4>4. QED
          BY <3>5, <4>1, <4>3
      <3>7. Solves(h, m)
        BY <3>6
      <3>8. QED
        BY <2>2, <3>7
    <2>5. QED
      BY <2>3, <2>4
  <1>2. Cardinality(S) \in Nat
    BY <1>0
  <1>3. PICK g : Solves(g, Cardinality(S))
    BY <1>1, <1>2
  <1>4. Small(Cardinality(S)) = SUBSET S
    BY FS_Subset DEF Summed
  <1>5. QED
    BY <1>3, <1>4 DEF IsSum

\* The sum is a whole number, and the value of any solution.
LEMMA SumIs ==
    ASSUME NEW S, NEW f, Summed(f, S)
    PROVE  /\ SumOver(f, S) \in Int
           /\ \A g : IsSum(g, f, S) => g[S] = SumOver(f, S)
  <1> DEFINE c == CHOOSE g : IsSum(g, f, S)
  <1>1. PICK h : IsSum(h, f, S) /\ h \in [SUBSET S -> Int]
    BY SumExists
  <1>2. IsSum(c, f, S)
    BY <1>1
  <1> HIDE DEF c
  <1>3. \A g : IsSum(g, f, S) => g[S] = c[S]
    BY <1>2, SumUnique DEF Summed
  <1>4. c[S] = h[S] /\ h[S] \in Int
    BY <1>1, <1>3
  <1>5. SumOver(f, S) = c[S]
    BY DEF SumOver, c
  <1>6. QED
    BY <1>3, <1>4, <1>5

\* The sum of equal things over one set.
LEMMA SumSame ==
    ASSUME NEW S, NEW f, NEW e, Summed(f, S), \A x \in S : f[x] = e[x]
    PROVE  SumOver(f, S) = SumOver(e, S)
  <1>1. Summed(e, S)
    BY DEF Summed
  <1>2. PICK g : IsSum(g, f, S)
    BY SumExists
  <1>3. PICK h : IsSum(h, e, S)
    BY <1>1, SumExists
  <1>4. g[S] = h[S]
    BY <1>2, <1>3, SumUnique DEF Summed
  <1>5. QED
    BY <1>1, <1>2, <1>3, <1>4, SumIs

\* The recursion, one step at a time.
LEMMA SumStep ==
    ASSUME NEW S, NEW f, Summed(f, S)
    PROVE  /\ S = {} => SumOver(f, S) = 0
           /\ S # {} => SumOver(f, S) = f[Chosen(S)] + SumOver(f, S \ {Chosen(S)})
  <1>1. PICK g : IsSum(g, f, S)
    BY SumExists
  <1>2. g[S] = (IF S = {} THEN 0 ELSE f[Chosen(S)] + g[S \ {Chosen(S)}]) /\ g[S] = SumOver(f, S)
    BY <1>1, SumIs DEF IsSum
  <1>3. ASSUME S # {} PROVE g[S \ {Chosen(S)}] = SumOver(f, S \ {Chosen(S)})
    <2> DEFINE R == S \ {Chosen(S)}
    <2>1. Summed(f, R) /\ R \subseteq S
      BY FS_Subset DEF Summed
    <2> HIDE DEF R
    <2>2. PICK h : IsSum(h, f, R)
      BY <2>1, SumExists
    <2>3. h[R] = SumOver(f, R)
      BY <2>1, <2>2, SumIs
    <2>4. g[R] = h[R]
      BY <1>1, <2>1, <2>2, SumUnique DEF Summed
    <2>5. QED
      BY <2>3, <2>4 DEF R
  <1>4. QED
    BY <1>2, <1>3

\* The order in which the elements are chosen makes no difference.
LEMMA SumRemove ==
    ASSUME NEW S, NEW f, Summed(f, S), NEW a \in S
    PROVE  SumOver(f, S) = f[a] + SumOver(f, S \ {a})
  <1> DEFINE Bad == {k \in Nat : \E s \in SUBSET S : /\ Cardinality(s) = k
                                                    /\ \E b \in s : SumOver(f, s) # f[b] + SumOver(f, s \ {b})}
  <1>1. SUFFICES ASSUME SumOver(f, S) # f[a] + SumOver(f, S \ {a}) PROVE FALSE
    OBVIOUS
  <1>2. Cardinality(S) \in Bad
    BY <1>1, FS_CardinalityType DEF Summed
  <1>3. PICK m \in Bad : \A k \in Bad : m <= k
    <2>1. Bad \subseteq Nat /\ Bad # {}
      BY <1>2
    <2> HIDE DEF Bad
    <2>2. QED
      BY <2>1, LeastOf
  <1>4. PICK s \in SUBSET S : Cardinality(s) = m /\ \E x \in s : SumOver(f, s) # f[x] + SumOver(f, s \ {x})
    BY <1>3
  <1>15. PICK b \in s : SumOver(f, s) # f[b] + SumOver(f, s \ {b})
    BY <1>4
  <1> DEFINE c == Chosen(s)
  <1>5. ASSUME NEW t \in SUBSET S PROVE Summed(f, t) /\ IsFiniteSet(t) /\ SumOver(f, t) \in Int
    BY FS_Subset, SumIs DEF Summed
  <1>6. /\ c \in s /\ m \in Nat \ {0} /\ Cardinality(s \ {c}) = m - 1 /\ Cardinality(s \ {b}) = m - 1
        /\ f[b] \in Int /\ f[c] \in Int
    <2>1. c \in s /\ m \in Nat \ {0} /\ Cardinality(s \ {c}) = m - 1
      BY <1>4, <1>5, ChosenLeaves
    <2>2. Cardinality(s \ {b}) = m - 1
      BY <1>4, <1>5, FS_RemoveElement
    <2>3. QED
      BY <2>1, <2>2 DEF Summed
  <1>7. SumOver(f, s) = f[c] + SumOver(f, s \ {c})
    BY <1>4, <1>5, SumStep
  <1> HIDE DEF c
  <1>8. b # c
    BY <1>15, <1>7
  <1>9. \A t \in SUBSET S : \A x \in t : Cardinality(t) = m - 1 => SumOver(f, t) = f[x] + SumOver(f, t \ {x})
    <2>1. m - 1 \in Nat /\ ~(m <= m - 1)
      BY <1>6
    <2>2. m - 1 \notin Bad
      BY <1>3, <2>1
    <2>3. QED
      BY <2>1, <2>2
  <1>10. SumOver(f, s \ {c}) = f[b] + SumOver(f, (s \ {c}) \ {b})
    BY <1>6, <1>8, <1>9
  <1>11. SumOver(f, s \ {b}) = f[c] + SumOver(f, (s \ {b}) \ {c})
    BY <1>6, <1>8, <1>9
  <1>12. (s \ {c}) \ {b} = (s \ {b}) \ {c} /\ SumOver(f, (s \ {c}) \ {b}) \in Int
    BY <1>5
  <1>13. SumOver(f, s) = f[b] + SumOver(f, s \ {b})
    <2> DEFINE x == SumOver(f, s \ {c})
               y == SumOver(f, s \ {b})
               z == SumOver(f, (s \ {c}) \ {b})
    <2>1. SumOver(f, s) = f[c] + x /\ x = f[b] + z /\ y = f[c] + z /\ z \in Int
      BY <1>7, <1>10, <1>11, <1>12
    <2> HIDE DEF x, y, z
    <2>2. SumOver(f, s) = f[b] + y
      BY <1>6, <2>1
    <2>3. QED
      BY <2>2 DEF y
  <1>14. QED
    BY <1>15, <1>13

LEMMA SumAdd ==
    ASSUME NEW S, NEW f, NEW a, a \notin S, Summed(f, S), f[a] \in Int
    PROVE  Summed(f, S \cup {a}) /\ SumOver(f, S \cup {a}) = f[a] + SumOver(f, S)
  <1>1. Summed(f, S \cup {a})
    BY FS_AddElement DEF Summed
  <1>2. (S \cup {a}) \ {a} = S
    OBVIOUS
  <1>3. QED
    BY <1>1, <1>2, SumRemove

\* What is disjoint is summed apart.
LEMMA SumUnion ==
    ASSUME NEW S, NEW T, NEW f, Summed(f, S), Summed(f, T), S \cap T = {}
    PROVE  Summed(f, S \cup T) /\ SumOver(f, S \cup T) = SumOver(f, S) + SumOver(f, T)
  <1> DEFINE Bad == {k \in Nat : \E t \in SUBSET T : /\ Cardinality(t) = k
                                                    /\ SumOver(f, S \cup t) # SumOver(f, S) + SumOver(f, t)}
  <1>1. ASSUME NEW t \in SUBSET T
        PROVE  /\ Summed(f, t) /\ Summed(f, S \cup t) /\ SumOver(f, t) \in Int /\ SumOver(f, S) \in Int
               /\ SumOver(f, S \cup t) \in Int /\ Cardinality(t) \in Nat
    <2>1. Summed(f, t) /\ Summed(f, S \cup t)
      BY FS_Subset, FS_Union DEF Summed
    <2>2. QED
      BY <2>1, SumIs, FS_CardinalityType DEF Summed
  <1>2. SUFFICES ASSUME SumOver(f, S \cup T) # SumOver(f, S) + SumOver(f, T) PROVE FALSE
    BY <1>1
  <1>3. Cardinality(T) \in Bad
    BY <1>1, <1>2
  <1>4. PICK m \in Bad : \A k \in Bad : m <= k
    <2>1. Bad \subseteq Nat /\ Bad # {}
      BY <1>3
    <2> HIDE DEF Bad
    <2>2. QED
      BY <2>1, LeastOf
  <1>5. PICK t \in SUBSET T : Cardinality(t) = m /\ SumOver(f, S \cup t) # SumOver(f, S) + SumOver(f, t)
    BY <1>4
  <1>6. CASE t = {}
    <2>1. SumOver(f, t) = 0 /\ S \cup t = S
      BY <1>1, <1>6, SumStep
    <2>2. SumOver(f, S \cup t) = SumOver(f, S) /\ SumOver(f, S) \in Int
      BY <1>1, <2>1
    <2>3. SumOver(f, S) + SumOver(f, t) = SumOver(f, S)
      BY <2>1, <2>2
    <2>4. QED
      BY <1>5, <2>2, <2>3
  <1>7. CASE t # {}
    <2>1. PICK a : a \in t
      BY <1>7
    <2> DEFINE r == t \ {a}
    <2>2. r \in SUBSET T /\ a \notin S /\ a \notin r /\ t = r \cup {a} /\ f[a] \in Int
      BY <2>1 DEF Summed
    <2>3. Cardinality(r) = m - 1 /\ m \in Nat \ {0}
      <3>1. IsFiniteSet(t)
        BY <1>1 DEF Summed
      <3>2. Cardinality(r) = Cardinality(t) - 1
        BY <2>1, <3>1, FS_RemoveElement
      <3>3. Cardinality(r) \in Nat
        BY <1>1, <2>2
      <3>4. QED
        BY <1>1, <1>5, <3>2, <3>3
    <2> HIDE DEF r
    <2>4. SumOver(f, S \cup r) = SumOver(f, S) + SumOver(f, r)
      <3>1. m - 1 \in Nat /\ ~(m <= m - 1)
        BY <2>3
      <3>2. m - 1 \notin Bad
        BY <1>4, <3>1
      <3>3. QED
        BY <2>2, <2>3, <3>1, <3>2
    <2>5. SumOver(f, t) = f[a] + SumOver(f, r)
      BY <1>1, <2>2, SumAdd
    <2>6. SumOver(f, S \cup t) = f[a] + SumOver(f, S \cup r)
      <3>1. S \cup t = (S \cup r) \cup {a} /\ a \notin S \cup r
        BY <2>2
      <3>2. Summed(f, S \cup r)
        BY <1>1, <2>2
      <3>3. QED
        BY <2>2, <3>1, <3>2, SumAdd
    <2>7. SumOver(f, S) \in Int /\ SumOver(f, r) \in Int
      BY <1>1, <2>2
    <2>8. QED
      BY <1>5, <2>2, <2>4, <2>5, <2>6, <2>7
  <1>8. QED
    BY <1>6, <1>7

\* A sum of what is not negative is not, and grows with its set.
LEMMA SumNatural ==
    ASSUME NEW S, NEW f, IsFiniteSet(S), \A x \in S : f[x] \in Nat
    PROVE  Summed(f, S) /\ SumOver(f, S) \in Nat
  <1> DEFINE Bad == {k \in Nat : \E t \in SUBSET S : Cardinality(t) = k /\ SumOver(f, t) \notin Nat}
  <1>1. ASSUME NEW t \in SUBSET S PROVE Summed(f, t) /\ SumOver(f, t) \in Int /\ IsFiniteSet(t) /\ Cardinality(t) \in Nat
    <2>1. Summed(f, t) /\ IsFiniteSet(t)
      BY FS_Subset DEF Summed
    <2>2. QED
      BY <2>1, SumIs, FS_CardinalityType
  <1>2. SUFFICES ASSUME SumOver(f, S) \notin Nat PROVE FALSE
    BY <1>1
  <1>3. Cardinality(S) \in Bad
    BY <1>1, <1>2
  <1>4. PICK m \in Bad : \A k \in Bad : m <= k
    <2>1. Bad \subseteq Nat /\ Bad # {}
      BY <1>3
    <2> HIDE DEF Bad
    <2>2. QED
      BY <2>1, LeastOf
  <1>5. PICK t \in SUBSET S : Cardinality(t) = m /\ SumOver(f, t) \notin Nat
    BY <1>4
  <1>6. t # {}
    BY <1>1, <1>5, SumStep
  <1>7. /\ Chosen(t) \in t /\ t \ {Chosen(t)} \in SUBSET S /\ m \in Nat \ {0}
        /\ Cardinality(t \ {Chosen(t)}) = m - 1
    BY <1>1, <1>5, <1>6, ChosenLeaves
  <1>8. SumOver(f, t \ {Chosen(t)}) \in Nat
    <2>1. m - 1 \in Nat /\ ~(m <= m - 1)
      BY <1>7
    <2>2. m - 1 \notin Bad
      BY <1>4, <2>1
    <2>3. QED
      BY <1>7, <2>1, <2>2
  <1>9. SumOver(f, t) = f[Chosen(t)] + SumOver(f, t \ {Chosen(t)}) /\ f[Chosen(t)] \in Nat
    BY <1>1, <1>6, <1>7, SumStep
  <1>10. QED
    BY <1>5, <1>8, <1>9

LEMMA SumGrows ==
    ASSUME NEW S, NEW T \in SUBSET S, NEW f, IsFiniteSet(S), \A x \in S : f[x] \in Nat
    PROVE  SumOver(f, T) <= SumOver(f, S)
  <1>1. IsFiniteSet(T) /\ IsFiniteSet(S \ T) /\ S = T \cup (S \ T) /\ T \cap (S \ T) = {}
    BY FS_Subset
  <1>2. /\ Summed(f, T) /\ SumOver(f, T) \in Nat
        /\ Summed(f, S \ T) /\ SumOver(f, S \ T) \in Nat
    BY <1>1, SumNatural
  <1>3. SumOver(f, T \cup (S \ T)) = SumOver(f, T) + SumOver(f, S \ T)
    BY <1>1, <1>2, SumUnion
  <1>4. SumOver(f, S) = SumOver(f, T) + SumOver(f, S \ T)
    BY <1>1, <1>3
  <1>5. ASSUME NEW x \in Nat, NEW y \in Nat PROVE x <= x + y
    OBVIOUS
  <1>6. QED
    BY <1>2, <1>4, <1>5

\* The parts of a set, told apart by their names, have together the size of all.
Together(P, S) == UNION {P[x] : x \in S}
Sizes(P, S)    == [x \in S |-> Cardinality(P[x])]

LEMMA PartsSum ==
    ASSUME NEW S, NEW P, IsFiniteSet(S), \A x \in S : IsFiniteSet(P[x]),
           \A x, y \in S : x # y => P[x] \cap P[y] = {}
    PROVE  /\ Summed(Sizes(P, S), S) /\ IsFiniteSet(Together(P, S))
           /\ Cardinality(Together(P, S)) = SumOver(Sizes(P, S), S)
  <1> DEFINE f == Sizes(P, S)
             Bad == {k \in Nat : \E t \in SUBSET S : /\ Cardinality(t) = k
                                                    /\ ~(/\ IsFiniteSet(Together(P, t))
                                                         /\ Cardinality(Together(P, t)) = SumOver(f, t))}
  <1>1. \A x \in S : f[x] = Cardinality(P[x]) /\ f[x] \in Nat
    BY FS_CardinalityType DEF Sizes
  <1> HIDE DEF f
  <1>2. ASSUME NEW t \in SUBSET S PROVE Summed(f, t) /\ SumOver(f, t) \in Nat /\ IsFiniteSet(t) /\ Cardinality(t) \in Nat
    BY <1>1, FS_Subset, SumNatural, FS_CardinalityType
  <1>3. SUFFICES ASSUME ~(IsFiniteSet(Together(P, S)) /\ Cardinality(Together(P, S)) = SumOver(f, S)) PROVE FALSE
    BY <1>2 DEF f
  <1>4. Cardinality(S) \in Bad
    BY <1>2, <1>3
  <1>5. PICK m \in Bad : \A k \in Bad : m <= k
    <2>1. Bad \subseteq Nat /\ Bad # {}
      BY <1>4
    <2> HIDE DEF Bad
    <2>2. QED
      BY <2>1, LeastOf
  <1>6. PICK t \in SUBSET S : /\ Cardinality(t) = m
                              /\ ~(IsFiniteSet(Together(P, t)) /\ Cardinality(Together(P, t)) = SumOver(f, t))
    BY <1>5
  <1>7. CASE t = {}
    <2>1. Together(P, t) = {} /\ SumOver(f, t) = 0
      BY <1>2, <1>7, SumStep DEF Together
    <2>2. QED
      BY <1>6, <2>1, FS_EmptySet
  <1>8. CASE t # {}
    <2>1. PICK a \in S : a \in t
      BY <1>8
    <2> DEFINE r == t \ {a}
    <2>2. r \in SUBSET S /\ a \notin r /\ t = r \cup {a}
      BY <2>1
    <2>3. m - 1 \in Nat /\ Cardinality(r) = m - 1 /\ ~(m <= m - 1)
      <3>1. Cardinality(r) = m - 1 /\ Cardinality(r) \in Nat /\ m \in Nat
        BY <1>2, <1>6, <2>1, <2>2, FS_RemoveElement
      <3>2. QED
        BY <3>1
    <2> HIDE DEF r
    <2>4. IsFiniteSet(Together(P, r)) /\ Cardinality(Together(P, r)) = SumOver(f, r)
      <3>1. m - 1 \notin Bad
        BY <1>5, <2>3
      <3>2. QED
        BY <2>2, <2>3, <3>1
    <2>5. Together(P, t) = Together(P, r) \cup P[a]
      BY <2>2 DEF Together
    <2>6. Together(P, r) \cap P[a] = {}
      BY <2>1, <2>2 DEF Together
    <2>7. /\ IsFiniteSet(Together(P, t))
          /\ Cardinality(Together(P, t)) = Cardinality(Together(P, r)) + Cardinality(P[a])
      <3>1. IsFiniteSet(P[a])
        BY <2>1
      <3>2. Cardinality(Together(P, r)) \in Nat /\ Cardinality(P[a]) \in Nat
        BY <2>4, <3>1, FS_CardinalityType
      <3>3. /\ IsFiniteSet(Together(P, r) \cup P[a])
            /\ Cardinality(Together(P, r) \cup P[a])
                 = Cardinality(Together(P, r)) + Cardinality(P[a]) - Cardinality(Together(P, r) \cap P[a])
        BY <2>4, <3>1, FS_Union
      <3>4. Cardinality(Together(P, r) \cap P[a]) = 0
        BY <2>6, FS_EmptySet
      <3>5. QED
        BY <2>5, <3>2, <3>3, <3>4
    <2>8. SumOver(f, t) = f[a] + SumOver(f, r)
      <3>1. Summed(f, r) /\ f[a] \in Int
        BY <1>1, <1>2, <2>2
      <3>2. QED
        BY <2>2, <3>1, SumAdd
    <2>9. f[a] = Cardinality(P[a]) /\ f[a] \in Nat /\ SumOver(f, r) \in Nat
      BY <1>1, <1>2, <2>1, <2>2
    <2>10. QED
      BY <1>6, <2>4, <2>7, <2>8, <2>9
  <1>9. QED
    BY <1>7, <1>8

-----------------------------------------------------------------------------
\* Quotients and remainders: they are the only ones that fit.
LEMMA Divided ==
    ASSUME NEW a \in Int, NEW n \in Nat \ {0}
    PROVE  /\ a = n * (a \div n) + (a % n) /\ a % n \in 0..(n - 1) /\ a \div n \in Int
           /\ a \in Nat => a \div n \in Nat
  <1>1. a = n * (a \div n) + (a % n)
    OBVIOUS
  <1>2. a % n \in 0..(n - 1)
    OBVIOUS
  <1>3. a \div n \in Int /\ (a \in Nat => a \div n \in Nat)
    OBVIOUS
  <1>4. QED
    BY <1>1, <1>2, <1>3

\* Multiples are apart.
LEMMA Multiple == ASSUME NEW n \in Nat, NEW q \in Int, NEW c \in Int, q < c PROVE n * q + n <= n * c
  <1> DEFINE t == c - q - 1
  <1>1. t \in Nat /\ c = (q + 1) + t
    OBVIOUS
  <1> HIDE DEF t
  <1>2. n * t \in Nat
    BY <1>1
  <1>3. \A x, y \in Int : n * (x + y) = n * x + n * y
    OBVIOUS
  <1>4. n * c = n * (q + 1) + n * t
    BY <1>1, <1>3
  <1>5. n * (q + 1) = n * q + n * 1
    BY <1>3
  <1>6. n * q \in Int /\ n * c \in Int
    OBVIOUS
  <1>7. QED
    BY <1>2, <1>4, <1>5, <1>6

LEMMA OneQuotient ==
    ASSUME NEW n \in Nat \ {0}, NEW q \in Int, NEW c \in Int, NEW r \in 0..(n - 1), NEW d \in 0..(n - 1),
           n * q + r = n * c + d
    PROVE  q = c /\ r = d
  <1>1. n * q \in Int /\ n * c \in Int
    OBVIOUS
  <1>2. ~(q < c)
    <2>1. SUFFICES ASSUME q < c PROVE FALSE
      OBVIOUS
    <2>2. n * q + n <= n * c
      BY <2>1, Multiple
    <2>3. QED
      BY <1>1, <2>2
  <1>3. ~(c < q)
    <2>1. SUFFICES ASSUME c < q PROVE FALSE
      OBVIOUS
    <2>2. n * c + n <= n * q
      BY <2>1, Multiple
    <2>3. QED
      BY <1>1, <2>2
  <1>4. q = c
    BY <1>2, <1>3
  <1>5. QED
    BY <1>1, <1>4

LEMMA DivisionIs ==
    ASSUME NEW n \in Nat \ {0}, NEW a \in Int, NEW q \in Int, NEW r \in 0..(n - 1), a = n * q + r
    PROVE  a \div n = q /\ a % n = r
  BY Divided, OneQuotient

\* The remainder moves on by one, and starts again at the modulus.
LEMMA NextRemainder ==
    ASSUME NEW m \in Nat, NEW n \in Nat \ {0}
    PROVE  /\ m % n \in 0..(n - 1)
           /\ (m + 1) % n = IF (m % n) + 1 = n THEN 0 ELSE (m % n) + 1
  <1> DEFINE q == m \div n
             r == m % n
  <1>1. r \in 0..(n - 1) /\ m = n * q + r /\ q \in Int
    BY Divided
  <1> HIDE DEF q, r
  <1>2. n * q \in Int /\ n * (q + 1) = n * q + n
    BY <1>1
  <1>3. CASE r + 1 = n
    <2>1. m + 1 = n * (q + 1) + 0 /\ 0 \in 0..(n - 1) /\ q + 1 \in Int /\ m + 1 \in Int
      BY <1>1, <1>2, <1>3
    <2>2. (m + 1) % n = 0
      BY <2>1, DivisionIs
    <2>3. QED
      BY <1>1, <1>3, <2>2 DEF r
  <1>4. CASE r + 1 # n
    <2>1. m + 1 = n * q + (r + 1) /\ r + 1 \in 0..(n - 1) /\ m + 1 \in Int
      BY <1>1, <1>2, <1>4
    <2>2. (m + 1) % n = r + 1
      BY <1>1, <2>1, DivisionIs
    <2>3. QED
      BY <1>1, <1>4, <2>2 DEF r
  <1>5. QED
    BY <1>3, <1>4
=============================================================================
