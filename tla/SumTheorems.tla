---------------------------- MODULE SumTheorems ----------------------------
(***************************************************************************)
(* Sums over finite sets: what MapThenSumSet of the community modules      *)
(* computes, for functions to the integers.                                *)
(*                                                                         *)
(* The fold takes the elements in the order in which CHOOSE gives them, by *)
(* a recursive function whose existence is part of what is proved here.    *)
(* Each proof by induction on a finite set is stated as the absence of a   *)
(* smallest counterexample.                                                *)
(***************************************************************************)
EXTENDS FiniteSetsExt, FiniteSetTheorems, WellFoundedInduction, TLAPS

Any(s) == CHOOSE x \in s : TRUE

\* The function h gives the sum of f over each subset of S.
IsSums(h, f, S) ==
  h = [s \in SUBSET S |-> IF s = {} THEN 0 ELSE f[Any(s)] + h[s \ {Any(s)}]]

Sums(f, S) == CHOOSE h : IsSums(h, f, S)

Total(f, S) == Sums(f, S)[S]

Numbers(f, S) == \A x \in S : f[x] \in Int

-----------------------------------------------------------------------------
\* Among some subsets of a finite set there is a smallest.
LEMMA Smallest ==
  ASSUME NEW S, IsFiniteSet(S), NEW T \in SUBSET (SUBSET S), T # {}
  PROVE  \E s \in T : \A t \in T : t \subseteq s => t = s
<1>1. IsWellFoundedOn(StrictSubsetOrdering(S), SUBSET S)
  BY FS_StrictSubsetOrderingWellFounded, FS_FiniteSubsetsOfFinite
<1>2. PICK s \in T : \A t \in T : ~(<<t, s>> \in StrictSubsetOrdering(S))
  BY <1>1, WFMin
<1> QED
  BY <1>2 DEF StrictSubsetOrdering

LEMMA AnyIn == ASSUME NEW s, s # {} PROVE Any(s) \in s
  BY DEF Any

LEMMA SumsAt ==
  ASSUME NEW h, NEW f, NEW S, IsSums(h, f, S), NEW s \in SUBSET S
  PROVE  h[s] = IF s = {} THEN 0 ELSE f[Any(s)] + h[s \ {Any(s)}]
  BY DEF IsSums

\* Two such functions agree where both are defined.
LEMMA SumsAgree ==
  ASSUME NEW f, NEW S, NEW R, IsFiniteSet(S), NEW g, NEW h, IsSums(g, f, S), IsSums(h, f, R)
  PROVE  \A s \in SUBSET (S \cap R) : g[s] = h[s]
<1> DEFINE T == {s \in SUBSET (S \cap R) : g[s] # h[s]}
<1> SUFFICES ASSUME T # {} PROVE FALSE
  OBVIOUS
<1>1. PICK s \in T : \A t \in T : t \subseteq s => t = s
  <2>1. T \in SUBSET (SUBSET S)
    OBVIOUS
  <2> HIDE DEF T
  <2> QED
    BY <2>1, Smallest
<1>2. s \in SUBSET S /\ s \in SUBSET R /\ g[s] # h[s]
  OBVIOUS
<1>3. s # {}
  BY <1>2, SumsAt
<1>4. Any(s) \in s
  BY <1>3, AnyIn
<1>5. g[s \ {Any(s)}] = h[s \ {Any(s)}]
  BY <1>1, <1>4
<1>6. g[s] = f[Any(s)] + g[s \ {Any(s)}] /\ h[s] = f[Any(s)] + h[s \ {Any(s)}]
  BY <1>2, <1>3, SumsAt
<1> QED
  BY <1>2, <1>5, <1>6

\* The recursive function exists.
LEMMA SumsExist ==
  ASSUME NEW f, NEW S, IsFiniteSet(S)
  PROVE  IsSums(Sums(f, S), f, S)
<1> DEFINE T == {s \in SUBSET S : ~ \E h : IsSums(h, f, s)}
<1>1. T = {}
  <2> SUFFICES ASSUME T # {} PROVE FALSE
    OBVIOUS
  <2>1. PICK s \in T : \A t \in T : t \subseteq s => t = s
    <3>1. T \in SUBSET (SUBSET S)
      OBVIOUS
    <3> HIDE DEF T
    <3> QED
      BY <3>1, Smallest
  <2> DEFINE H(t) == Sums(f, t)
             Rest(t) == t \ {Any(t)}
             g == [t \in SUBSET s |-> IF t = {} THEN 0 ELSE f[Any(t)] + H(Rest(t))[Rest(t)]]
  <2>2. ASSUME NEW t \in SUBSET s, t # s PROVE IsSums(H(t), f, t) /\ IsFiniteSet(t)
    <3>1. \E h : IsSums(h, f, t)
      BY <2>1, <2>2
    <3> QED
      BY <2>2, <3>1, FS_Subset DEF Sums
  <2>3. ASSUME NEW t \in SUBSET s, t # {} PROVE g[Rest(t)] = H(Rest(t))[Rest(t)]
    <3> DEFINE u == Rest(t)
    <3>1. u \in SUBSET s /\ u # s /\ Rest(u) \in SUBSET u
      BY <2>3, AnyIn
    <3>2. IsSums(H(u), f, u) /\ IsFiniteSet(u)
      BY <2>2, <3>1
    <3>3. g[u] = IF u = {} THEN 0 ELSE f[Any(u)] + H(Rest(u))[Rest(u)]
      BY <3>1
    <3>4. H(u)[u] = IF u = {} THEN 0 ELSE f[Any(u)] + H(u)[Rest(u)]
      <4>1. u \in SUBSET u /\ Rest(u) = u \ {Any(u)}
        OBVIOUS
      <4> HIDE DEF H, Rest, u
      <4> QED
        BY <3>2, <4>1, SumsAt
    <3>5. u # {} => H(u)[Rest(u)] = H(Rest(u))[Rest(u)]
      <4> SUFFICES ASSUME u # {} PROVE H(u)[Rest(u)] = H(Rest(u))[Rest(u)]
        OBVIOUS
      <4>1. Rest(u) \in SUBSET s /\ Rest(u) # s
        BY <3>1
      <4>2. IsSums(H(Rest(u)), f, Rest(u))
        BY <2>2, <4>1
      <4>3. Rest(u) \in SUBSET (u \cap Rest(u))
        OBVIOUS
      <4> HIDE DEF H, Rest, u
      <4> QED
        BY <3>2, <4>2, <4>3, SumsAgree
    <3> QED
      BY <3>3, <3>4, <3>5
  <2>4. g = [t \in SUBSET s |-> IF t = {} THEN 0 ELSE f[Any(t)] + g[Rest(t)]]
    <3> HIDE DEF H, Rest
    <3> QED
      BY <2>3
  <2>5. IsSums(g, f, s)
    BY <2>4 DEF IsSums
  <2> QED
    BY <2>5
<1>2. \E h : IsSums(h, f, S)
  BY <1>1
<1> QED
  BY <1>2 DEF Sums

-----------------------------------------------------------------------------
(***************************************************************************)
(* The sum of a function over a set.                                       *)
(***************************************************************************)
\* It is the value of any function that satisfies the recursion.
LEMMA TotalIs ==
  ASSUME NEW f, NEW S, IsFiniteSet(S), NEW h, IsSums(h, f, S)
  PROVE  h[S] = Total(f, S)
<1>1. IsSums(Sums(f, S), f, S)
  BY SumsExist
<1>2. S \in SUBSET (S \cap S)
  OBVIOUS
<1> QED
  BY <1>1, <1>2, SumsAgree DEF Total

LEMMA TotalEmpty == ASSUME NEW f PROVE Total(f, {}) = 0
<1>1. IsSums(Sums(f, {}), f, {})
  BY SumsExist, FS_EmptySet
<1> QED
  BY <1>1, SumsAt DEF Total

\* The equation of the recursive function, between sums.
LEMMA TotalAny ==
  ASSUME NEW f, NEW S, IsFiniteSet(S), S # {}
  PROVE  Total(f, S) = f[Any(S)] + Total(f, S \ {Any(S)})
<1> DEFINE R == S \ {Any(S)}
<1>1. IsFiniteSet(R) /\ R \in SUBSET (S \cap R) /\ S \in SUBSET S
  BY FS_Subset
<1>2. IsSums(Sums(f, S), f, S) /\ IsSums(Sums(f, R), f, R)
  BY <1>1, SumsExist
<1>3. Sums(f, S)[S] = f[Any(S)] + Sums(f, S)[R]
  BY <1>1, <1>2, SumsAt
<1> HIDE DEF R
<1>4. Sums(f, S)[R] = Sums(f, R)[R]
  BY <1>1, <1>2, SumsAgree
<1> QED
  BY <1>3, <1>4 DEF Total, R

LEMMA TotalInt ==
  ASSUME NEW f, NEW S, IsFiniteSet(S), Numbers(f, S)
  PROVE  Total(f, S) \in Int
<1> DEFINE T == {s \in SUBSET S : Total(f, s) \notin Int}
<1> SUFFICES ASSUME T # {} PROVE FALSE
  OBVIOUS
<1>1. PICK s \in T : \A t \in T : t \subseteq s => t = s
  <2>1. T \in SUBSET (SUBSET S)
    OBVIOUS
  <2> HIDE DEF T
  <2> QED
    BY <2>1, Smallest
<1>2. s # {}
  BY TotalEmpty
<1>3. Any(s) \in s /\ f[Any(s)] \in Int /\ IsFiniteSet(s)
  BY <1>2, AnyIn, FS_Subset DEF Numbers
<1>4. Total(f, s \ {Any(s)}) \in Int
  BY <1>1, <1>3
<1> QED
  BY <1>2, <1>3, <1>4, TotalAny

LEMMA TotalNat ==
  ASSUME NEW f, NEW S, IsFiniteSet(S), \A x \in S : f[x] \in Nat
  PROVE  Total(f, S) \in Nat
<1> DEFINE T == {s \in SUBSET S : Total(f, s) \notin Nat}
<1> SUFFICES ASSUME T # {} PROVE FALSE
  OBVIOUS
<1>1. PICK s \in T : \A t \in T : t \subseteq s => t = s
  <2>1. T \in SUBSET (SUBSET S)
    OBVIOUS
  <2> HIDE DEF T
  <2> QED
    BY <2>1, Smallest
<1>2. s # {}
  BY TotalEmpty
<1>3. Any(s) \in s /\ f[Any(s)] \in Nat /\ IsFiniteSet(s)
  BY <1>2, AnyIn, FS_Subset
<1>4. Total(f, s \ {Any(s)}) \in Nat
  BY <1>1, <1>3
<1> QED
  BY <1>2, <1>3, <1>4, TotalAny

\* The order in which the elements are taken does not matter.
LEMMA TotalWithout ==
  ASSUME NEW f, NEW S, IsFiniteSet(S), Numbers(f, S), NEW e \in S
  PROVE  Total(f, S) = f[e] + Total(f, S \ {e})
<1> DEFINE T == {s \in SUBSET S : \E x \in s : Total(f, s) # f[x] + Total(f, s \ {x})}
<1> SUFFICES ASSUME T # {} PROVE FALSE
  OBVIOUS
<1>1. PICK s \in T : \A t \in T : t \subseteq s => t = s
  <2>1. T \in SUBSET (SUBSET S)
    OBVIOUS
  <2> HIDE DEF T
  <2> QED
    BY <2>1, Smallest
<1>2. PICK x \in s : Total(f, s) # f[x] + Total(f, s \ {x})
  BY <1>1
<1>3. PICK a \in s : a = Any(s)
  BY AnyIn
<1>4. IsFiniteSet(s) /\ Total(f, s) = f[a] + Total(f, s \ {a})
  BY <1>3, FS_Subset, TotalAny
<1>5. a # x
  BY <1>2, <1>4
<1>0. \A t \in SUBSET s : t # s => \A y \in t : Total(f, t) = f[y] + Total(f, t \ {y})
  BY <1>1
<1>6. Total(f, s \ {a}) = f[x] + Total(f, (s \ {a}) \ {x})
  <2>1. s \ {a} \in SUBSET s /\ s \ {a} # s /\ x \in s \ {a}
    BY <1>5
  <2> HIDE DEF T
  <2> QED
    BY <1>0, <2>1
<1>7. Total(f, s \ {x}) = f[a] + Total(f, (s \ {x}) \ {a})
  <2>1. s \ {x} \in SUBSET s /\ s \ {x} # s /\ a \in s \ {x}
    BY <1>5
  <2> HIDE DEF T
  <2> QED
    BY <1>0, <2>1
<1>8. (s \ {a}) \ {x} = (s \ {x}) \ {a}
  OBVIOUS
<1>9. Total(f, (s \ {a}) \ {x}) \in Int
  <2>1. IsFiniteSet((s \ {a}) \ {x}) /\ Numbers(f, (s \ {a}) \ {x})
    BY <1>4, FS_Subset DEF Numbers
  <2> QED
    BY <2>1, TotalInt
<1>10. f[a] \in Int /\ f[x] \in Int
  BY DEF Numbers
<1> HIDE DEF T
<1>11. Total(f, s) = f[a] + (f[x] + Total(f, (s \ {a}) \ {x}))
  BY <1>4, <1>6
<1>12. f[x] + Total(f, s \ {x}) = f[x] + (f[a] + Total(f, (s \ {a}) \ {x}))
  BY <1>7, <1>8
<1> QED
  BY <1>2, <1>9, <1>10, <1>11, <1>12

LEMMA TotalWith ==
  ASSUME NEW f, NEW S, IsFiniteSet(S), NEW e, e \notin S, Numbers(f, S \cup {e})
  PROVE  Total(f, S \cup {e}) = f[e] + Total(f, S)
<1>1. (S \cup {e}) \ {e} = S /\ IsFiniteSet(S \cup {e})
  BY FS_AddElement
<1> QED
  BY <1>1, TotalWithout

LEMMA TotalOne ==
  ASSUME NEW f, NEW e, f[e] \in Int
  PROVE  Total(f, {e}) = f[e]
<1>1. {} \cup {e} = {e} /\ Numbers(f, {e})
  BY DEF Numbers
<1> QED
  BY <1>1, TotalWith, TotalEmpty, FS_EmptySet

\* Sums that count the same values, one for one, are equal.
LEMMA TotalSame ==
  ASSUME NEW f, NEW g, NEW b, NEW S, IsFiniteSet(S), Numbers(f, S),
         \A x \in S : g[b[x]] = f[x],
         \A x, y \in S : b[x] = b[y] => x = y
  PROVE  Total(g, {b[x] : x \in S}) = Total(f, S)
<1> DEFINE Image(s) == {b[x] : x \in s}
           T == {s \in SUBSET S : Total(g, Image(s)) # Total(f, s)}
<1> SUFFICES ASSUME T # {} PROVE FALSE
  OBVIOUS
<1>1. PICK s \in T : \A t \in T : t \subseteq s => t = s
  <2>1. T \in SUBSET (SUBSET S)
    OBVIOUS
  <2> HIDE DEF T
  <2> QED
    BY <2>1, Smallest
<1>2. s # {}
  BY <1>1, TotalEmpty
<1>3. PICK a \in s : TRUE
  BY <1>2
<1>4. Total(g, Image(s \ {a})) = Total(f, s \ {a})
  BY <1>1
<1>5. Image(s) = Image(s \ {a}) \cup {b[a]} /\ b[a] \notin Image(s \ {a})
  OBVIOUS
<1>6. IsFiniteSet(s) /\ IsFiniteSet(s \ {a}) /\ IsFiniteSet(Image(s \ {a}))
  <2>1. s \in SUBSET S /\ s \ {a} \in SUBSET S
    OBVIOUS
  <2>2. IsFiniteSet(s) /\ IsFiniteSet(s \ {a})
    BY <2>1, FS_Subset
  <2> DEFINE h == [x \in s \ {a} |-> b[x]]
  <2>3. h \in Surjection(s \ {a}, Image(s \ {a}))
    BY DEF Surjection
  <2> HIDE DEF h, Image, T
  <2> QED
    BY <2>2, <2>3, FS_Surjection
<1>7. Numbers(g, Image(s \ {a}) \cup {b[a]}) /\ Numbers(f, s)
  BY DEF Numbers
<1>8. Total(f, s) = f[a] + Total(f, s \ {a})
  BY <1>6, <1>7, TotalWithout
<1>9. Total(g, Image(s)) = g[b[a]] + Total(g, Image(s \ {a}))
  <2> HIDE DEF Image, T
  <2> QED
    BY <1>5, <1>6, <1>7, TotalWith
<1> QED
  BY <1>1, <1>4, <1>8, <1>9

LEMMA TotalEqual ==
  ASSUME NEW f, NEW g, NEW S, IsFiniteSet(S), Numbers(f, S), \A x \in S : g[x] = f[x]
  PROVE  Total(g, S) = Total(f, S)
<1> DEFINE b == [x \in S |-> x]
<1>1. /\ \A x \in S : g[b[x]] = f[x]
      /\ \A x, y \in S : b[x] = b[y] => x = y
      /\ {b[x] : x \in S} = S
  OBVIOUS
<1> HIDE DEF b
<1> QED
  BY <1>1, TotalSame

\* A sum of two parts.
LEMMA TotalUnion ==
  ASSUME NEW f, NEW S, NEW R, IsFiniteSet(S), IsFiniteSet(R), S \cap R = {},
         Numbers(f, S \cup R)
  PROVE  Total(f, S \cup R) = Total(f, S) + Total(f, R)
<1> DEFINE T == {r \in SUBSET R : Total(f, S \cup r) # Total(f, S) + Total(f, r)}
<1> SUFFICES ASSUME T # {} PROVE FALSE
  OBVIOUS
<1>0. Numbers(f, S) /\ Total(f, S) \in Int
  BY TotalInt DEF Numbers
<1>1. PICK r \in T : \A t \in T : t \subseteq r => t = r
  <2>1. T \in SUBSET (SUBSET R)
    OBVIOUS
  <2> HIDE DEF T
  <2> QED
    BY <2>1, Smallest
<1>2. r # {}
  <2>1. Total(f, S \cup r) # Total(f, S) + Total(f, r)
    BY <1>1
  <2>2. S \cup {} = S /\ Total(f, {}) = 0
    BY TotalEmpty
  <2> HIDE DEF T
  <2> QED
    BY <1>0, <2>1, <2>2
<1>3. PICK a \in r : TRUE
  BY <1>2
<1> DEFINE q == r \ {a}
<1>4. Total(f, S \cup q) = Total(f, S) + Total(f, q)
  BY <1>1
<1>5. IsFiniteSet(r) /\ IsFiniteSet(q) /\ IsFiniteSet(S \cup q)
  BY FS_Subset, FS_Union
<1>6. S \cup r = (S \cup q) \cup {a} /\ a \notin S \cup q
  OBVIOUS
<1>7. Numbers(f, r) /\ Numbers(f, q) /\ Numbers(f, (S \cup q) \cup {a})
  BY DEF Numbers
<1>8. Total(f, r) = f[a] + Total(f, q)
  BY <1>5, <1>7, TotalWithout
<1>9. Total(f, S \cup r) = f[a] + Total(f, S \cup q)
  <2> HIDE DEF q, T
  <2> QED
    BY <1>5, <1>6, <1>7, TotalWith
<1>10. f[a] \in Int /\ Total(f, q) \in Int
  BY <1>5, <1>7, TotalInt DEF Numbers
<1>11. Total(f, S \cup r) # Total(f, S) + Total(f, r)
  BY <1>1
<1> HIDE DEF q, T
<1> QED
  BY <1>0, <1>4, <1>8, <1>9, <1>10, <1>11

LEMMA TotalNegated ==
  ASSUME NEW f, NEW g, NEW S, IsFiniteSet(S), Numbers(f, S), \A x \in S : g[x] = - f[x]
  PROVE  Total(g, S) = - Total(f, S)
<1> DEFINE T == {s \in SUBSET S : Total(g, s) # - Total(f, s)}
<1> SUFFICES ASSUME T # {} PROVE FALSE
  OBVIOUS
<1>1. PICK s \in T : \A t \in T : t \subseteq s => t = s
  <2>1. T \in SUBSET (SUBSET S)
    OBVIOUS
  <2> HIDE DEF T
  <2> QED
    BY <2>1, Smallest
<1>2. s # {}
  BY <1>1, TotalEmpty
<1>3. PICK a \in s : TRUE
  BY <1>2
<1>4. Total(g, s \ {a}) = - Total(f, s \ {a})
  BY <1>1
<1>5. IsFiniteSet(s) /\ IsFiniteSet(s \ {a})
  BY FS_Subset
<1>6. Numbers(f, s) /\ Numbers(g, s) /\ Numbers(f, s \ {a})
  BY DEF Numbers
<1>7. Total(f, s) = f[a] + Total(f, s \ {a}) /\ Total(g, s) = g[a] + Total(g, s \ {a})
  BY <1>5, <1>6, TotalWithout
<1>8. f[a] \in Int /\ g[a] = - f[a] /\ Total(f, s \ {a}) \in Int
  BY <1>5, <1>6, TotalInt DEF Numbers
<1>9. Total(g, s) # - Total(f, s)
  BY <1>1
<1> HIDE DEF T
<1> QED
  BY <1>4, <1>7, <1>8, <1>9

\* One value grows by n.
LEMMA TotalGrows ==
  ASSUME NEW f, NEW g, NEW S, IsFiniteSet(S), Numbers(f, S), NEW e \in S, NEW n \in Int,
         g[e] = f[e] + n, \A x \in S : x # e => g[x] = f[x]
  PROVE  Total(g, S) = Total(f, S) + n
<1>1. Numbers(g, S) /\ Numbers(f, S \ {e}) /\ IsFiniteSet(S \ {e}) /\ f[e] \in Int
  BY FS_Subset DEF Numbers
<1>2. Total(g, S) = g[e] + Total(g, S \ {e}) /\ Total(f, S) = f[e] + Total(f, S \ {e})
  BY <1>1, TotalWithout
<1>3. Total(g, S \ {e}) = Total(f, S \ {e}) /\ Total(f, S \ {e}) \in Int
  BY <1>1, TotalEqual, TotalInt
<1> QED
  BY <1>1, <1>2, <1>3
=============================================================================
