---------------------------- MODULE FinanceProofs ---------------------------
(***************************************************************************)
(* Proofs about what a society is owed and owes: Books, Billing and the    *)
(* DailyRun that fines and chases the bills.                               *)
(*                                                                         *)
(* Books, for any number of expenses, of ledger entries, of requests at    *)
(* once and of deaths, and any amounts: the types, that the balances are   *)
(* explained, that an undisturbed repair repairs, and that a settled       *)
(* expense stays settled by the entry that settled it.                     *)
(*                                                                         *)
(* Billing, for any units, months, heads, rates and requests at once: the  *)
(* types, that the running amount of a unit is what its bills have due,    *)
(* and that a run bills the units of its scope.                            *)
(*                                                                         *)
(* DailyRun, whatever the replicas, the days and the driver: the fees of a *)
(* day are swept at most once and its row tells the truth.                 *)
(***************************************************************************)
EXTENDS Books, Billing, DailyRun, FiniteSetTheorems, WellFoundedInduction, TLAPS

-----------------------------------------------------------------------------
(* Sums over a finite set, which SumFunctionOnSet takes out one element,   *)
(* the first, at a time.  A statement about them is proved by a smallest   *)
(* subset that it fails for.                                               *)

First(s) == CHOOSE x \in s : TRUE
Adds(g, f, S) ==
    g = [s \in SUBSET S |-> IF s = {} THEN 0 ELSE f[First(s)] + g[s \ {First(s)}]]

LEMMA SumIs ==
    ASSUME NEW f, NEW S
    PROVE  SumFunctionOnSet(f, S) = (CHOOSE g : Adds(g, f, S))[S]
BY DEF SumFunctionOnSet, FoldFunctionOnSet, MapThenFoldSet, Adds, First

(* A property of finite sets that fails has a smallest set it fails for. *)
LEMMA Smallest ==
    ASSUME NEW S, IsFiniteSet(S), NEW Bad, Bad \subseteq SUBSET S, Bad # {}
    PROVE  \E T \in Bad : \A U \in Bad : ~(U \subseteq T /\ U # T)
<1>1. Bad \subseteq FiniteSubsetsOf(S)
  BY FS_Subset DEF FiniteSubsetsOf
<1>2. \E T \in Bad : \A U \in Bad : ~(<<U, T>> \in StrictSubsetOrdering(S))
  BY <1>1, FS_StrictSubsetOrderingWellFounded, WFMin
<1> QED
  BY <1>2 DEF StrictSubsetOrdering

LEMMA Agree ==
    ASSUME NEW f, NEW V, IsFiniteSet(V), NEW W \in SUBSET V, NEW k, NEW m,
           Adds(k, f, V), Adds(m, f, W)
    PROVE  \A s \in SUBSET W : k[s] = m[s]
<1> DEFINE Bad == {s \in SUBSET W : k[s] # m[s]}
<1>1. IsFiniteSet(W)
    BY FS_Subset
<1>2. ASSUME Bad # {} PROVE FALSE
  <2>1. PICK T \in Bad : \A U \in Bad : ~(U \subseteq T /\ U # T)
    <3>1. Bad \subseteq SUBSET W
        OBVIOUS
    <3> HIDE DEF Bad
    <3> QED
        BY <1>1, <1>2, <3>1, Smallest
  <2>2. T \in SUBSET W /\ T \in SUBSET V /\ k[T] # m[T]
      OBVIOUS
  <2>3. CASE T = {}
      BY <2>2, <2>3 DEF Adds
  <2>4. CASE T # {}
    <3>1. First(T) \in T
        BY <2>4 DEF First
    <3>2. T \ {First(T)} \in SUBSET W /\ T \ {First(T)} # T
        BY <2>2, <3>1
    <3>3. k[T \ {First(T)}] = m[T \ {First(T)}]
        BY <2>1, <3>2
    <3>4. k[T] = f[First(T)] + k[T \ {First(T)}] /\ m[T] = f[First(T)] + m[T \ {First(T)}]
        BY <2>2, <2>4 DEF Adds
    <3> QED
        BY <2>2, <3>3, <3>4
  <2> QED
      BY <2>3, <2>4
<1> QED
    BY <1>2

LEMMA SumRuns ==
    ASSUME NEW f, NEW S, IsFiniteSet(S)
    PROVE  \E g : Adds(g, f, S)
<1> DEFINE Bad == {T \in SUBSET S : ~\E g : Adds(g, f, T)}
           Run(T) == CHOOSE g : Adds(g, f, T)
<1>1. ASSUME Bad # {} PROVE FALSE
  <2>1. PICK T \in Bad : \A U \in Bad : ~(U \subseteq T /\ U # T)
    <3>1. Bad \subseteq SUBSET S
        OBVIOUS
    <3> HIDE DEF Bad
    <3> QED
        BY <1>1, <3>1, Smallest
  <2>2. ASSUME NEW V \in SUBSET T, V # T PROVE Adds(Run(V), f, V) /\ IsFiniteSet(V)
    <3>1. V \notin Bad /\ V \in SUBSET S
        BY <2>1, <2>2
    <3>2. \E g : Adds(g, f, V)
        BY <3>1
    <3>3. IsFiniteSet(V)
        BY <3>1, FS_Subset
    <3> QED
        BY <3>2, <3>3
  <2>3. PICK G : G = [s \in SUBSET T |->
                        IF s = {} THEN 0 ELSE f[First(s)] + Run(s \ {First(s)})[s \ {First(s)}]]
      OBVIOUS
  <2>4. \A s \in SUBSET T : s # {} => /\ First(s) \in s
                                       /\ s \ {First(s)} \in SUBSET T
                                       /\ s \ {First(s)} # s /\ s \ {First(s)} # T
      BY DEF First
  <2>5. ASSUME NEW V \in SUBSET T, V # T PROVE G[V] = Run(V)[V]
    <3>1. PICK k : k = Run(V)
        OBVIOUS
    <3>2. Adds(k, f, V) /\ IsFiniteSet(V)
        BY <2>2, <2>5, <3>1
    <3>3. CASE V = {}
        BY <2>3, <3>1, <3>2, <3>3 DEF Adds
    <3>4. CASE V # {}
      <4>1. PICK W : W = V \ {First(V)}
          OBVIOUS
      <4>2. PICK m : m = Run(W)
          OBVIOUS
      <4>3. W \in SUBSET V /\ W \in SUBSET T /\ W # T
          BY <2>4, <3>4, <4>1
      <4>4. Adds(m, f, W)
          BY <2>2, <4>2, <4>3
      <4>5. \A s \in SUBSET W : k[s] = m[s]
          BY <3>2, <4>3, <4>4, Agree
      <4>6. k[W] = m[W]
          BY <4>5
      <4>7. k[V] = f[First(V)] + k[W]
          BY <3>2, <3>4, <4>1 DEF Adds
      <4>8. G[V] = f[First(V)] + Run(W)[W]
          BY <2>3, <3>4, <4>1
      <4> QED
          BY <3>1, <4>2, <4>6, <4>7, <4>8
    <3> QED
        BY <3>3, <3>4
  <2>6. ASSUME NEW s \in SUBSET T, s # {}
        PROVE  G[s] = f[First(s)] + G[s \ {First(s)}]
      BY <2>3, <2>4, <2>5, <2>6
  <2>7. G[{}] = 0
      BY <2>3
  <2>8. G = [s \in SUBSET T |-> IF s = {} THEN 0 ELSE f[First(s)] + G[s \ {First(s)}]]
    <3>1. \A s \in SUBSET T : G[s] = IF s = {} THEN 0 ELSE f[First(s)] + G[s \ {First(s)}]
        BY <2>6, <2>7
    <3>2. \E X : G = [s \in SUBSET T |-> X[s]]
      <4>1. G = [s \in SUBSET T |-> G[s]]
          BY <2>3
      <4> QED
          BY <4>1
    <3> QED
        BY <3>1, <3>2
  <2>9. Adds(G, f, T)
      BY <2>8 DEF Adds
  <2> QED
      BY <2>1, <2>9
<1>2. S \notin Bad
    BY <1>1
<1> QED
    BY <1>2

LEMMA SumRecurs ==
    ASSUME NEW f, NEW S, IsFiniteSet(S)
    PROVE  /\ SumFunctionOnSet(f, {}) = 0
           /\ S # {} => SumFunctionOnSet(f, S)
                          = f[First(S)] + SumFunctionOnSet(f, S \ {First(S)})
<1> DEFINE Run(T) == CHOOSE g : Adds(g, f, T)
<1>1. \A T \in SUBSET S : Adds(Run(T), f, T) /\ SumFunctionOnSet(f, T) = Run(T)[T]
    BY FS_Subset, SumRuns, SumIs
<1>2. SumFunctionOnSet(f, {}) = 0
  <2>1. Adds(Run({}), f, {}) /\ SumFunctionOnSet(f, {}) = Run({})[{}]
      BY <1>1
  <2> HIDE DEF Run
  <2> QED
      BY <2>1 DEF Adds
<1>3. ASSUME S # {} PROVE SumFunctionOnSet(f, S) = f[First(S)] + SumFunctionOnSet(f, S \ {First(S)})
  <2>1. PICK W : W = S \ {First(S)}
      OBVIOUS
  <2>2. PICK k, m : k = Run(S) /\ m = Run(W)
      OBVIOUS
  <2>3. W \in SUBSET S
      BY <2>1
  <2>4. Adds(k, f, S) /\ Adds(m, f, W)
      BY <1>1, <2>2, <2>3
  <2>5. \A s \in SUBSET W : k[s] = m[s]
      BY <2>3, <2>4, Agree
  <2>6. k[S] = f[First(S)] + k[W]
      BY <1>3, <2>1, <2>4 DEF Adds
  <2>7. SumFunctionOnSet(f, S) = k[S] /\ SumFunctionOnSet(f, W) = m[W]
      BY <1>1, <2>2, <2>3
  <2> QED
      BY <2>1, <2>5, <2>6, <2>7
<1> QED
    BY <1>2, <1>3

LEMMA SumInt ==
    ASSUME NEW S, IsFiniteSet(S), NEW f, \A s \in S : f[s] \in Int
    PROVE  SumFunctionOnSet(f, S) \in Int
<1> DEFINE Bad == {T \in SUBSET S : SumFunctionOnSet(f, T) \notin Int}
<1>1. ASSUME Bad # {} PROVE FALSE
  <2>1. PICK T \in Bad : \A U \in Bad : ~(U \subseteq T /\ U # T)
    <3>1. Bad \subseteq SUBSET S
        OBVIOUS
    <3> HIDE DEF Bad
    <3> QED
        BY <1>1, <3>1, Smallest
  <2>2. T \in SUBSET S /\ IsFiniteSet(T) /\ SumFunctionOnSet(f, T) \notin Int
      BY <2>1, FS_Subset
  <2>3. SumFunctionOnSet(f, {}) = 0
      BY <2>2, SumRecurs
  <2>4. T # {}
      BY <2>2, <2>3
  <2>5. First(T) \in T
      BY <2>4 DEF First
  <2>6. T \ {First(T)} \in SUBSET S /\ T \ {First(T)} # T
      BY <2>2, <2>5
  <2>7. SumFunctionOnSet(f, T \ {First(T)}) \in Int
      BY <2>1, <2>6
  <2>8. SumFunctionOnSet(f, T) = f[First(T)] + SumFunctionOnSet(f, T \ {First(T)})
      BY <2>2, <2>4, SumRecurs
  <2>9. f[First(T)] \in Int
      BY <2>2, <2>5
  <2> QED
      BY <2>2, <2>7, <2>8, <2>9
<1> QED
    BY <1>1

LEMMA SumSame ==
    ASSUME NEW S, IsFiniteSet(S), NEW f, NEW g, \A s \in S : f[s] = g[s]
    PROVE  SumFunctionOnSet(f, S) = SumFunctionOnSet(g, S)
<1> DEFINE Bad == {T \in SUBSET S : SumFunctionOnSet(f, T) # SumFunctionOnSet(g, T)}
<1>1. ASSUME Bad # {} PROVE FALSE
  <2>1. PICK T \in Bad : \A U \in Bad : ~(U \subseteq T /\ U # T)
    <3>1. Bad \subseteq SUBSET S
        OBVIOUS
    <3> HIDE DEF Bad
    <3> QED
        BY <1>1, <3>1, Smallest
  <2>2. T \in SUBSET S /\ IsFiniteSet(T) /\ SumFunctionOnSet(f, T) # SumFunctionOnSet(g, T)
      BY <2>1, FS_Subset
  <2>3. SumFunctionOnSet(f, {}) = 0 /\ SumFunctionOnSet(g, {}) = 0
      BY <2>2, SumRecurs
  <2>4. T # {}
      BY <2>2, <2>3
  <2>5. First(T) \in T
      BY <2>4 DEF First
  <2>6. T \ {First(T)} \in SUBSET S /\ T \ {First(T)} # T
      BY <2>2, <2>5
  <2>7. SumFunctionOnSet(f, T \ {First(T)}) = SumFunctionOnSet(g, T \ {First(T)})
      BY <2>1, <2>6
  <2>8. /\ SumFunctionOnSet(f, T) = f[First(T)] + SumFunctionOnSet(f, T \ {First(T)})
        /\ SumFunctionOnSet(g, T) = g[First(T)] + SumFunctionOnSet(g, T \ {First(T)})
      BY <2>2, <2>4, SumRecurs
  <2>9. f[First(T)] = g[First(T)]
      BY <2>2, <2>5
  <2> QED
      BY <2>2, <2>7, <2>8, <2>9
<1> QED
    BY <1>1

(* Any element may be taken out first.                                     *)
LEMMA SumSplits ==
    ASSUME NEW S, IsFiniteSet(S), NEW f, \A s \in S : f[s] \in Int, NEW z \in S
    PROVE  SumFunctionOnSet(f, S) = f[z] + SumFunctionOnSet(f, S \ {z})
<1> DEFINE Bad == {T \in SUBSET S : \E x \in T : SumFunctionOnSet(f, T)
                                               # f[x] + SumFunctionOnSet(f, T \ {x})}
<1>1. ASSUME Bad # {} PROVE FALSE
  <2>1. PICK T \in Bad : \A U \in Bad : ~(U \subseteq T /\ U # T)
    <3>1. Bad \subseteq SUBSET S
        OBVIOUS
    <3> HIDE DEF Bad
    <3> QED
        BY <1>1, <3>1, Smallest
  <2>2. T \in SUBSET S /\ IsFiniteSet(T)
      BY <2>1, FS_Subset
  <2>3. PICK x \in T : SumFunctionOnSet(f, T) # f[x] + SumFunctionOnSet(f, T \ {x})
      BY <2>1
  <2>4. PICK y : y = First(T)
      OBVIOUS
  <2>5. y \in T
      BY <2>3, <2>4 DEF First
  <2>6. SumFunctionOnSet(f, T) = f[y] + SumFunctionOnSet(f, T \ {y})
      BY <2>2, <2>3, <2>4, SumRecurs
  <2>7. y # x
      BY <2>3, <2>6
  <2>8. ASSUME NEW U \in SUBSET T, U # T
        PROVE  \A e \in U : SumFunctionOnSet(f, U) = f[e] + SumFunctionOnSet(f, U \ {e})
    <3>1. U \notin Bad /\ U \in SUBSET S
        BY <2>1, <2>2, <2>8
    <3> QED
        BY <3>1
  <2>9. PICK W : W = T \ {x}
      OBVIOUS
  <2>10. SumFunctionOnSet(f, W) = f[y] + SumFunctionOnSet(f, W \ {y})
      BY <2>5, <2>7, <2>8, <2>9
  <2>11. PICK V : V = T \ {y}
      OBVIOUS
  <2>12. SumFunctionOnSet(f, V) = f[x] + SumFunctionOnSet(f, V \ {x})
      BY <2>5, <2>7, <2>8, <2>11
  <2>13. V \ {x} = W \ {y}
      BY <2>9, <2>11
  <2>14. SumFunctionOnSet(f, W \ {y}) \in Int
    <3>1. PICK X : X = W \ {y}
        OBVIOUS
    <3>2. X \in SUBSET S /\ \A s \in X : f[s] \in Int
        BY <2>2, <2>9, <3>1
    <3>3. IsFiniteSet(X)
        BY <3>2, FS_Subset
    <3> QED
        BY <3>1, <3>2, <3>3, SumInt
  <2>15. f[x] \in Int /\ f[y] \in Int
      BY <2>2, <2>5
  <2> QED
      BY <2>3, <2>6, <2>9, <2>10, <2>11, <2>12, <2>13, <2>14, <2>15
<1>2. S \notin Bad
    BY <1>1
<1> QED
    BY <1>2

(* One term changes.                                                       *)
LEMMA SumMove ==
    ASSUME NEW S, IsFiniteSet(S), NEW f, NEW g, NEW x \in S,
           \A s \in S : f[s] \in Int /\ g[s] \in Int,
           \A s \in S \ {x} : g[s] = f[s]
    PROVE  SumFunctionOnSet(g, S) = SumFunctionOnSet(f, S) - f[x] + g[x]
<1>1. PICK W : W = S \ {x}
    OBVIOUS
<1>2. IsFiniteSet(W) /\ \A s \in W : f[s] \in Int /\ g[s] = f[s]
    BY <1>1, FS_Subset
<1>3. SumFunctionOnSet(f, W) = SumFunctionOnSet(g, W)
    BY <1>2, SumSame
<1>4. SumFunctionOnSet(f, W) \in Int
    BY <1>2, SumInt
<1>5. SumFunctionOnSet(f, S) = f[x] + SumFunctionOnSet(f, W)
    BY <1>1, SumSplits
<1>6. SumFunctionOnSet(g, S) = g[x] + SumFunctionOnSet(g, W)
    BY <1>1, SumSplits
<1>7. f[x] \in Int /\ g[x] \in Int
    OBVIOUS
<1> QED
    BY <1>3, <1>4, <1>5, <1>6, <1>7

LEMMA SumNothing ==
    ASSUME NEW S, IsFiniteSet(S), NEW f, \A s \in S : f[s] = 0
    PROVE  SumFunctionOnSet(f, S) = 0
<1> DEFINE Bad == {T \in SUBSET S : SumFunctionOnSet(f, T) # 0}
<1>1. ASSUME Bad # {} PROVE FALSE
  <2>1. PICK T \in Bad : \A U \in Bad : ~(U \subseteq T /\ U # T)
    <3>1. Bad \subseteq SUBSET S
        OBVIOUS
    <3> HIDE DEF Bad
    <3> QED
        BY <1>1, <3>1, Smallest
  <2>2. T \in SUBSET S /\ IsFiniteSet(T) /\ SumFunctionOnSet(f, T) # 0
      BY <2>1, FS_Subset
  <2>3. SumFunctionOnSet(f, {}) = 0
      BY <2>2, SumRecurs
  <2>4. T # {}
      BY <2>2, <2>3
  <2>5. First(T) \in T
      BY <2>4 DEF First
  <2>6. T \ {First(T)} \in SUBSET S /\ T \ {First(T)} # T
      BY <2>2, <2>5
  <2>7. SumFunctionOnSet(f, T \ {First(T)}) = 0
      BY <2>1, <2>6
  <2>8. SumFunctionOnSet(f, T) = f[First(T)] + SumFunctionOnSet(f, T \ {First(T)})
      BY <2>2, <2>4, SumRecurs
  <2>9. f[First(T)] = 0
      BY <2>2, <2>5
  <2> QED
      BY <2>2, <2>7, <2>8, <2>9
<1> QED
    BY <1>1

(* Sums of terms that balance, balance.                                    *)
LEMMA SumBalances ==
    ASSUME NEW S, IsFiniteSet(S), NEW a, NEW b, NEW c, NEW d, NEW e,
           \A s \in S : /\ a[s] \in Int /\ b[s] \in Int /\ c[s] \in Int
                        /\ d[s] \in Int /\ e[s] \in Int
                        /\ a[s] + b[s] = c[s] + d[s] - e[s]
    PROVE  SumFunctionOnSet(a, S) + SumFunctionOnSet(b, S)
             = SumFunctionOnSet(c, S) + SumFunctionOnSet(d, S) - SumFunctionOnSet(e, S)
<1> DEFINE Bad == {T \in SUBSET S :
                     SumFunctionOnSet(a, T) + SumFunctionOnSet(b, T)
                       # SumFunctionOnSet(c, T) + SumFunctionOnSet(d, T) - SumFunctionOnSet(e, T)}
<1>1. ASSUME Bad # {} PROVE FALSE
  <2>1. PICK T \in Bad : \A U \in Bad : ~(U \subseteq T /\ U # T)
    <3>1. Bad \subseteq SUBSET S
        OBVIOUS
    <3> HIDE DEF Bad
    <3> QED
        BY <1>1, <3>1, Smallest
  <2>2. T \in SUBSET S /\ IsFiniteSet(T)
        /\ SumFunctionOnSet(a, T) + SumFunctionOnSet(b, T)
             # SumFunctionOnSet(c, T) + SumFunctionOnSet(d, T) - SumFunctionOnSet(e, T)
      BY <2>1, FS_Subset
  <2>3. /\ SumFunctionOnSet(a, {}) = 0 /\ SumFunctionOnSet(b, {}) = 0
        /\ SumFunctionOnSet(c, {}) = 0 /\ SumFunctionOnSet(d, {}) = 0
        /\ SumFunctionOnSet(e, {}) = 0
      BY <2>2, SumRecurs
  <2>4. ASSUME T = {} PROVE FALSE
    <3>1. /\ SumFunctionOnSet(a, T) = 0 /\ SumFunctionOnSet(b, T) = 0
          /\ SumFunctionOnSet(c, T) = 0 /\ SumFunctionOnSet(d, T) = 0
          /\ SumFunctionOnSet(e, T) = 0
        BY <2>3, <2>4
    <3>2. 0 + 0 = 0 + 0 - 0
        OBVIOUS
    <3> QED
        BY <2>2, <3>1, <3>2
  <2>5. PICK y : y = First(T)
      OBVIOUS
  <2>6. y \in T /\ y \in S
      BY <2>2, <2>4, <2>5 DEF First
  <2>7. PICK U : U = T \ {y}
      OBVIOUS
  <2>8. U \in SUBSET S /\ U # T /\ U \subseteq T /\ IsFiniteSet(U)
      BY <2>2, <2>6, <2>7, FS_Subset
  <2>9. SumFunctionOnSet(a, U) + SumFunctionOnSet(b, U)
          = SumFunctionOnSet(c, U) + SumFunctionOnSet(d, U) - SumFunctionOnSet(e, U)
      BY <2>1, <2>8
  <2>10. /\ SumFunctionOnSet(a, T) = a[y] + SumFunctionOnSet(a, U)
         /\ SumFunctionOnSet(b, T) = b[y] + SumFunctionOnSet(b, U)
         /\ SumFunctionOnSet(c, T) = c[y] + SumFunctionOnSet(c, U)
         /\ SumFunctionOnSet(d, T) = d[y] + SumFunctionOnSet(d, U)
         /\ SumFunctionOnSet(e, T) = e[y] + SumFunctionOnSet(e, U)
      BY <2>2, <2>4, <2>5, <2>7, SumRecurs
  <2>11. \A s \in U : /\ a[s] \in Int /\ b[s] \in Int /\ c[s] \in Int
                       /\ d[s] \in Int /\ e[s] \in Int
      BY <2>8
  <2>12. SumFunctionOnSet(a, U) \in Int /\ SumFunctionOnSet(b, U) \in Int
         /\ SumFunctionOnSet(c, U) \in Int
      BY <2>8, <2>11, SumInt
  <2>13. SumFunctionOnSet(d, U) \in Int /\ SumFunctionOnSet(e, U) \in Int
      BY <2>8, <2>11, SumInt
  <2>14. /\ a[y] \in Int /\ b[y] \in Int /\ c[y] \in Int /\ d[y] \in Int /\ e[y] \in Int
         /\ a[y] + b[y] = c[y] + d[y] - e[y]
      BY <2>6
  <2> QED
      BY <2>2, <2>9, <2>10, <2>12, <2>13, <2>14
<1>2. S \notin Bad
    BY <1>1
<1> QED
    BY <1>2

(* Sums of natural numbers are natural numbers.                            *)
LEMMA SumNat ==
    ASSUME NEW S, IsFiniteSet(S), NEW f, \A s \in S : f[s] \in Nat
    PROVE  SumFunctionOnSet(f, S) \in Nat
<1> DEFINE Bad == {T \in SUBSET S : SumFunctionOnSet(f, T) \notin Nat}
<1>1. ASSUME Bad # {} PROVE FALSE
  <2>1. PICK T \in Bad : \A U \in Bad : ~(U \subseteq T /\ U # T)
    <3>1. Bad \subseteq SUBSET S
        OBVIOUS
    <3> HIDE DEF Bad
    <3> QED
        BY <1>1, <3>1, Smallest
  <2>2. T \in SUBSET S /\ IsFiniteSet(T) /\ SumFunctionOnSet(f, T) \notin Nat
      BY <2>1, FS_Subset
  <2>3. SumFunctionOnSet(f, {}) = 0
      BY <2>2, SumRecurs
  <2>4. T # {}
      BY <2>2, <2>3
  <2>5. First(T) \in T
      BY <2>4 DEF First
  <2>6. T \ {First(T)} \in SUBSET S /\ T \ {First(T)} # T
      BY <2>2, <2>5
  <2>7. SumFunctionOnSet(f, T \ {First(T)}) \in Nat
      BY <2>1, <2>6
  <2>8. SumFunctionOnSet(f, T) = f[First(T)] + SumFunctionOnSet(f, T \ {First(T)})
      BY <2>2, <2>4, SumRecurs
  <2>9. f[First(T)] \in Nat
      BY <2>2, <2>5
  <2> QED
      BY <2>2, <2>7, <2>8, <2>9
<1> QED
    BY <1>1

-----------------------------------------------------------------------------
(* BOOKS                                                                   *)

(* Types.  A request carries an amount of an entry from the posting to the *)
(* move of the last line, and an expense where it is to write one.         *)
Fit(r) ==
    /\ r.pc \in {"post", "debit", "credit", "row", "edit"} => r.amount \in Amounts
    /\ r.pc \in {"row", "settle", "edit"} => r.x \in Expenses
    /\ r.after \in {"row", "settle"} => r.x \in Expenses
    /\ r.after \in {"idle", "link", "row", "settle"}

Priced ==
    \A x \in Expenses : expense[x].status # "NONE" => expense[x].amount \in Amounts

Carries ==
    /\ \A i \in Handlers : Fit(h[i])
    /\ Priced

(* What a step leaves to a request.                                        *)
CarriedOn(r) == r \in Local /\ Fit(r)

Typed == TypeOK /\ Carries

LEMMA IdleCarried == CarriedOn(Idle)
    BY DEF CarriedOn, Local, Steps, Fit, Idle, Ledgers, Assets, Zero

LEMMA Carrying ==
    ASSUME Typed, NEW i \in Handlers
    PROVE  /\ CarriedOn(h[i])
           /\ h[i].dr \in Ledgers /\ h[i].cr \in Ledgers
           /\ h[i].amount \in Amounts \cup {0} /\ h[i].amount \in Nat
           /\ h[i].e \in Nat /\ h[i].of \in Nat
           /\ h[i].paid \in BOOLEAN /\ h[i].todo \subseteq Ledgers
           /\ h[i].was \in [Ledgers -> Int] /\ h[i].target \in [Ledgers -> Int]
<1>1. h[i] \in Local /\ Fit(h[i])
    BY DEF Typed, TypeOK, Carries
<1>2. Amounts \subseteq Nat
    BY BooksAssumption
<1> QED
    BY <1>1, <1>2 DEF Local, CarriedOn

(* The handlers of the next state, where one of them holds something else. *)
LEMMA Carry ==
    ASSUME Typed, NEW i \in Handlers, NEW r, CarriedOn(r), h' = [h EXCEPT ![i] = r]
    PROVE  /\ h' \in [Handlers -> Local]
           /\ \A j \in Handlers : Fit(h'[j])
<1>1. h \in [Handlers -> Local] /\ \A j \in Handlers : Fit(h[j])
    BY DEF Typed, TypeOK, Carries
<1>2. r \in Local /\ Fit(r)
    BY DEF CarriedOn
<1>3. \A j \in Handlers : h'[j] = IF j = i THEN r ELSE h[j]
    BY <1>1
<1> QED
    BY <1>1, <1>2, <1>3

(* A step that changes what one request holds and otherwise only what      *)
(* keeps its type.                                                         *)
LEMMA TypedStep ==
    ASSUME Typed, NEW i \in Handlers, NEW r, CarriedOn(r), h' = [h EXCEPT ![i] = r],
           journal' \in Seq(Entry), balance' \in [Ledgers -> Int],
           expense' \in [Expenses -> Expense], Priced',
           started' \in 0..MaxRequests, died' \in 0..MaxAborts,
           lost' \in [Ledgers -> Int], rebuilt' \in BOOLEAN, alone' \subseteq Handlers
    PROVE  Typed'
<1>1. h' \in [Handlers -> Local] /\ \A j \in Handlers : Fit(h'[j])
    BY Carry
<1>2. TypeOK'
    BY <1>1 DEF TypeOK
<1>3. Carries'
    BY <1>1 DEF Carries
<1> QED
    BY <1>2, <1>3 DEF Typed

LEMMA TypedInit == Init => Typed
<1> SUFFICES ASSUME Init PROVE Typed
    OBVIOUS
<1>1. Idle \in Local /\ Fit(Idle)
    BY IdleCarried DEF CarriedOn
<1>2. NoExpense \in Expense /\ NoExpense.status = "NONE"
    BY DEF NoExpense, Expense
<1>3. Zero \in [Ledgers -> Int]
    BY DEF Zero
<1>4. journal \in Seq(Entry)
    BY DEF Init
<1>5. TypeOK
  <2>1. balance \in [Ledgers -> Int] /\ lost \in [Ledgers -> Int]
      BY <1>3 DEF Init
  <2>2. expense \in [Expenses -> Expense] /\ h \in [Handlers -> Local]
      BY <1>1, <1>2 DEF Init
  <2>3. started \in 0..MaxRequests /\ died \in 0..MaxAborts
      BY BooksAssumption DEF Init
  <2>4. rebuilt \in BOOLEAN /\ alone \subseteq Handlers
      BY DEF Init
  <2> QED
      BY <1>4, <2>1, <2>2, <2>3, <2>4 DEF TypeOK
<1>6. Carries
    BY <1>1, <1>2 DEF Init, Carries, Priced
<1> QED
    BY <1>5, <1>6 DEF Typed

-----------------------------------------------------------------------------
(* A request that begins.                                                  *)
LEMMA BeginTyped ==
    ASSUME Typed, NEW i \in Handlers, NEW r, CarriedOn(r), Begin(i, r)
    PROVE  Typed'
<1>1. /\ h' = [h EXCEPT ![i] = r] /\ started < MaxRequests /\ started' = started + 1
      /\ UNCHANGED <<journal, balance, expense, died, lost, rebuilt>>
      /\ alone' = IF \E j \in Handlers \ {i} : h[j].pc # "idle" THEN {} ELSE {i}
    BY DEF Begin
<1>2. started' \in 0..MaxRequests
  <2>1. started \in 0..MaxRequests /\ MaxRequests \in Nat
      BY BooksAssumption DEF Typed, TypeOK
  <2> QED
      BY <1>1, <2>1
<1>3. alone' \subseteq Handlers
    BY <1>1
<1>4. /\ journal' \in Seq(Entry) /\ balance' \in [Ledgers -> Int]
      /\ died' \in 0..MaxAborts /\ lost' \in [Ledgers -> Int] /\ rebuilt' \in BOOLEAN
    BY <1>1 DEF Typed, TypeOK
<1>5. expense' \in [Expenses -> Expense] /\ Priced'
    BY <1>1 DEF Typed, TypeOK, Carries, Priced
<1> QED
    BY <1>1, <1>2, <1>3, <1>4, <1>5, TypedStep

LEMMA PostingCarried ==
    ASSUME NEW dr \in Ledgers, NEW cr \in Ledgers, NEW amount \in Amounts,
           NEW x \in Expenses, NEW paid \in BOOLEAN
    PROVE  /\ CarriedOn([Posting(dr, cr, amount, "row") EXCEPT !.x = x, !.paid = paid])
           /\ CarriedOn([Posting(dr, cr, amount, "settle") EXCEPT !.x = x])
<1>1. Idle \in Local
    BY IdleCarried DEF CarriedOn
<1>2. ASSUME NEW after \in {"row", "settle"}
      PROVE  /\ Posting(dr, cr, amount, after) \in Local
             /\ Posting(dr, cr, amount, after).pc = "post"
             /\ Posting(dr, cr, amount, after).after = after
             /\ Posting(dr, cr, amount, after).amount = amount
    BY <1>1 DEF Posting, Local, Steps
<1>3. CarriedOn([Posting(dr, cr, amount, "row") EXCEPT !.x = x, !.paid = paid])
    BY <1>2 DEF CarriedOn, Fit, Local
<1>4. CarriedOn([Posting(dr, cr, amount, "settle") EXCEPT !.x = x])
    BY <1>2 DEF CarriedOn, Fit, Local
<1> QED
    BY <1>3, <1>4

LEMMA Posted ==
    ASSUME Typed, NEW e \in DOMAIN journal
    PROVE  /\ journal[e] \in Entry /\ e \in Nat
           /\ journal[e].dr \in Ledgers /\ journal[e].cr \in Ledgers
           /\ journal[e].amount \in Amounts
<1>1. journal \in Seq(Entry)
    BY DEF Typed, TypeOK
<1>2. journal[e] \in Entry /\ e \in Nat
    BY <1>1
<1> QED
    BY <1>2 DEF Entry

(* The expense a request takes: an id nobody has, to record it under, or   *)
(* that of a row which was created.                                        *)
Takes(r) ==
    \/ /\ r.after = "row" /\ r.x \in Expenses /\ expense[r.x].status = "NONE"
       /\ \A j \in Handlers : h[j].x # r.x
    \/ r.after # "row" /\ r.x = "none"
    \/ r.after # "row" /\ r.x \in Expenses /\ expense[r.x].status # "NONE"

(* A request begins by posting, by editing, or by reading the ledgers.     *)
Begun(i, r) ==
    /\ Takes(r)
    /\ CarriedOn(r) /\ Begin(i, r)
    /\ r.pc \in {"post", "edit", "entries"}
    /\ r.pc = "entries" => r.was = balance

LEMMA Requested ==
    ASSUME Typed, NEW i \in Handlers, Request(i)
    PROVE  \E r : Begun(i, r)
<1>1. ASSUME NEW dr \in Ledgers, NEW cr \in Ledgers, NEW amount \in Amounts,
             PostAs(i, dr, cr, amount)
      PROVE  \E r : Begun(i, r)
  <2>1. PICK r : r = Posting(dr, cr, amount, "idle")
      OBVIOUS
  <2>2. Begin(i, r)
      BY <1>1, <2>1 DEF PostAs
  <2>3. CarriedOn(r)
    <3>1. Idle \in Local
        BY IdleCarried DEF CarriedOn
    <3> QED
        BY <2>1, <3>1 DEF CarriedOn, Fit, Posting, Local, Steps
  <2>4. r.pc = "post" /\ r.after = "idle" /\ r.x = "none"
      BY <2>1 DEF Posting, Idle
  <2> QED
      BY <2>2, <2>3, <2>4 DEF Begun, Takes
<1>2. ASSUME NEW e \in DOMAIN journal, ReverseRead(i, e) PROVE \E r : Begun(i, r)
  <2>1. PICK dr \in Ledgers : dr = journal[e].cr
      BY Posted
  <2>2. PICK cr \in Ledgers : cr = journal[e].dr
      BY Posted
  <2>3. PICK amount \in Amounts : amount = journal[e].amount
      BY Posted
  <2>4. e \in Nat
      BY Posted
  <2>5. PICK r : r = [Posting(dr, cr, amount, "link") EXCEPT !.of = e]
      OBVIOUS
  <2>6. Begin(i, r)
      BY <1>2, <2>1, <2>2, <2>3, <2>5 DEF ReverseRead
  <2>7. CarriedOn(r)
    <3>1. Idle \in Local
        BY IdleCarried DEF CarriedOn
    <3> QED
        BY <2>4, <2>5, <3>1 DEF CarriedOn, Fit, Posting, Local, Steps
  <2>8. r.pc = "post" /\ r.after = "link" /\ r.x = "none"
      BY <2>5 DEF Posting, Idle
  <2> QED
      BY <2>6, <2>7, <2>8 DEF Begun, Takes
<1>3. ASSUME NEW x \in Expenses, NEW amount \in Amounts, NEW paid \in BOOLEAN,
             RecordExpense(i, x, amount, paid)
      PROVE  \E r : Begun(i, r)
  <2>1. PICK cr \in Ledgers : cr = IF paid THEN "cash" ELSE "creditors"
      BY DEF Ledgers, Assets
  <2>2. PICK r : r = [Posting("expense", cr, amount, "row") EXCEPT !.x = x, !.paid = paid]
      OBVIOUS
  <2>3. Begin(i, r)
      BY <1>3, <2>1, <2>2 DEF RecordExpense
  <2>4. "expense" \in Ledgers
      BY DEF Ledgers
  <2>5. CarriedOn(r)
      BY <2>2, <2>4, PostingCarried
  <2>6. r.pc = "post" /\ r.after = "row" /\ r.x = x
      BY <2>2 DEF Posting, Idle
  <2> QED
      BY <1>3, <2>3, <2>5, <2>6 DEF Begun, Takes, RecordExpense
<1>4. ASSUME NEW x \in Expenses, PayRead(i, x) PROVE \E r : Begun(i, r)
  <2>1. PICK amount \in Amounts : amount = expense[x].amount
      BY <1>4 DEF PayRead, Typed, Carries, Priced
  <2>2. PICK r : r = [Posting("creditors", "cash", amount, "settle") EXCEPT !.x = x]
      OBVIOUS
  <2>3. Begin(i, r)
      BY <1>4, <2>1, <2>2 DEF PayRead
  <2>4. "creditors" \in Ledgers /\ "cash" \in Ledgers
      BY DEF Ledgers, Assets
  <2>5. CarriedOn(r)
      BY <2>2, <2>4, PostingCarried
  <2>6. r.pc = "post" /\ r.after = "settle" /\ r.x = x
      BY <2>2 DEF Posting, Idle
  <2> QED
      BY <1>4, <2>3, <2>5, <2>6 DEF Begun, Takes, PayRead
<1>5. ASSUME NEW x \in Expenses, NEW amount \in Amounts, EditRead(i, x, amount) PROVE \E r : Begun(i, r)
  <2>1. PICK r : r = [Idle EXCEPT !.pc = "edit", !.x = x, !.amount = amount]
      OBVIOUS
  <2>2. Begin(i, r)
      BY <1>5, <2>1 DEF EditRead
  <2>3. CarriedOn(r)
      BY <2>1, IdleCarried DEF CarriedOn, Local, Steps, Fit
  <2>4. r.pc = "edit" /\ r.after = "idle" /\ r.x = x
      BY <2>1 DEF Idle
  <2> QED
      BY <1>5, <2>2, <2>3, <2>4 DEF Begun, Takes, EditRead
<1>6. ASSUME RebuildLedgers(i) PROVE \E r : Begun(i, r)
  <2>1. PICK r : r = [Idle EXCEPT !.pc = "entries", !.was = balance]
      OBVIOUS
  <2>2. Begin(i, r)
      BY <1>6, <2>1 DEF RebuildLedgers
  <2>3. balance \in [Ledgers -> Int]
      BY DEF Typed, TypeOK
  <2>4. CarriedOn(r)
      BY <2>1, <2>3, IdleCarried DEF CarriedOn, Local, Steps, Fit
  <2>5. r.pc = "entries" /\ r.was = balance /\ r.after = "idle" /\ r.x = "none"
      BY <2>1 DEF Idle
  <2> QED
      BY <2>2, <2>4, <2>5 DEF Begun, Takes
<1> QED
    BY <1>1, <1>2, <1>3, <1>4, <1>5, <1>6 DEF Request

LEMMA RequestTyped ==
    ASSUME Typed, NEW i \in Handlers, Request(i)
    PROVE  Typed'
    BY Requested, BeginTyped DEF Begun

-----------------------------------------------------------------------------
(* What a line moves a ledger by is an integer.                            *)
LEMMA Signed ==
    ASSUME NEW l, NEW amount \in Nat
    PROVE  /\ l \in GrowsOnDebit => Sign(l) * amount = amount /\ -Sign(l) * amount = -amount
           /\ l \notin GrowsOnDebit => Sign(l) * amount = -amount /\ -Sign(l) * amount = amount
           /\ Sign(l) * amount \in Int /\ -Sign(l) * amount \in Int
           /\ -Sign(l) * amount = -(Sign(l) * amount)
<1>1. CASE l \in GrowsOnDebit
    BY <1>1 DEF Sign
<1>2. CASE l \notin GrowsOnDebit
    BY <1>2 DEF Sign
<1> QED
    BY <1>1, <1>2

LEMMA EffectTyped ==
    ASSUME NEW l, NEW entry, entry.amount \in Nat
    PROVE  Effect(l, entry) \in Int
<1>1. Sign(l) * entry.amount \in Int
    BY Signed
<1> QED
    BY <1>1 DEF Effect

LEMMA PendingTyped ==
    ASSUME Typed, NEW i \in Handlers, NEW l
    PROVE  Pending(i, l) \in Int
<1>1. h[i].amount \in Nat
    BY Carrying
<1>2. Effect(l, h[i]) \in Int
    BY <1>1, EffectTyped
<1>3. -Sign(l) * h[i].amount \in Int
    BY <1>1, Signed
<1> QED
    BY <1>2, <1>3 DEF Pending

(* What the journal and the requests in flight say of a ledger.            *)
LEMMA TotalTyped ==
    ASSUME Typed, NEW l, NEW S \in SUBSET DOMAIN journal
    PROVE  IsFiniteSet(S) /\ Total(l, S) \in Int
<1>1. IsFiniteSet(S)
  <2>1. DOMAIN journal = 1..Len(journal) /\ Len(journal) \in Nat
      BY DEF Typed, TypeOK
  <2>2. IsFiniteSet(1..Len(journal))
      BY <2>1, FS_Interval
  <2> QED
      BY <2>1, <2>2, FS_Subset
<1>2. PICK f : f = [e \in S |-> Effect(l, journal[e])]
    OBVIOUS
<1>3. \A e \in S : f[e] \in Int
  <2>1. ASSUME NEW e \in S PROVE Effect(l, journal[e]) \in Int
    <3>1. journal[e].amount \in Nat
        BY Posted, BooksAssumption
    <3> QED
        BY <3>1, EffectTyped
  <2> QED
      BY <1>2, <2>1
<1>4. SumFunctionOnSet(f, S) \in Int
    BY <1>1, <1>3, SumInt
<1> QED
    BY <1>1, <1>2, <1>4 DEF Total

LEMMA ClosingTyped == ASSUME Typed PROVE Closing \in [Ledgers -> Int]
<1>1. Unreversed \subseteq DOMAIN journal
    BY DEF Unreversed
<1>2. \A l \in Ledgers : Total(l, Unreversed) \in Int
    BY <1>1, TotalTyped
<1> QED
    BY <1>2 DEF Closing

-----------------------------------------------------------------------------
(* The steps of a request in flight.                                       *)

(* The record a request goes on with.                                      *)
LEMMA GoneTo ==
    ASSUME Typed, NEW i \in Handlers, NEW step \in Steps, Goto(i, step)
    PROVE  \E r \in Local : /\ h' = [h EXCEPT ![i] = r]
                            /\ r = [h[i] EXCEPT !.pc = step]
<1>1. h[i] \in Local
    BY Carrying DEF CarriedOn
<1>2. PICK r : r = [h[i] EXCEPT !.pc = step]
    OBVIOUS
<1>3. r \in Local
    BY <1>1, <1>2 DEF Local
<1>4. h' = [h EXCEPT ![i] = r]
    BY <1>2 DEF Goto
<1> QED
    BY <1>2, <1>3, <1>4

(* The balances after a line was moved.                                    *)
LEMMA Moved ==
    ASSUME Typed, NEW l \in Ledgers, NEW by \in Int, balance' = [balance EXCEPT ![l] = @ + by]
    PROVE  /\ balance' \in [Ledgers -> Int]
           /\ balance'[l] = balance[l] + by
           /\ \A k \in Ledgers \ {l} : balance'[k] = balance[k]
<1>1. balance \in [Ledgers -> Int]
    BY DEF Typed, TypeOK
<1> QED
    BY <1>1

LEMMA DebitMoves ==
    ASSUME Typed, NEW i \in Handlers, MoveDebit(i)
    PROVE  \E by \in Int : /\ by = Sign(h[i].dr) * h[i].amount
                           /\ balance' = [balance EXCEPT ![h[i].dr] = @ + by]
<1>1. h[i].amount \in Nat
    BY Carrying
<1>2. PICK by \in Int : by = Sign(h[i].dr) * h[i].amount
    BY <1>1, Signed
<1>3. balance' = [balance EXCEPT ![h[i].dr] = @ + by]
    BY <1>2 DEF MoveDebit
<1> QED
    BY <1>2, <1>3

LEMMA CreditMoves ==
    ASSUME Typed, NEW i \in Handlers, MoveCredit(i)
    PROVE  \E by \in Int : /\ by = -Sign(h[i].cr) * h[i].amount
                           /\ balance' = [balance EXCEPT ![h[i].cr] = @ + by]
<1>1. h[i].amount \in Nat /\ h[i].cr \in Ledgers
    BY Carrying
<1>2. PICK by \in Int : by = -Sign(h[i].cr) * h[i].amount
    BY <1>1, Signed
<1>3. by = -(Sign(h[i].cr) * h[i].amount) /\ Sign(h[i].cr) * h[i].amount \in Int
    BY <1>1, <1>2, Signed
<1>4. balance[h[i].cr] \in Int
    BY <1>1 DEF Typed, TypeOK
<1>5. Credited(h[i].cr, h[i].amount) = balance[h[i].cr] + by
    BY <1>3, <1>4 DEF Credited
<1>6. balance' = [balance EXCEPT ![h[i].cr] = Credited(h[i].cr, h[i].amount)]
    BY DEF MoveCredit
<1> QED
    BY <1>2, <1>5, <1>6

(* The journal after a posting, and after a link: what a line moves is as  *)
(* it was posted.                                                          *)
LEMMA Appended ==
    ASSUME Typed, NEW i \in Handlers, Post(i)
    PROVE  /\ h[i].pc = "post"
           /\ journal' \in Seq(Entry)
           /\ Len(journal') = Len(journal) + 1
           /\ journal'[Len(journal) + 1] =
                [dr |-> h[i].dr, cr |-> h[i].cr, amount |-> h[i].amount,
                 reversedBy |-> 0, reverses |-> 0]
           /\ \A e \in DOMAIN journal : e \in DOMAIN journal' /\ journal'[e] = journal[e]
           /\ DOMAIN journal' = DOMAIN journal \cup {Len(journal) + 1}
           /\ Len(journal) + 1 \notin DOMAIN journal
           /\ Len(journal) + 1 \in Nat
<1>1. h[i].pc = "post"
    BY DEF Post, At
<1>2. PICK entry : entry = [dr |-> h[i].dr, cr |-> h[i].cr, amount |-> h[i].amount,
                            reversedBy |-> 0, reverses |-> 0]
    OBVIOUS
<1>3. entry \in Entry
  <2>1. h[i].dr \in Ledgers /\ h[i].cr \in Ledgers /\ Fit(h[i])
      BY Carrying DEF CarriedOn
  <2>2. h[i].amount \in Amounts
      BY <1>1, <2>1 DEF Fit
  <2> QED
      BY <1>2, <2>1, <2>2 DEF Entry
<1>4. journal' = Append(journal, entry)
    BY <1>2 DEF Post
<1>5. journal \in Seq(Entry)
    BY DEF Typed, TypeOK
<1>6. /\ journal' \in Seq(Entry) /\ Len(journal') = Len(journal) + 1
      /\ journal'[Len(journal) + 1] = entry
      /\ \A e \in DOMAIN journal : e \in DOMAIN journal' /\ journal'[e] = journal[e]
    BY <1>3, <1>4, <1>5
<1>7. DOMAIN journal = 1..Len(journal) /\ Len(journal) \in Nat
    BY <1>5
<1>8. DOMAIN journal' = 1..(Len(journal) + 1)
    BY <1>6
<1> QED
    BY <1>1, <1>2, <1>6, <1>7, <1>8

LEMMA Linked ==
    ASSUME Typed, NEW i \in Handlers, Link(i) \/ LinkBack(i)
    PROVE  /\ journal' \in Seq(Entry)
           /\ DOMAIN journal' = DOMAIN journal
           /\ \A e \in DOMAIN journal : /\ journal'[e].dr = journal[e].dr
                                        /\ journal'[e].cr = journal[e].cr
                                        /\ journal'[e].amount = journal[e].amount
<1>1. journal \in Seq(Entry)
    BY DEF Typed, TypeOK
<1>2. h[i].e \in Nat /\ h[i].of \in Nat
    BY Carrying
<1>3. DOMAIN journal = 1..Len(journal) /\ Len(journal) \in Nat
      /\ \A e \in DOMAIN journal : journal[e] \in Entry
    BY <1>1
<1>4. CASE Link(i)
  <2>1. journal' = [journal EXCEPT ![h[i].of].reversedBy = h[i].e]
      BY <1>4 DEF Link
  <2>2. \A e \in DOMAIN journal : /\ journal'[e] \in Entry
                                  /\ journal'[e].dr = journal[e].dr
                                  /\ journal'[e].cr = journal[e].cr
                                  /\ journal'[e].amount = journal[e].amount
      BY <1>2, <1>3, <2>1 DEF Entry
  <2>3. journal' \in [1..Len(journal) -> Entry]
      BY <1>3, <2>1, <2>2
  <2>4. journal' \in Seq(Entry)
      BY <1>3, <2>3
  <2> QED
      BY <2>1, <2>2, <2>4
<1>5. CASE LinkBack(i)
  <2>1. journal' = [journal EXCEPT ![h[i].e].reverses = h[i].of]
      BY <1>5 DEF LinkBack
  <2>2. \A e \in DOMAIN journal : /\ journal'[e] \in Entry
                                  /\ journal'[e].dr = journal[e].dr
                                  /\ journal'[e].cr = journal[e].cr
                                  /\ journal'[e].amount = journal[e].amount
      BY <1>2, <1>3, <2>1 DEF Entry
  <2>3. journal' \in [1..Len(journal) -> Entry]
      BY <1>3, <2>1, <2>2
  <2>4. journal' \in Seq(Entry)
      BY <1>3, <2>3
  <2> QED
      BY <2>1, <2>2, <2>4
<1> QED
    BY <1>4, <1>5

(* What the request is left with by a step of its own: the expense it had, *)
(* and the row still to write if it records one; or nothing.               *)
Went(i, r) ==
    /\ CarriedOn(r)
    /\ h' = [h EXCEPT ![i] = r]
    /\ h[i].pc # "idle"
    /\ UNCHANGED <<started, died, lost, alone>>
    /\ r = Idle \/ (r.x = h[i].x /\ r.after = h[i].after)
    /\ r.pc = "row" => r.after = "row"

LEMMA Advanced ==
    ASSUME Typed, NEW i \in Handlers, Advance(i)
    PROVE  \E r : /\ Went(i, r)
                  /\ \/ r.pc \notin {"entries", "write"}
                     \/ RebuildEntries(i)
                     \/ \E l \in Ledgers : RebuildWrite(i, l)
<1> DEFINE Goal == \E r : /\ Went(i, r)
                          /\ \/ r.pc \notin {"entries", "write"}
                             \/ RebuildEntries(i)
                             \/ \E l \in Ledgers : RebuildWrite(i, l)
<1>0. h[i] \in Local /\ Fit(h[i])
    BY Carrying DEF CarriedOn
<1>1. CASE Post(i)
  <2>1. h[i].pc = "post" /\ Len(journal) + 1 \in Nat
      BY <1>1, Appended
  <2>2. PICK r : r = [h[i] EXCEPT !.pc = "debit", !.e = Len(journal) + 1]
      OBVIOUS
  <2>3. CarriedOn(r) /\ r.pc = "debit" /\ r.x = h[i].x /\ r.after = h[i].after
      BY <1>0, <2>1, <2>2 DEF CarriedOn, Local, Steps, Fit
  <2>4. h' = [h EXCEPT ![i] = r] /\ UNCHANGED <<started, died, lost, alone>>
      BY <1>1, <2>2 DEF Post, At, history
  <2> QED
      BY <2>1, <2>3, <2>4 DEF Went
<1>2. ASSUME NEW step \in Steps, Goto(i, step), h[i].pc # "idle",
             UNCHANGED <<started, history>>,
             \/ step \in {"credit", "row"} /\ h[i].amount \in Amounts
             \/ step \in {"settle", "link", "linkBack"},
             step \in {"row", "settle"} => h[i].after = step
      PROVE  Goal
  <2>1. PICK r \in Local : h' = [h EXCEPT ![i] = r] /\ r = [h[i] EXCEPT !.pc = step]
      BY <1>2, GoneTo
  <2>2. r.pc = step /\ r.after = h[i].after /\ r.amount = h[i].amount /\ r.x = h[i].x
      BY <1>0, <2>1 DEF Local
  <2>3. CarriedOn(r)
      BY <1>0, <1>2, <2>1, <2>2 DEF CarriedOn, Fit
  <2>4. Went(i, r)
      BY <1>2, <2>1, <2>2, <2>3 DEF Went, history
  <2> QED
      BY <1>2, <2>2, <2>4
<1>3. ASSUME Finish(i), h[i].pc # "idle", UNCHANGED <<started, history>> PROVE Goal
  <2>1. h' = [h EXCEPT ![i] = Idle]
      BY <1>3 DEF Finish
  <2>2. Idle.pc = "idle"
      BY DEF Idle
  <2>3. Went(i, Idle)
      BY <1>3, <2>1, <2>2, IdleCarried DEF Went, history
  <2> QED
      BY <2>2, <2>3
<1>4. CASE MoveDebit(i)
  <2>1. /\ h[i].pc = "debit" /\ h[i].amount \in Amounts /\ Goto(i, "credit")
        /\ UNCHANGED <<started, history>> /\ "credit" \in Steps
      BY <1>0, <1>4 DEF MoveDebit, At, Fit, Steps
  <2> QED
      BY <1>2, <2>1
<1>5. CASE MoveCredit(i)
  <2>1. /\ h[i].pc = "credit" /\ h[i].amount \in Amounts /\ UNCHANGED <<started, history>>
        /\ h[i].after \in {"idle", "link", "row", "settle"}
      BY <1>0, <1>5 DEF MoveCredit, At, Fit
  <2>2. CASE h[i].after = "idle"
      BY <1>3, <1>5, <2>1, <2>2 DEF MoveCredit
  <2>3. CASE h[i].after # "idle"
    <3>1. PICK step \in Steps : step = h[i].after
        BY <2>1 DEF Steps
    <3>2. Goto(i, step) /\ step \in {"link", "row", "settle"}
        BY <1>5, <2>1, <2>3, <3>1 DEF MoveCredit
    <3> QED
        BY <1>2, <2>1, <3>1, <3>2
  <2> QED
      BY <2>2, <2>3
<1>6. CASE Link(i)
  <2>1. /\ h[i].pc = "link" /\ Goto(i, "linkBack") /\ "linkBack" \in Steps
        /\ UNCHANGED <<started, history>>
      BY <1>6 DEF Link, At, Steps
  <2> QED
      BY <1>2, <2>1
<1>7. CASE LinkBack(i) \/ CreateRow(i) \/ Settle(i) \/ EditWrite(i) \/ RebuildEnd(i)
  <2>1. Finish(i) /\ h[i].pc # "idle" /\ UNCHANGED <<started, history>>
      BY <1>7 DEF LinkBack, CreateRow, Settle, EditWrite, RebuildEnd, At
  <2> QED
      BY <1>3, <2>1
<1>8. CASE RebuildEntries(i)
  <2>1. PICK closing \in [Ledgers -> Int], todo \in SUBSET Ledgers :
          h' = [h EXCEPT ![i].pc = "write", ![i].target = closing, ![i].todo = todo]
      BY <1>8, ClosingTyped DEF RebuildEntries
  <2>2. PICK r : r = [h[i] EXCEPT !.pc = "write", !.target = closing, !.todo = todo]
      OBVIOUS
  <2>3. CarriedOn(r) /\ r.pc = "write" /\ r.x = h[i].x /\ r.after = h[i].after
      BY <1>0, <2>2 DEF CarriedOn, Local, Steps, Fit
  <2>4. h' = [h EXCEPT ![i] = r]
      BY <2>1, <2>2
  <2>5. h[i].pc = "entries" /\ UNCHANGED <<started, died, lost, alone>>
      BY <1>8 DEF RebuildEntries, At, history
  <2> QED
      BY <1>8, <2>3, <2>4, <2>5 DEF Went
<1>9. ASSUME NEW l \in Ledgers, RebuildWrite(i, l) PROVE Goal
  <2>1. PICK r : r = [h[i] EXCEPT !.todo = h[i].todo \ {l}]
      OBVIOUS
  <2>2. h[i].pc = "write" /\ UNCHANGED <<started, died, lost, alone>>
      BY <1>9 DEF RebuildWrite, At
  <2>3. CarriedOn(r) /\ r.pc = "write" /\ r.x = h[i].x /\ r.after = h[i].after
      BY <1>0, <2>1, <2>2 DEF CarriedOn, Local, Fit
  <2>4. h' = [h EXCEPT ![i] = r]
      BY <1>9, <2>1 DEF RebuildWrite
  <2>5. Went(i, r)
      BY <2>2, <2>3, <2>4 DEF Went
  <2> QED
      BY <1>9, <2>5
<1> QED
    BY <1>1, <1>4, <1>5, <1>6, <1>7, <1>8, <1>9 DEF Advance

LEMMA AdvanceTyped ==
    ASSUME Typed, NEW i \in Handlers, Advance(i)
    PROVE  Typed'
<1>0. /\ h[i] \in Local /\ Fit(h[i]) /\ h[i].e \in Nat
      /\ journal \in Seq(Entry) /\ balance \in [Ledgers -> Int]
      /\ expense \in [Expenses -> Expense] /\ Priced /\ rebuilt \in BOOLEAN
    BY Carrying DEF CarriedOn, Typed, TypeOK, Carries
<1>1. PICK r : Went(i, r)
    BY Advanced
<1>2. journal' \in Seq(Entry)
  <2>1. CASE Post(i)
      BY <2>1, Appended
  <2>2. CASE Link(i) \/ LinkBack(i)
      BY <2>2, Linked
  <2>3. CASE UNCHANGED journal
      BY <1>0, <2>3
  <2> QED
      BY <2>1, <2>2, <2>3 DEF Advance, MoveDebit, MoveCredit, CreateRow, Settle, EditWrite,
                              RebuildEntries, RebuildWrite, RebuildEnd
<1>3. balance' \in [Ledgers -> Int]
  <2>1. CASE MoveDebit(i)
      BY <2>1, DebitMoves, Moved, Carrying
  <2>2. CASE MoveCredit(i)
      BY <2>2, CreditMoves, Moved, Carrying
  <2>3. ASSUME NEW l \in Ledgers, RebuildWrite(i, l) PROVE balance' \in [Ledgers -> Int]
    <3>1. h[i].target[l] \in Int
        BY Carrying
    <3>2. balance' = [balance EXCEPT ![l] = h[i].target[l]]
        BY <2>3 DEF RebuildWrite
    <3> QED
        BY <1>0, <3>1, <3>2
  <2>4. CASE UNCHANGED balance
      BY <1>0, <2>4
  <2> QED
      BY <2>1, <2>2, <2>3, <2>4 DEF Advance, Post, Link, LinkBack, CreateRow, Settle, EditWrite,
                                    RebuildEntries, RebuildEnd
<1>4. expense' \in [Expenses -> Expense] /\ Priced'
  <2>1. CASE CreateRow(i)
    <3>1. h[i].amount \in Amounts
        BY <1>0, <2>1 DEF CreateRow, At, Fit
    <3>2. PICK row : row = [status |-> IF h[i].paid THEN "PAID" ELSE "APPROVED",
                            amount |-> h[i].amount, entry |-> h[i].e]
        OBVIOUS
    <3>3. row \in Expense /\ row.amount \in Amounts
        BY <1>0, <3>1, <3>2 DEF Expense
    <3>4. expense' = [expense EXCEPT ![h[i].x] = row]
        BY <2>1, <3>2 DEF CreateRow
    <3> QED
        BY <1>0, <3>3, <3>4 DEF Priced
  <2>2. CASE Settle(i)
    <3>1. PICK x : x = h[i].x
        OBVIOUS
    <3>2. expense' = IF Settleable(x)
                       THEN [expense EXCEPT ![x].status = "PAID", ![x].entry = h[i].e]
                       ELSE expense
        BY <2>2, <3>1 DEF Settle
    <3> QED
        BY <1>0, <3>2 DEF Settleable, Expense, Priced
  <2>3. CASE EditWrite(i)
    <3>1. h[i].amount \in Amounts
        BY <1>0, <2>3 DEF EditWrite, At, Fit
    <3>2. expense' = [expense EXCEPT ![h[i].x].amount = h[i].amount]
        BY <2>3 DEF EditWrite
    <3> QED
        BY <1>0, <3>1, <3>2 DEF Expense, Priced
  <2>4. CASE UNCHANGED expense
      BY <1>0, <2>4 DEF Priced
  <2> QED
      BY <2>1, <2>2, <2>3, <2>4 DEF Advance, Post, MoveDebit, MoveCredit, Link, LinkBack,
                                    RebuildEntries, RebuildWrite, RebuildEnd
<1>5. rebuilt' \in BOOLEAN
    BY <1>0 DEF Advance, Post, MoveDebit, MoveCredit, Link, LinkBack, CreateRow, Settle,
                EditWrite, RebuildEntries, RebuildWrite, RebuildEnd, history
<1>6. /\ started' \in 0..MaxRequests /\ died' \in 0..MaxAborts
      /\ lost' \in [Ledgers -> Int] /\ alone' \subseteq Handlers
    BY <1>1 DEF Went, Typed, TypeOK
<1> QED
    BY <1>1, <1>2, <1>3, <1>4, <1>5, <1>6, TypedStep DEF Went

LEMMA AbortTyped ==
    ASSUME Typed, NEW i \in Handlers, Abort(i)
    PROVE  Typed'
<1>1. /\ died' = died + 1 /\ died < MaxAborts /\ h' = [h EXCEPT ![i] = Idle]
      /\ lost' = [l \in Ledgers |-> lost[l] + Pending(i, l)]
      /\ UNCHANGED <<journal, balance, expense, started, rebuilt, alone>>
    BY DEF Abort, Finish
<1>2. lost' \in [Ledgers -> Int]
  <2>1. \A l \in Ledgers : lost[l] \in Int /\ Pending(i, l) \in Int
      BY PendingTyped DEF Typed, TypeOK
  <2> QED
      BY <1>1, <2>1
<1>3. died' \in 0..MaxAborts
    BY <1>1, BooksAssumption DEF Typed, TypeOK
<1>4. /\ journal' \in Seq(Entry) /\ balance' \in [Ledgers -> Int]
      /\ started' \in 0..MaxRequests /\ rebuilt' \in BOOLEAN /\ alone' \subseteq Handlers
    BY <1>1 DEF Typed, TypeOK
<1>5. expense' \in [Expenses -> Expense] /\ Priced'
    BY <1>1 DEF Typed, TypeOK, Carries, Priced
<1> QED
    BY <1>1, <1>2, <1>3, <1>4, <1>5, IdleCarried, TypedStep

LEMMA TypedNext == Typed /\ [Next]_vars => Typed'
<1> SUFFICES ASSUME Typed, [Next]_vars PROVE Typed'
    OBVIOUS
<1>1. CASE UNCHANGED vars
    BY <1>1 DEF vars, Typed, TypeOK, Carries, Priced
<1>2. CASE Next
    BY <1>2, RequestTyped, AdvanceTyped, AbortTyped DEF Next
<1> QED
    BY <1>1, <1>2

LEMMA TypedAlways == Spec => []Typed
    BY TypedInit, TypedNext, PTL DEF Spec

(* Every state has its type: what a request still carries of an amount and *)
(* of an expense is what it needs for the writes it has left               *)
(* (accountingService.ts 94-160, 321-445).                                 *)
THEOREM TypeCorrect == Spec => []TypeOK
<1>1. Typed => TypeOK
    BY DEF Typed
<1> QED
    BY <1>1, TypedAlways, PTL

-----------------------------------------------------------------------------
(* The balances explained.                                                 *)

(* What the record of a request has posted and not moved.                  *)
Owes(r, l) ==
    CASE r.pc = "debit" -> Effect(l, r)
      [] r.pc = "credit" -> IF r.cr = l THEN -Sign(l) * r.amount ELSE 0
      [] OTHER -> 0

Says(l) == Total(l, DOMAIN journal)
Due(l) == SumFunctionOnSet([i \in Handlers |-> Pending(i, l)], Handlers)

LEMMA OwesIs == ASSUME NEW i, NEW l PROVE Pending(i, l) = Owes(h[i], l)
    BY DEF Pending, Owes

LEMMA OwesNothing ==
    ASSUME NEW r, NEW l, r.pc \notin {"debit", "credit"}
    PROVE  Owes(r, l) = 0
    BY DEF Owes

LEMMA DueTyped ==
    ASSUME Typed, NEW l
    PROVE  Due(l) \in Int
<1>1. PICK f : f = [i \in Handlers |-> Pending(i, l)]
    OBVIOUS
<1>2. \A i \in Handlers : f[i] \in Int
    BY <1>1, PendingTyped
<1>3. IsFiniteSet(Handlers)
    BY BooksAssumption
<1>4. SumFunctionOnSet(f, Handlers) \in Int
    BY <1>2, <1>3, SumInt
<1> QED
    BY <1>1, <1>4 DEF Due

LEMMA OwesTyped ==
    ASSUME NEW r, CarriedOn(r), NEW l
    PROVE  Owes(r, l) \in Int
<1>1. r.amount \in Amounts \/ r.amount = 0
    BY DEF CarriedOn, Local
<1>2. \A amount \in Amounts : amount \in Nat
    BY BooksAssumption
<1>3. r.amount \in Nat
    BY <1>1, <1>2
<1>4. Effect(l, r) \in Int
    BY <1>3, EffectTyped
<1>5. -Sign(l) * r.amount \in Int
    BY <1>3, Signed
<1> QED
    BY <1>4, <1>5 DEF Owes

(* What is due changes by what one request has come to hold.               *)
LEMMA DueMoves ==
    ASSUME Typed, NEW i \in Handlers, NEW r, CarriedOn(r), h' = [h EXCEPT ![i] = r], NEW l
    PROVE  /\ Due(l)' = Due(l) - Pending(i, l) + Owes(r, l)
           /\ Pending(i, l) \in Int /\ Owes(r, l) \in Int /\ Due(l) \in Int
<1>1. PICK f : f = [j \in Handlers |-> Pending(j, l)]
    OBVIOUS
<1>2. PICK g : g = [j \in Handlers |-> IF j = i THEN Owes(r, l) ELSE Pending(j, l)]
    OBVIOUS
<1>3. Owes(r, l) \in Int
    BY OwesTyped
<1>4. \A j \in Handlers : Pending(j, l) \in Int
    BY PendingTyped
<1>5. \A j \in Handlers : f[j] \in Int /\ g[j] \in Int
    BY <1>1, <1>2, <1>3, <1>4
<1>6. \A j \in Handlers \ {i} : g[j] = f[j]
    BY <1>1, <1>2
<1>7. IsFiniteSet(Handlers)
    BY BooksAssumption
<1>8. SumFunctionOnSet(g, Handlers) = SumFunctionOnSet(f, Handlers) - f[i] + g[i]
    BY ONLY <1>5, <1>6, <1>7, i \in Handlers, SumMove
<1>9. \A j \in Handlers : Pending(j, l)' = IF j = i THEN Owes(r, l) ELSE Pending(j, l)
  <2>1. h \in [Handlers -> Local]
      BY DEF Typed, TypeOK
  <2>2. \A j \in Handlers : h'[j] = IF j = i THEN r ELSE h[j]
      BY <2>1
  <2>3. ASSUME NEW j \in Handlers
        PROVE  Pending(j, l)' = IF j = i THEN Owes(r, l) ELSE Pending(j, l)
    <3>1. CASE j = i
      <4>1. h'[j] = r
          BY <2>2, <3>1
      <4> QED
          BY <3>1, <4>1 DEF Pending, Owes
    <3>2. CASE j # i
      <4>1. h'[j] = h[j]
          BY <2>2, <3>2
      <4> QED
          BY <3>2, <4>1 DEF Pending
    <3> QED
        BY <3>1, <3>2
  <2> QED
      BY <2>3
<1>10. Due(l)' = SumFunctionOnSet(g, Handlers)
  <2>1. [j \in Handlers |-> Pending(j, l)'] = g
      BY <1>2, <1>9
  <2> QED
      BY <2>1 DEF Due
<1>11. Due(l) = SumFunctionOnSet(f, Handlers)
    BY <1>1 DEF Due
<1>12. f[i] = Pending(i, l) /\ g[i] = Owes(r, l)
    BY <1>1, <1>2
<1> QED
    BY <1>3, <1>4, <1>8, <1>10, <1>11, <1>12, DueTyped

(* What the journal says, after a link and after a posting.                *)
LEMMA EffectOf ==
    ASSUME NEW l, NEW a, NEW b, a.dr = b.dr, a.cr = b.cr, a.amount = b.amount
    PROVE  Effect(l, a) = Effect(l, b)
    BY DEF Effect

LEMMA SaysSame ==
    ASSUME Typed, NEW i \in Handlers, Link(i) \/ LinkBack(i), NEW l
    PROVE  Says(l)' = Says(l)
<1>1. PICK f : f = [e \in DOMAIN journal |-> Effect(l, journal[e])]
    OBVIOUS
<1>2. PICK g : g = [e \in DOMAIN journal |-> Effect(l, journal'[e])]
    OBVIOUS
<1>3. \A e \in DOMAIN journal : f[e] = g[e]
    BY <1>1, <1>2, Linked, EffectOf
<1>4. f = g
    BY <1>1, <1>2, <1>3
<1>5. DOMAIN journal' = DOMAIN journal
    BY Linked
<1>6. Says(l)' = SumFunctionOnSet(g, DOMAIN journal)
    BY <1>2, <1>5 DEF Says, Total
<1> QED
    BY <1>1, <1>4, <1>6 DEF Says, Total

LEMMA SaysMore ==
    ASSUME Typed, NEW i \in Handlers, Post(i), Typed', NEW l
    PROVE  Says(l)' = Says(l) + Effect(l, h[i])
<1>1. PICK n : n = Len(journal) + 1
    OBVIOUS
<1>2. PICK f : f = [e \in DOMAIN journal |-> Effect(l, journal[e])]
    OBVIOUS
<1>3. PICK g : g = [e \in DOMAIN journal' |-> Effect(l, journal'[e])]
    OBVIOUS
<1>4. PICK W : W = DOMAIN journal'
    OBVIOUS
<1>5. W = DOMAIN journal \cup {n} /\ n \notin DOMAIN journal
    BY <1>1, <1>4, Appended
<1>6. IsFiniteSet(W) /\ \A e \in W : g[e] \in Int
  <2>1. DOMAIN journal' = 1..Len(journal') /\ Len(journal') \in Nat
      BY Appended
  <2>2. IsFiniteSet(1..Len(journal'))
      BY <2>1, FS_Interval
  <2>3. ASSUME NEW e \in W PROVE g[e] \in Int
    <3>1. journal' \in Seq(Entry)
        BY Appended
    <3>2. journal'[e] \in Entry
        BY <1>4, <3>1
    <3>3. PICK entry \in Entry : entry = journal'[e]
        BY <3>2
    <3>4. entry.amount \in Nat
        BY BooksAssumption DEF Entry
    <3>5. Effect(l, entry) \in Int
        BY <3>4, EffectTyped
    <3> QED
        BY <1>3, <1>4, <3>3, <3>5
  <2> QED
      BY <1>4, <2>1, <2>2, <2>3
<1>7. SumFunctionOnSet(g, W) = g[n] + SumFunctionOnSet(g, W \ {n})
    BY <1>5, <1>6, SumSplits
<1>8. W \ {n} = DOMAIN journal
    BY <1>5
<1>9. \A e \in DOMAIN journal : g[e] = f[e]
    BY <1>2, <1>3, Appended
<1>10. IsFiniteSet(DOMAIN journal)
    BY <1>5, <1>6, FS_Subset
<1>11. SumFunctionOnSet(g, DOMAIN journal) = SumFunctionOnSet(f, DOMAIN journal)
    BY <1>9, <1>10, SumSame
<1>12. g[n] = Effect(l, h[i])
  <2>1. n \in DOMAIN journal'
      BY <1>4, <1>5
  <2>2. g[n] = Effect(l, journal'[n])
      BY <1>3, <2>1
  <2>3. journal'[n] = [dr |-> h[i].dr, cr |-> h[i].cr, amount |-> h[i].amount,
                       reversedBy |-> 0, reverses |-> 0]
      BY <1>1, Appended
  <2>4. /\ journal'[n].dr = h[i].dr /\ journal'[n].cr = h[i].cr
        /\ journal'[n].amount = h[i].amount
      BY <2>3
  <2> QED
      BY <2>2, <2>4, EffectOf
<1>13. Says(l)' = SumFunctionOnSet(g, W)
    BY <1>3, <1>4 DEF Says, Total
<1>14. Says(l) = SumFunctionOnSet(f, DOMAIN journal)
    BY <1>2 DEF Says, Total
<1>15. Says(l) \in Int /\ Effect(l, h[i]) \in Int
    BY TotalTyped, Carrying, EffectTyped DEF Says
<1> QED
    BY <1>7, <1>8, <1>11, <1>12, <1>13, <1>14, <1>15

Explains(l) == balance[l] = Says(l) - lost[l] - Due(l)
Explained == ~rebuilt => \A l \in Ledgers : Explains(l)

LEMMA ExplainedIs == Explained => LedgerExplained
    BY DEF Explained, Explains, LedgerExplained, Says, Due

(* A step keeps the balances explained where each moves by what the        *)
(* journal has come to say, less what dies and what is left to be moved.   *)
LEMMA Balances ==
    ASSUME Typed, Explained, NEW i \in Handlers, NEW r, CarriedOn(r), h' = [h EXCEPT ![i] = r],
           UNCHANGED rebuilt,
           \A l \in Ledgers :
             /\ Says(l)' \in Int /\ lost'[l] \in Int
             /\ balance'[l] = balance[l] + (Says(l)' - Says(l)) - (lost'[l] - lost[l])
                                - (Owes(r, l) - Pending(i, l))
    PROVE  Explained'
<1>1. ASSUME NEW l \in Ledgers, ~rebuilt PROVE Explains(l)'
  <2>1. balance[l] = Says(l) - lost[l] - Due(l)
      BY <1>1 DEF Explained, Explains
  <2>2. /\ Due(l)' = Due(l) - Pending(i, l) + Owes(r, l)
        /\ Pending(i, l) \in Int /\ Owes(r, l) \in Int /\ Due(l) \in Int
      BY DueMoves
  <2>3. Says(l) \in Int /\ lost[l] \in Int
      BY TotalTyped DEF Says, Typed, TypeOK
  <2>4. /\ Says(l)' \in Int /\ lost'[l] \in Int
        /\ balance'[l] = balance[l] + (Says(l)' - Says(l)) - (lost'[l] - lost[l])
                           - (Owes(r, l) - Pending(i, l))
      OBVIOUS
  <2>5. PICK due : due = Due(l)'
      OBVIOUS
  <2>6. PICK says : says = Says(l)'
      OBVIOUS
  <2>7. due = Due(l) - Pending(i, l) + Owes(r, l)
      BY <2>2, <2>5
  <2>8. balance'[l] = says - lost'[l] - due
      BY <2>1, <2>2, <2>3, <2>4, <2>6, <2>7
  <2> QED
      BY <2>5, <2>6, <2>8 DEF Explains
<1> QED
    BY <1>1 DEF Explained

(* The journal and the losses stay, and what is moved was due.             *)
LEMMA Settles ==
    ASSUME Typed, Explained, NEW i \in Handlers, NEW r, CarriedOn(r), h' = [h EXCEPT ![i] = r],
           UNCHANGED <<lost, rebuilt>>,
           \A l \in Ledgers : /\ Says(l)' = Says(l)
                              /\ balance'[l] = balance[l] - (Owes(r, l) - Pending(i, l))
    PROVE  Explained'
<1>1. ASSUME NEW l \in Ledgers
      PROVE  /\ Says(l)' \in Int /\ lost'[l] \in Int
             /\ balance'[l] = balance[l] + (Says(l)' - Says(l)) - (lost'[l] - lost[l])
                                - (Owes(r, l) - Pending(i, l))
  <2>1. Says(l) \in Int /\ lost[l] \in Int /\ balance[l] \in Int
      BY TotalTyped DEF Says, Typed, TypeOK
  <2>2. PICK left : left = Owes(r, l) - Pending(i, l)
      OBVIOUS
  <2>3. Says(l)' = Says(l) /\ lost'[l] = lost[l] /\ balance'[l] = balance[l] - left
      BY <2>2
  <2>4. Says(l)' - Says(l) = 0 /\ lost'[l] - lost[l] = 0
      BY <2>1, <2>3
  <2>5. balance[l] - left = balance[l] + 0 - 0 - left
    <3>1. Pending(i, l) \in Int /\ Owes(r, l) \in Int
        BY DueMoves
    <3> QED
        BY <2>1, <2>2, <3>1
  <2> QED
      BY <2>1, <2>2, <2>3, <2>4, <2>5
<1> QED
    BY <1>1, Balances

LEMMA SaysStays ==
    ASSUME UNCHANGED journal, NEW l
    PROVE  Says(l)' = Says(l)
    BY DEF Says, Total

LEMMA BeginExplained ==
    ASSUME Typed, Explained, NEW i \in Handlers, NEW r, CarriedOn(r), Begin(i, r),
           r.pc \notin {"debit", "credit"}
    PROVE  Explained'
<1>1. h' = [h EXCEPT ![i] = r] /\ UNCHANGED <<lost, rebuilt, journal, balance>>
    BY DEF Begin
<1>2. h[i].pc = "idle"
    BY DEF Begin
<1>3. ASSUME NEW l \in Ledgers
      PROVE  /\ Says(l)' = Says(l)
             /\ balance'[l] = balance[l] - (Owes(r, l) - Pending(i, l))
  <2>1. Owes(r, l) = 0 /\ Pending(i, l) = 0
      BY <1>2, OwesNothing, OwesIs
  <2>2. balance[l] \in Int
      BY DEF Typed, TypeOK
  <2>3. Says(l)' = Says(l)
      BY <1>1, SaysStays
  <2> QED
      BY <1>1, <2>1, <2>2, <2>3
<1> QED
    BY <1>1, <1>3, Settles

LEMMA PostExplained ==
    ASSUME Typed, Typed', Explained, NEW i \in Handlers, Post(i)
    PROVE  Explained'
<1>1. h[i].pc = "post" /\ Len(journal) + 1 \in Nat
    BY Appended
<1>2. PICK r : r = [h[i] EXCEPT !.pc = "debit", !.e = Len(journal) + 1]
    OBVIOUS
<1>3. CarriedOn(r) /\ r.pc = "debit" /\ r.dr = h[i].dr /\ r.cr = h[i].cr
      /\ r.amount = h[i].amount
  <2>1. h[i] \in Local /\ Fit(h[i])
      BY Carrying DEF CarriedOn
  <2> QED
      BY <1>1, <1>2, <2>1 DEF CarriedOn, Local, Steps, Fit
<1>4. h' = [h EXCEPT ![i] = r]
    BY <1>2 DEF Post
<1>5. UNCHANGED <<balance, lost, rebuilt>>
    BY DEF Post, history
<1>6. ASSUME NEW l \in Ledgers
      PROVE  /\ Says(l)' \in Int /\ lost'[l] \in Int
             /\ balance'[l] = balance[l] + (Says(l)' - Says(l)) - (lost'[l] - lost[l])
                                - (Owes(r, l) - Pending(i, l))
  <2>1. PICK effect : effect = Effect(l, h[i])
      OBVIOUS
  <2>2. Owes(r, l) = effect
    <3>1. Owes(r, l) = Effect(l, r)
        BY <1>3 DEF Owes
    <3>2. Effect(l, r) = Effect(l, h[i])
        BY <1>3, EffectOf
    <3> QED
        BY <2>1, <3>1, <3>2
  <2>3. Pending(i, l) = 0
      BY <1>1, OwesNothing, OwesIs
  <2>4. Says(l)' = Says(l) + effect
      BY <2>1, SaysMore
  <2>5. Says(l) \in Int /\ lost[l] \in Int /\ balance[l] \in Int
      BY TotalTyped DEF Says, Typed, TypeOK
  <2>6. effect \in Int
      BY <2>1, Carrying, EffectTyped
  <2>7. lost'[l] = lost[l] /\ balance'[l] = balance[l]
      BY <1>5
  <2> QED
      BY <2>2, <2>3, <2>4, <2>5, <2>6, <2>7
<1> QED
    BY <1>3, <1>4, <1>5, <1>6, Balances

(* What is left of the lines of an entry, line by line.                    *)
LEMMA DebitOwed ==
    ASSUME NEW i, h[i].pc = "debit", NEW r, r = [h[i] EXCEPT !.pc = "credit"],
           h[i] \in Local, h[i].amount \in Nat, NEW l
    PROVE  Owes(r, l) - Pending(i, l)
             = IF h[i].dr = l THEN -(Sign(h[i].dr) * h[i].amount) ELSE 0
<1>1. r.pc = "credit" /\ r.cr = h[i].cr /\ r.amount = h[i].amount
    BY DEF Local
<1>2. Owes(r, l) = IF h[i].cr = l THEN -Sign(l) * h[i].amount ELSE 0
    BY <1>1 DEF Owes
<1>3. Pending(i, l) = (IF h[i].dr = l THEN Sign(l) * h[i].amount ELSE 0)
                      - (IF h[i].cr = l THEN Sign(l) * h[i].amount ELSE 0)
    BY DEF Pending, Effect
<1>4. PICK a : a = Sign(l) * h[i].amount
    OBVIOUS
<1>5. a \in Int /\ -Sign(l) * h[i].amount = -a
    BY <1>4, Signed
<1>6. Owes(r, l) = IF h[i].cr = l THEN -a ELSE 0
    BY <1>2, <1>5
<1>7. Pending(i, l) = (IF h[i].dr = l THEN a ELSE 0) - (IF h[i].cr = l THEN a ELSE 0)
    BY <1>3, <1>4
<1>8. Owes(r, l) - Pending(i, l) = IF h[i].dr = l THEN -a ELSE 0
    BY <1>5, <1>6, <1>7
<1>9. h[i].dr = l => Sign(h[i].dr) * h[i].amount = a
    BY <1>4
<1> QED
    BY <1>8, <1>9

LEMMA DebitExplained ==
    ASSUME Typed, Explained, NEW i \in Handlers, MoveDebit(i)
    PROVE  Explained'
<1>1. h[i].pc = "debit" /\ Goto(i, "credit") /\ UNCHANGED <<journal, lost, rebuilt>>
    BY DEF MoveDebit, At, history
<1>2. PICK r \in Local : h' = [h EXCEPT ![i] = r] /\ r = [h[i] EXCEPT !.pc = "credit"]
    BY <1>1, GoneTo DEF Steps
<1>3. h[i] \in Local /\ Fit(h[i]) /\ h[i].amount \in Nat /\ h[i].dr \in Ledgers
    BY Carrying DEF CarriedOn
<1>4. CarriedOn(r)
    BY <1>1, <1>2, <1>3 DEF CarriedOn, Fit, Local
<1>5. PICK by \in Int : /\ by = Sign(h[i].dr) * h[i].amount
                        /\ balance' = [balance EXCEPT ![h[i].dr] = @ + by]
    BY DebitMoves
<1>6. ASSUME NEW l \in Ledgers
      PROVE  /\ Says(l)' = Says(l)
             /\ balance'[l] = balance[l] - (Owes(r, l) - Pending(i, l))
  <2>1. Owes(r, l) - Pending(i, l) = IF h[i].dr = l THEN -by ELSE 0
      BY <1>1, <1>2, <1>3, <1>5, DebitOwed
  <2>2. balance'[l] = IF h[i].dr = l THEN balance[l] + by ELSE balance[l]
      BY <1>3, <1>5, Moved
  <2>3. balance[l] \in Int
      BY DEF Typed, TypeOK
  <2>4. Says(l)' = Says(l)
      BY <1>1, SaysStays
  <2> QED
      BY <2>1, <2>2, <2>3, <2>4
<1> QED
    BY <1>1, <1>2, <1>4, <1>6, Settles

LEMMA CreditExplained ==
    ASSUME Typed, Explained, NEW i \in Handlers, MoveCredit(i)
    PROVE  Explained'
<1>1. h[i].pc = "credit" /\ UNCHANGED <<journal, lost, rebuilt>>
    BY DEF MoveCredit, At, history
<1>2. h[i] \in Local /\ Fit(h[i]) /\ h[i].cr \in Ledgers
    BY Carrying DEF CarriedOn
<1>3. PICK r : CarriedOn(r) /\ r.pc \notin {"debit", "credit"} /\ h' = [h EXCEPT ![i] = r]
  <2>1. CASE h[i].after = "idle"
    <3>1. h' = [h EXCEPT ![i] = Idle]
        BY <2>1 DEF MoveCredit, Finish
    <3>2. Idle.pc = "idle"
        BY DEF Idle
    <3> QED
        BY <3>1, <3>2, IdleCarried
  <2>2. CASE h[i].after # "idle"
    <3>1. PICK step \in {"link", "row", "settle"} : step = h[i].after
        BY <1>2, <2>2 DEF Fit
    <3>2. Goto(i, step) /\ step \in Steps
        BY <2>2, <3>1 DEF MoveCredit, Steps
    <3>3. PICK r \in Local : h' = [h EXCEPT ![i] = r] /\ r = [h[i] EXCEPT !.pc = step]
        BY <3>2, GoneTo
    <3>4. CarriedOn(r) /\ r.pc = step
        BY <1>1, <1>2, <3>1, <3>3 DEF CarriedOn, Fit, Local
    <3> QED
        BY <3>1, <3>3, <3>4
  <2> QED
      BY <2>1, <2>2
<1>4. PICK by \in Int : /\ by = -Sign(h[i].cr) * h[i].amount
                        /\ balance' = [balance EXCEPT ![h[i].cr] = @ + by]
    BY CreditMoves
<1>5. ASSUME NEW l \in Ledgers
      PROVE  /\ Says(l)' = Says(l)
             /\ balance'[l] = balance[l] - (Owes(r, l) - Pending(i, l))
  <2>1. Owes(r, l) = 0
      BY <1>3, OwesNothing
  <2>2. Pending(i, l) = IF h[i].cr = l THEN by ELSE 0
      BY <1>1, <1>4 DEF Pending
  <2>3. balance'[l] = IF h[i].cr = l THEN balance[l] + by ELSE balance[l]
      BY <1>2, <1>4, Moved
  <2>4. balance[l] \in Int
      BY DEF Typed, TypeOK
  <2>5. Says(l)' = Says(l)
      BY <1>1, SaysStays
  <2> QED
      BY <2>1, <2>2, <2>3, <2>4, <2>5
<1> QED
    BY <1>1, <1>3, <1>5, Settles

(* The steps that post and move nothing.                                   *)
LEMMA QuietExplained ==
    ASSUME Typed, Explained, NEW i \in Handlers, NEW r, CarriedOn(r), h' = [h EXCEPT ![i] = r],
           h[i].pc \notin {"debit", "credit"}, r.pc \notin {"debit", "credit"},
           \A l \in Ledgers : Says(l)' = Says(l), UNCHANGED <<balance, lost, rebuilt>>
    PROVE  Explained'
<1>1. ASSUME NEW l \in Ledgers
      PROVE  /\ Says(l)' = Says(l)
             /\ balance'[l] = balance[l] - (Owes(r, l) - Pending(i, l))
  <2>1. Owes(r, l) = 0 /\ Pending(i, l) = 0
      BY OwesNothing, OwesIs
  <2>2. balance[l] \in Int
      BY DEF Typed, TypeOK
  <2>3. Says(l)' = Says(l)
      OBVIOUS
  <2>4. balance'[l] = balance[l]
      OBVIOUS
  <2> QED
      BY <2>1, <2>2, <2>3, <2>4
<1> QED
    BY <1>1, Settles

LEMMA AdvanceExplained ==
    ASSUME Typed, Typed', Explained, NEW i \in Handlers, Advance(i)
    PROVE  Explained'
<1>0. h[i] \in Local /\ Fit(h[i])
    BY Carrying DEF CarriedOn
<1>1. CASE Post(i)
    BY <1>1, PostExplained
<1>2. CASE MoveDebit(i)
    BY <1>2, DebitExplained
<1>3. CASE MoveCredit(i)
    BY <1>3, CreditExplained
<1>4. CASE Link(i)
  <2>1. /\ h[i].pc = "link" /\ Goto(i, "linkBack") /\ UNCHANGED <<balance, lost, rebuilt>>
        /\ "linkBack" \in Steps
      BY <1>4 DEF Link, At, history, Steps
  <2>2. PICK r \in Local : h' = [h EXCEPT ![i] = r] /\ r = [h[i] EXCEPT !.pc = "linkBack"]
      BY <2>1, GoneTo
  <2>3. CarriedOn(r) /\ r.pc = "linkBack"
      BY <1>0, <2>2 DEF CarriedOn, Fit, Local
  <2>4. \A l \in Ledgers : Says(l)' = Says(l)
      BY <1>4, SaysSame
  <2> QED
      BY <2>1, <2>2, <2>3, <2>4, QuietExplained
<1>5. ASSUME LinkBack(i) \/ CreateRow(i) \/ Settle(i) \/ EditWrite(i) \/ RebuildEnd(i)
      PROVE  Explained'
  <2>1. /\ h' = [h EXCEPT ![i] = Idle] /\ UNCHANGED <<balance, lost, rebuilt>>
        /\ h[i].pc \notin {"debit", "credit"}
      BY <1>5 DEF LinkBack, CreateRow, Settle, EditWrite, RebuildEnd, At, Finish, history
  <2>2. \A l \in Ledgers : Says(l)' = Says(l)
    <3>1. CASE LinkBack(i)
        BY <3>1, SaysSame
    <3>2. CASE CreateRow(i) \/ Settle(i) \/ EditWrite(i) \/ RebuildEnd(i)
      <4>1. UNCHANGED journal
          BY <3>2 DEF CreateRow, Settle, EditWrite, RebuildEnd
      <4> QED
          BY <4>1, SaysStays
    <3> QED
        BY <1>5, <3>1, <3>2
  <2>3. Idle.pc = "idle"
      BY DEF Idle
  <2> QED
      BY <2>1, <2>2, <2>3, IdleCarried, QuietExplained
<1>6. CASE RebuildEntries(i)
  <2>1. PICK closing \in [Ledgers -> Int], todo \in SUBSET Ledgers :
          h' = [h EXCEPT ![i].pc = "write", ![i].target = closing, ![i].todo = todo]
      BY <1>6, ClosingTyped DEF RebuildEntries
  <2>2. PICK r : r = [h[i] EXCEPT !.pc = "write", !.target = closing, !.todo = todo]
      OBVIOUS
  <2>3. CarriedOn(r) /\ r.pc = "write"
      BY <1>0, <2>2 DEF CarriedOn, Local, Steps, Fit
  <2>4. h' = [h EXCEPT ![i] = r]
      BY <2>1, <2>2
  <2>5. h[i].pc = "entries" /\ UNCHANGED <<journal, balance, lost, rebuilt>>
      BY <1>6 DEF RebuildEntries, At, history
  <2>6. \A l \in Ledgers : Says(l)' = Says(l)
      BY <2>5, SaysStays
  <2> QED
      BY <2>3, <2>4, <2>5, <2>6, QuietExplained
<1>7. ASSUME NEW l \in Ledgers, RebuildWrite(i, l) PROVE Explained'
  <2>1. rebuilt' = TRUE
      BY <1>7 DEF RebuildWrite
  <2> QED
      BY <2>1 DEF Explained
<1> QED
    BY <1>1, <1>2, <1>3, <1>4, <1>5, <1>6, <1>7 DEF Advance

LEMMA AbortExplained ==
    ASSUME Typed, Explained, NEW i \in Handlers, Abort(i)
    PROVE  Explained'
<1>1. /\ h' = [h EXCEPT ![i] = Idle] /\ UNCHANGED <<journal, balance, rebuilt>>
      /\ lost' = [l \in Ledgers |-> lost[l] + Pending(i, l)]
    BY DEF Abort, Finish
<1>2. ASSUME NEW l \in Ledgers
      PROVE  /\ Says(l)' \in Int /\ lost'[l] \in Int
             /\ balance'[l] = balance[l] + (Says(l)' - Says(l)) - (lost'[l] - lost[l])
                                - (Owes(Idle, l) - Pending(i, l))
  <2>1. Owes(Idle, l) = 0
    <3>1. Idle.pc = "idle"
        BY DEF Idle
    <3> QED
        BY <3>1, OwesNothing
  <2>2. Pending(i, l) \in Int /\ Says(l) \in Int /\ lost[l] \in Int /\ balance[l] \in Int
      BY PendingTyped, TotalTyped DEF Says, Typed, TypeOK
  <2>3. Says(l)' = Says(l)
      BY <1>1, SaysStays
  <2>4. lost'[l] = lost[l] + Pending(i, l) /\ balance'[l] = balance[l]
      BY <1>1
  <2> QED
      BY <2>1, <2>2, <2>3, <2>4
<1> QED
    BY <1>1, <1>2, IdleCarried, Balances

LEMMA RequestExplained ==
    ASSUME Typed, Explained, NEW i \in Handlers, Request(i)
    PROVE  Explained'
    BY Requested, BeginExplained DEF Begun

LEMMA ExplainedInit == Init => Explained
<1> SUFFICES ASSUME Init PROVE Explained
    OBVIOUS
<1>1. Typed
    BY TypedInit
<1>2. ASSUME NEW l \in Ledgers PROVE Explains(l)
  <2>1. Says(l) = 0
    <3>1. DOMAIN journal = {}
        BY DEF Init
    <3>2. IsFiniteSet({})
        BY FS_EmptySet
    <3>3. PICK f : f = [e \in {} |-> Effect(l, journal[e])]
        OBVIOUS
    <3>4. SumFunctionOnSet(f, {}) = 0
        BY <3>2, SumRecurs
    <3> QED
        BY <3>1, <3>3, <3>4 DEF Says, Total
  <2>2. Due(l) = 0
    <3>1. PICK f : f = [i \in Handlers |-> Pending(i, l)]
        OBVIOUS
    <3>2. \A i \in Handlers : f[i] = 0
      <4>1. \A i \in Handlers : h[i].pc = "idle"
          BY DEF Init, Idle
      <4>2. \A i \in Handlers : Pending(i, l) = 0
          BY <4>1, OwesNothing, OwesIs
      <4> QED
          BY <3>1, <4>2
    <3>3. SumFunctionOnSet(f, Handlers) = 0
        BY <3>2, SumNothing, BooksAssumption
    <3> QED
        BY <3>1, <3>3 DEF Due
  <2>3. balance[l] = 0 /\ lost[l] = 0
      BY DEF Init, Zero
  <2> QED
      BY <2>1, <2>2, <2>3 DEF Explains
<1> QED
    BY <1>2 DEF Explained

LEMMA ExplainedNext == Typed /\ Typed' /\ Explained /\ [Next]_vars => Explained'
<1> SUFFICES ASSUME Typed, Typed', Explained, [Next]_vars PROVE Explained'
    OBVIOUS
<1>1. CASE UNCHANGED vars
  <2>1. \A l \in Ledgers : Says(l)' = Says(l) /\ Due(l)' = Due(l)
      BY <1>1 DEF vars, Says, Total, Due, Pending
  <2> QED
      BY <1>1, <2>1 DEF vars, Explained, Explains
<1>2. CASE Next
    BY <1>2, RequestExplained, AdvanceExplained, AbortExplained DEF Next
<1> QED
    BY <1>1, <1>2

(* Until a repair writes, a balance is what the journal says of it, less   *)
(* the lines still to be moved by requests in flight and those that died:  *)
(* every line is an increment, so nothing is lost between any number of    *)
(* postings and reversals (accountingService.ts 147-156).                  *)
THEOREM LedgerExplainedCorrect == Spec => []LedgerExplained
<1>1. Typed /\ Explained /\ [Next]_vars => (Typed /\ Explained)'
    BY TypedNext, ExplainedNext
<1>2. Init => Typed /\ Explained
    BY TypedInit, ExplainedInit
<1>3. Typed /\ Explained => LedgerExplained
    BY ExplainedIs
<1> QED
    BY <1>1, <1>2, <1>3, PTL DEF Spec

-----------------------------------------------------------------------------
(* The repair beside which nothing else is in flight: it has read the      *)
(* balances as they are, means to write what the trial balance says, and   *)
(* what it has not to write says so already.                               *)
Repairs(i) ==
    /\ h[i].pc = "entries" => h[i].was = balance
    /\ h[i].pc = "write" => /\ h[i].target = Closing
                            /\ \A l \in Ledgers \ h[i].todo : balance[l] = Closing[l]

Undisturbed ==
    \A i \in alone : /\ \A j \in Handlers \ {i} : h[j].pc = "idle"
                     /\ Repairs(i)

(* A step of a request in flight: of the one that is alone, or there is    *)
(* none.                                                                   *)
LEMMA AloneStep ==
    ASSUME Typed, Undisturbed, NEW i \in Handlers, h[i].pc # "idle",
           NEW r, CarriedOn(r), h' = [h EXCEPT ![i] = r], UNCHANGED alone,
           i \in alone => Repairs(i)'
    PROVE  Undisturbed'
<1>1. h \in [Handlers -> Local] /\ alone \subseteq Handlers
    BY DEF Typed, TypeOK
<1>2. \A j \in Handlers \ {i} : h'[j] = h[j]
    BY <1>1
<1>3. ASSUME NEW k \in alone
      PROVE  (\A j \in Handlers \ {k} : h'[j].pc = "idle") /\ Repairs(k)'
  <2>1. k = i
      BY <1>3 DEF Undisturbed
  <2>2. \A j \in Handlers \ {k} : h'[j].pc = "idle"
      BY <1>2, <1>3, <2>1 DEF Undisturbed
  <2> QED
      BY <2>1, <2>2
<1> QED
    BY <1>3 DEF Undisturbed

(* One that repairs nothing when it is done.                               *)
LEMMA OtherStep ==
    ASSUME Typed, Undisturbed, NEW i \in Handlers, h[i].pc # "idle",
           NEW r, CarriedOn(r), h' = [h EXCEPT ![i] = r], UNCHANGED alone,
           r.pc \notin {"entries", "write"}
    PROVE  Undisturbed'
<1>1. h'[i] = r
    BY DEF Typed, TypeOK
<1>2. Repairs(i)'
    BY <1>1 DEF Repairs
<1> QED
    BY <1>2, AloneStep

LEMMA BeginUndisturbed ==
    ASSUME Typed, Undisturbed, NEW i \in Handlers, NEW r, Begun(i, r)
    PROVE  Undisturbed'
<1>1. /\ h' = [h EXCEPT ![i] = r] /\ UNCHANGED balance
      /\ alone' = IF \E j \in Handlers \ {i} : h[j].pc # "idle" THEN {} ELSE {i}
    BY DEF Begun, Begin
<1>2. h \in [Handlers -> Local]
    BY DEF Typed, TypeOK
<1>3. h'[i] = r /\ \A j \in Handlers \ {i} : h'[j] = h[j]
    BY <1>1, <1>2
<1>4. Repairs(i)'
    BY <1>1, <1>3 DEF Begun, Repairs
<1>5. ASSUME NEW k \in alone'
      PROVE  (\A j \in Handlers \ {k} : h'[j].pc = "idle") /\ Repairs(k)'
  <2>1. k = i /\ \A j \in Handlers \ {i} : h[j].pc = "idle"
      BY <1>1, <1>5
  <2> QED
      BY <1>3, <1>4, <2>1
<1> QED
    BY <1>5 DEF Undisturbed

LEMMA ClosingStays ==
    ASSUME UNCHANGED journal
    PROVE  Closing' = Closing
    BY DEF Closing, Total, Unreversed

LEMMA EntriesUndisturbed ==
    ASSUME Typed, Undisturbed, NEW i \in Handlers, RebuildEntries(i)
    PROVE  Undisturbed'
<1>1. h[i].pc = "entries" /\ UNCHANGED <<journal, balance, alone>>
    BY DEF RebuildEntries, At, history
<1>2. PICK todo : todo = {l \in Ledgers : Differs(Closing[l], h[i].was[l])}
    OBVIOUS
<1>3. PICK closing \in [Ledgers -> Int] : closing = Closing
    BY ClosingTyped
<1>4. PICK r : r = [h[i] EXCEPT !.pc = "write", !.target = closing, !.todo = todo]
    OBVIOUS
<1>5. CarriedOn(r) /\ r.pc = "write" /\ r.target = closing /\ r.todo = todo
  <2>1. h[i] \in Local /\ Fit(h[i]) /\ todo \in SUBSET Ledgers
      BY <1>2, Carrying DEF CarriedOn
  <2> QED
      BY <1>3, <1>4, <2>1 DEF CarriedOn, Local, Steps, Fit
<1>6. h' = [h EXCEPT ![i] = r]
    BY <1>2, <1>3, <1>4 DEF RebuildEntries
<1>7. h'[i] = r
    BY <1>6 DEF Typed, TypeOK
<1>8. ASSUME i \in alone PROVE Repairs(i)'
  <2>1. h[i].was = balance
      BY <1>1, <1>8 DEF Undisturbed, Repairs
  <2>2. Closing' = Closing
      BY <1>1, ClosingStays
  <2>3. \A l \in Ledgers \ todo : balance[l] = Closing[l]
      BY <1>2, <2>1 DEF Differs
  <2>4. h'[i].pc = "write" /\ h'[i].target = Closing' /\ h'[i].todo = todo
      BY <1>3, <1>5, <1>7, <2>2
  <2>5. \A l \in Ledgers \ todo : balance'[l] = Closing'[l]
      BY <1>1, <2>2, <2>3
  <2> QED
      BY <2>4, <2>5 DEF Repairs
<1> QED
    BY <1>1, <1>5, <1>6, <1>8, AloneStep

LEMMA WriteUndisturbed ==
    ASSUME Typed, Undisturbed, NEW i \in Handlers, NEW l \in Ledgers, RebuildWrite(i, l)
    PROVE  Undisturbed'
<1>1. /\ h[i].pc = "write" /\ UNCHANGED <<journal, alone>>
      /\ balance' = [balance EXCEPT ![l] = h[i].target[l]]
    BY DEF RebuildWrite, At
<1>2. PICK r : r = [h[i] EXCEPT !.todo = h[i].todo \ {l}]
    OBVIOUS
<1>3. h[i] \in Local /\ Fit(h[i]) /\ balance \in [Ledgers -> Int]
    BY Carrying DEF CarriedOn, Typed, TypeOK
<1>4. CarriedOn(r) /\ r.pc = "write" /\ r.target = h[i].target /\ r.todo = h[i].todo \ {l}
    BY <1>1, <1>2, <1>3 DEF CarriedOn, Local, Fit
<1>5. h' = [h EXCEPT ![i] = r]
    BY <1>2 DEF RebuildWrite
<1>6. h'[i] = r
    BY <1>5 DEF Typed, TypeOK
<1>7. ASSUME i \in alone PROVE Repairs(i)'
  <2>1. h[i].target = Closing /\ \A k \in Ledgers \ h[i].todo : balance[k] = Closing[k]
      BY <1>1, <1>7 DEF Undisturbed, Repairs
  <2>2. Closing' = Closing
      BY <1>1, ClosingStays
  <2>3. h'[i].pc = "write" /\ h'[i].target = Closing' /\ h'[i].todo = h[i].todo \ {l}
      BY <1>4, <1>6, <2>1, <2>2
  <2>4. ASSUME NEW k \in Ledgers \ (h[i].todo \ {l}) PROVE balance'[k] = Closing'[k]
    <3>1. CASE k = l
        BY <1>1, <1>3, <2>1, <2>2, <3>1
    <3>2. CASE k # l
        BY <1>1, <1>3, <2>1, <2>2, <3>2
    <3> QED
        BY <3>1, <3>2
  <2> QED
      BY <2>3, <2>4 DEF Repairs
<1> QED
    BY <1>1, <1>4, <1>5, <1>7, AloneStep

LEMMA AdvanceUndisturbed ==
    ASSUME Typed, Undisturbed, NEW i \in Handlers, Advance(i)
    PROVE  Undisturbed'
<1>1. PICK r : /\ Went(i, r)
               /\ \/ r.pc \notin {"entries", "write"}
                  \/ RebuildEntries(i)
                  \/ \E l \in Ledgers : RebuildWrite(i, l)
    BY Advanced
<1>2. CASE r.pc \notin {"entries", "write"}
    BY <1>1, <1>2, OtherStep DEF Went
<1>3. CASE RebuildEntries(i)
    BY <1>3, EntriesUndisturbed
<1>4. ASSUME NEW l \in Ledgers, RebuildWrite(i, l) PROVE Undisturbed'
    BY <1>4, WriteUndisturbed
<1> QED
    BY <1>1, <1>2, <1>3, <1>4

LEMMA UndisturbedNext == Typed /\ Undisturbed /\ [Next]_vars => Undisturbed'
<1> SUFFICES ASSUME Typed, Undisturbed, [Next]_vars PROVE Undisturbed'
    OBVIOUS
<1>1. CASE UNCHANGED vars
  <2>1. Closing' = Closing
      BY <1>1, ClosingStays DEF vars
  <2> QED
      BY <1>1, <2>1 DEF vars, Undisturbed, Repairs
<1>2. ASSUME NEW i \in Handlers, Request(i) PROVE Undisturbed'
    BY <1>2, Requested, BeginUndisturbed
<1>3. ASSUME NEW i \in Handlers, Abort(i) PROVE Undisturbed'
  <2>1. /\ h[i].pc # "idle" /\ h' = [h EXCEPT ![i] = Idle] /\ UNCHANGED alone
        /\ Idle.pc = "idle"
      BY <1>3 DEF Abort, Finish, Idle
  <2> QED
      BY <2>1, IdleCarried, OtherStep
<1> QED
    BY <1>1, <1>2, <1>3, AdvanceUndisturbed DEF Next

-----------------------------------------------------------------------------
(* The trial balance foots, since every entry does.                        *)
(* The two sides of an entry, wherever they stand.                         *)
LEMMA SidesBalance ==
    ASSUME NEW dr \in {"cash", "receivable", "creditors", "income", "expense"},
           NEW cr \in {"cash", "receivable", "creditors", "income", "expense"},
           NEW a \in Nat
    PROVE  ((IF dr = "cash" THEN a ELSE 0) - (IF cr = "cash" THEN a ELSE 0))
             + ((IF dr = "receivable" THEN a ELSE 0) - (IF cr = "receivable" THEN a ELSE 0))
             = ((IF dr = "creditors" THEN -a ELSE 0) - (IF cr = "creditors" THEN -a ELSE 0))
                 + ((IF dr = "income" THEN -a ELSE 0) - (IF cr = "income" THEN -a ELSE 0))
                 - ((IF dr = "expense" THEN a ELSE 0) - (IF cr = "expense" THEN a ELSE 0))
<1>1. CASE dr = "cash"
    BY <1>1
<1>2. CASE dr = "receivable"
    BY <1>2
<1>3. CASE dr = "creditors"
    BY <1>3
<1>4. CASE dr = "income"
    BY <1>4
<1>5. CASE dr = "expense"
    BY <1>5
<1> QED
    BY <1>1, <1>2, <1>3, <1>4, <1>5

LEMMA EntryFoots ==
    ASSUME NEW entry \in Entry
    PROVE  /\ \A l \in Ledgers : Effect(l, entry) \in Int
           /\ Effect("cash", entry) + Effect("receivable", entry)
                = Effect("creditors", entry) + Effect("income", entry)
                    - Effect("expense", entry)
<1>1. entry.dr \in Ledgers /\ entry.cr \in Ledgers /\ entry.amount \in Nat
    BY BooksAssumption DEF Entry
<1>2. PICK a \in Nat : a = entry.amount
    BY <1>1
<1>3. PICK dr \in {"cash", "receivable", "creditors", "income", "expense"} : dr = entry.dr
    BY <1>1 DEF Ledgers, Assets
<1>4. PICK cr \in {"cash", "receivable", "creditors", "income", "expense"} : cr = entry.cr
    BY <1>1 DEF Ledgers, Assets
<1>5. /\ Sign("cash") * a = a /\ Sign("receivable") * a = a /\ Sign("expense") * a = a
      /\ Sign("creditors") * a = -a /\ Sign("income") * a = -a
    BY <1>2, Signed DEF GrowsOnDebit, Assets
<1>6. /\ Effect("cash", entry) = (IF dr = "cash" THEN a ELSE 0) - (IF cr = "cash" THEN a ELSE 0)
      /\ Effect("receivable", entry)
           = (IF dr = "receivable" THEN a ELSE 0) - (IF cr = "receivable" THEN a ELSE 0)
      /\ Effect("expense", entry)
           = (IF dr = "expense" THEN a ELSE 0) - (IF cr = "expense" THEN a ELSE 0)
    BY <1>2, <1>3, <1>4, <1>5 DEF Effect
<1>7. /\ Effect("creditors", entry)
           = (IF dr = "creditors" THEN -a ELSE 0) - (IF cr = "creditors" THEN -a ELSE 0)
      /\ Effect("income", entry)
           = (IF dr = "income" THEN -a ELSE 0) - (IF cr = "income" THEN -a ELSE 0)
    BY <1>2, <1>3, <1>4, <1>5 DEF Effect
<1>8. \A l \in Ledgers : Effect(l, entry) \in Int
    BY <1>1, EffectTyped
<1>9. Effect("cash", entry) + Effect("receivable", entry)
        = Effect("creditors", entry) + Effect("income", entry) - Effect("expense", entry)
  <2>1. ((IF dr = "cash" THEN a ELSE 0) - (IF cr = "cash" THEN a ELSE 0))
          + ((IF dr = "receivable" THEN a ELSE 0) - (IF cr = "receivable" THEN a ELSE 0))
          = ((IF dr = "creditors" THEN -a ELSE 0) - (IF cr = "creditors" THEN -a ELSE 0))
              + ((IF dr = "income" THEN -a ELSE 0) - (IF cr = "income" THEN -a ELSE 0))
              - ((IF dr = "expense" THEN a ELSE 0) - (IF cr = "expense" THEN a ELSE 0))
      BY SidesBalance
  <2> QED
      BY <1>6, <1>7, <2>1
<1> QED
    BY <1>8, <1>9

LEMMA ClosingFoots == Typed => Foots(Closing)
<1> SUFFICES ASSUME Typed PROVE Foots(Closing)
    OBVIOUS
<1>1. PICK S : S = Unreversed
    OBVIOUS
<1>2. IsFiniteSet(S) /\ S \in SUBSET DOMAIN journal
    BY <1>1, TotalTyped DEF Unreversed
<1>3. PICK a : a = [e \in S |-> Effect("cash", journal[e])]
    OBVIOUS
<1>4. PICK b : b = [e \in S |-> Effect("receivable", journal[e])]
    OBVIOUS
<1>5. PICK c : c = [e \in S |-> Effect("creditors", journal[e])]
    OBVIOUS
<1>6. PICK d : d = [e \in S |-> Effect("income", journal[e])]
    OBVIOUS
<1>7. PICK x : x = [e \in S |-> Effect("expense", journal[e])]
    OBVIOUS
<1>8. ASSUME NEW s \in S
      PROVE  /\ a[s] \in Int /\ b[s] \in Int /\ c[s] \in Int /\ d[s] \in Int /\ x[s] \in Int
             /\ a[s] + b[s] = c[s] + d[s] - x[s]
  <2>1. PICK entry \in Entry : entry = journal[s]
      BY <1>2, Posted
  <2>2. /\ a[s] = Effect("cash", entry) /\ b[s] = Effect("receivable", entry)
        /\ c[s] = Effect("creditors", entry) /\ d[s] = Effect("income", entry)
        /\ x[s] = Effect("expense", entry)
      BY <1>3, <1>4, <1>5, <1>6, <1>7, <2>1
  <2>3. {"cash", "receivable", "creditors", "income", "expense"} \subseteq Ledgers
      BY DEF Ledgers, Assets
  <2>4. /\ Effect("cash", entry) \in Int /\ Effect("receivable", entry) \in Int
        /\ Effect("creditors", entry) \in Int /\ Effect("income", entry) \in Int
        /\ Effect("expense", entry) \in Int
      BY <2>3, EntryFoots
  <2>5. Effect("cash", entry) + Effect("receivable", entry)
          = Effect("creditors", entry) + Effect("income", entry) - Effect("expense", entry)
      BY EntryFoots
  <2> QED
      BY <2>2, <2>4, <2>5
<1>9. SumFunctionOnSet(a, S) + SumFunctionOnSet(b, S)
        = SumFunctionOnSet(c, S) + SumFunctionOnSet(d, S) - SumFunctionOnSet(x, S)
    BY ONLY <1>2, <1>8, SumBalances
<1>10. /\ Closing["cash"] = SumFunctionOnSet(a, S)
       /\ Closing["receivable"] = SumFunctionOnSet(b, S)
       /\ Closing["creditors"] = SumFunctionOnSet(c, S)
       /\ Closing["income"] = SumFunctionOnSet(d, S)
       /\ Closing["expense"] = SumFunctionOnSet(x, S)
    BY <1>1, <1>3, <1>4, <1>5, <1>6, <1>7 DEF Closing, Total, Ledgers, Assets
<1>11. /\ Closing["creditors"] \in Int /\ Closing["income"] \in Int
       /\ Closing["expense"] \in Int
    BY ClosingTyped DEF Ledgers, Assets
<1> QED
    BY <1>9, <1>10, <1>11 DEF Foots, Surplus

-----------------------------------------------------------------------------
Repaired == \A i \in alone : RebuildEnd(i) => balance = Closing /\ Foots(balance)

LEMMA RepairedStep == Typed /\ Undisturbed => Repaired
<1> SUFFICES ASSUME Typed, Undisturbed, NEW i \in alone, RebuildEnd(i)
             PROVE  balance = Closing /\ Foots(balance)
    BY DEF Repaired
<1>1. h[i].pc = "write" /\ h[i].todo = {}
    BY DEF RebuildEnd, At
<1>2. \A l \in Ledgers : balance[l] = Closing[l]
    BY <1>1 DEF Undisturbed, Repairs
<1>3. balance \in [Ledgers -> Int] /\ Closing \in [Ledgers -> Int]
    BY ClosingTyped DEF Typed, TypeOK
<1>4. balance = Closing
    BY <1>2, <1>3
<1> QED
    BY <1>4, ClosingFoots

(* A repair with nothing else in flight ends with every balance agreeing   *)
(* with the trial balance, and with books that foot, whatever was lost     *)
(* before it (accountingService.ts 531-559, 574-678).                      *)
THEOREM RebuildRepairsCorrect == Spec => RebuildRepairs
<1>1. Init => Undisturbed
    BY DEF Init, Undisturbed
<1>2. Spec => [](Typed /\ Undisturbed)
    BY <1>1, TypedInit, TypedNext, UndisturbedNext, PTL DEF Spec
<1>3. Typed /\ Undisturbed /\ [Next]_vars => [Repaired]_vars
    BY RepairedStep
<1>4. Spec => [][Repaired]_vars
    BY <1>2, <1>3, PTL DEF Spec
<1> QED
    BY <1>4 DEF RebuildRepairs, Repaired

-----------------------------------------------------------------------------
(* Expenses.  A request that records one is the only one that holds its    *)
(* id, and nobody has created the row before it does.                      *)
Records(i) ==
    /\ h[i].x \in Expenses
    /\ expense[h[i].x].status = "NONE"
    /\ \A j \in Handlers \ {i} : h[j].x # h[i].x

Owned ==
    \A i \in Handlers : /\ h[i].pc = "row" => h[i].after = "row"
                        /\ h[i].after = "row" => Records(i)

LEMMA BeginOwned ==
    ASSUME Typed, Owned, NEW i \in Handlers, NEW r, Begun(i, r)
    PROVE  Owned'
<1>1. /\ h' = [h EXCEPT ![i] = r] /\ expense' = expense
      /\ r.pc # "row" /\ Takes(r)
    BY DEF Begun, Begin
<1>2. h'[i] = r /\ \A j \in Handlers \ {i} : h'[j] = h[j]
    BY <1>1 DEF Typed, TypeOK
<1>3. ASSUME NEW k \in Handlers
      PROVE  /\ h'[k].pc = "row" => h'[k].after = "row"
             /\ h'[k].after = "row" => Records(k)'
  <2>1. CASE k = i
    <3>1. r.after = "row" => /\ r.x \in Expenses /\ expense[r.x].status = "NONE"
                             /\ \A j \in Handlers : h[j].x # r.x
        BY <1>1 DEF Takes
    <3> QED
        BY <1>1, <1>2, <2>1, <3>1 DEF Records
  <2>2. CASE k # i
    <3>1. h'[k] = h[k]
        BY <1>2, <2>2
    <3>2. h[k].after = "row" => Records(k) /\ r.x # h[k].x
        BY <1>1, BooksAssumption DEF Owned, Records, Takes
    <3> QED
        BY <1>1, <1>2, <2>2, <3>1, <3>2 DEF Owned, Records
  <2> QED
      BY <2>1, <2>2
<1> QED
    BY <1>3 DEF Owned

(* A step of a request, or its death: no row that somebody else is to      *)
(* record appears.                                                         *)
LEMMA StepOwned ==
    ASSUME Typed, Owned, NEW i \in Handlers, NEW r, h' = [h EXCEPT ![i] = r],
           r = Idle \/ (r.x = h[i].x /\ r.after = h[i].after),
           r.pc = "row" => r.after = "row",
           r # Idle => UNCHANGED expense,
           \A x \in Expenses \ {h[i].x} :
               expense[x].status = "NONE" => expense'[x].status = "NONE"
    PROVE  Owned'
<1>1. h'[i] = r /\ \A j \in Handlers \ {i} : h'[j] = h[j]
    BY DEF Typed, TypeOK
<1>2. Idle.x = "none" /\ Idle.after = "idle" /\ Idle.pc = "idle"
    BY DEF Idle
<1>3. ASSUME NEW k \in Handlers
      PROVE  /\ h'[k].pc = "row" => h'[k].after = "row"
             /\ h'[k].after = "row" => Records(k)'
  <2>1. CASE k = i /\ r = Idle
      BY <1>1, <1>2, <2>1
  <2>2. CASE k = i /\ r # Idle
      BY <1>1, <2>2 DEF Owned, Records
  <2>3. CASE k # i
    <3>1. h'[k] = h[k]
        BY <1>1, <2>3
    <3>2. ASSUME h[k].after = "row" PROVE Records(k)'
      <4>1. Records(k) /\ h[k].x # h[i].x
          BY <2>3, <3>2 DEF Owned, Records
      <4>2. expense'[h[k].x].status = "NONE"
          BY <4>1 DEF Records
      <4>3. r.x # h[k].x
          BY <1>2, <4>1, BooksAssumption DEF Records
      <4> QED
          BY <1>1, <2>3, <3>1, <4>1, <4>2, <4>3 DEF Records
    <3> QED
        BY <3>1, <3>2 DEF Owned
  <2> QED
      BY <2>1, <2>2, <2>3
<1> QED
    BY <1>3 DEF Owned

(* The writes of an expense are the last step of a request: the row that   *)
(* it records, or a row that is there.                                     *)
LEMMA RowsWritten ==
    ASSUME Typed, NEW i \in Handlers, Advance(i)
    PROVE  \/ UNCHANGED expense
           \/ /\ Finish(i)
              /\ \A x \in Expenses \ {h[i].x} : expense'[x] = expense[x]
<1>1. expense \in [Expenses -> Expense]
    BY DEF Typed, TypeOK
<1>2. CASE CreateRow(i)
  <2>1. PICK row : expense' = [expense EXCEPT ![h[i].x] = row]
      BY <1>2 DEF CreateRow
  <2> QED
      BY <1>1, <1>2, <2>1 DEF CreateRow
<1>3. CASE Settle(i)
  <2>1. PICK x : x = h[i].x
      OBVIOUS
  <2>2. expense' = IF Settleable(x)
                     THEN [expense EXCEPT ![x].status = "PAID", ![x].entry = h[i].e]
                     ELSE expense
      BY <1>3, <2>1 DEF Settle
  <2>3. \A y \in Expenses \ {x} : expense'[y] = expense[y]
      BY <1>1, <2>2
  <2> QED
      BY <1>3, <2>1, <2>3 DEF Settle
<1>4. CASE EditWrite(i)
  <2>1. expense' = [expense EXCEPT ![h[i].x].amount = h[i].amount]
      BY <1>4 DEF EditWrite
  <2> QED
      BY <1>1, <1>4, <2>1 DEF EditWrite
<1> QED
    BY <1>2, <1>3, <1>4 DEF Advance, Post, MoveDebit, MoveCredit, Link, LinkBack,
                            RebuildEntries, RebuildWrite, RebuildEnd

LEMMA AdvanceOwned ==
    ASSUME Typed, Owned, NEW i \in Handlers, Advance(i)
    PROVE  Owned'
<1>1. PICK r : Went(i, r)
    BY Advanced
<1>2. h' = [h EXCEPT ![i] = r] /\ h'[i] = r
    BY <1>1 DEF Went, Typed, TypeOK
<1>3. r # Idle => UNCHANGED expense
  <2>1. Finish(i) => h'[i] = Idle
      BY DEF Finish, Typed, TypeOK
  <2> QED
      BY <1>2, <2>1, RowsWritten
<1>4. \A x \in Expenses \ {h[i].x} :
          expense[x].status = "NONE" => expense'[x].status = "NONE"
    BY RowsWritten
<1> QED
    BY <1>1, <1>2, <1>3, <1>4, StepOwned DEF Went

LEMMA OwnedNext == Typed /\ Owned /\ [Next]_vars => Owned'
<1> SUFFICES ASSUME Typed, Owned, [Next]_vars PROVE Owned'
    OBVIOUS
<1>1. CASE UNCHANGED vars
    BY <1>1 DEF vars, Owned, Records
<1>2. ASSUME NEW i \in Handlers, Request(i) PROVE Owned'
    BY <1>2, Requested, BeginOwned
<1>3. ASSUME NEW i \in Handlers, Abort(i) PROVE Owned'
  <2>1. h' = [h EXCEPT ![i] = Idle] /\ UNCHANGED expense
      BY <1>3 DEF Abort, Finish
  <2>2. Idle.pc = "idle"
      BY DEF Idle
  <2> QED
      BY <2>1, <2>2, StepOwned
<1> QED
    BY <1>1, <1>2, <1>3, AdvanceOwned DEF Next

Stays ==
    \A x \in Expenses : expense[x].status = "PAID" =>
          /\ expense'[x].status = "PAID"
          /\ expense'[x].entry = expense[x].entry

LEMMA StaysStep == Typed /\ Owned /\ [Next]_vars => Stays
<1> SUFFICES ASSUME Typed, Owned, [Next]_vars PROVE Stays
    OBVIOUS
<1>0. expense \in [Expenses -> Expense]
    BY DEF Typed, TypeOK
<1>1. ASSUME UNCHANGED expense PROVE Stays
    BY <1>1 DEF Stays
<1>2. ASSUME NEW i \in Handlers, CreateRow(i) PROVE Stays
  <2>1. h[i].x \in Expenses /\ expense[h[i].x].status = "NONE"
      BY <1>2 DEF CreateRow, At, Owned, Records
  <2>2. PICK row : expense' = [expense EXCEPT ![h[i].x] = row]
      BY <1>2 DEF CreateRow
  <2> QED
      BY <1>0, <2>1, <2>2 DEF Stays
<1>3. ASSUME NEW i \in Handlers, Settle(i) PROVE Stays
  <2>1. PICK x : x = h[i].x
      OBVIOUS
  <2>2. expense' = IF Settleable(x)
                     THEN [expense EXCEPT ![x].status = "PAID", ![x].entry = h[i].e]
                     ELSE expense
      BY <1>3, <2>1 DEF Settle
  <2> QED
      BY <1>0, <2>2 DEF Settleable, Stays, Expense
<1>4. ASSUME NEW i \in Handlers, EditWrite(i) PROVE Stays
  <2>1. expense' = [expense EXCEPT ![h[i].x].amount = h[i].amount]
      BY <1>4 DEF EditWrite
  <2> QED
      BY <1>0, <2>1 DEF Stays, Expense
<1>5. CASE UNCHANGED vars
    BY <1>1, <1>5 DEF vars
<1>6. ASSUME NEW i \in Handlers, Request(i) PROVE Stays
  <2>1. UNCHANGED expense
      BY <1>6, Requested DEF Begun, Begin
  <2> QED
      BY <1>1, <2>1
<1>7. ASSUME NEW i \in Handlers, Abort(i) PROVE Stays
    BY <1>1, <1>7 DEF Abort
<1>8. ASSUME NEW i \in Handlers, Advance(i) PROVE Stays
  <2>1. CASE CreateRow(i) \/ Settle(i) \/ EditWrite(i)
      BY <1>2, <1>3, <1>4, <2>1
  <2>2. CASE UNCHANGED expense
      BY <1>1, <2>2
  <2> QED
      BY <1>8, <2>1, <2>2 DEF Advance, Post, MoveDebit, MoveCredit, Link, LinkBack,
                              RebuildEntries, RebuildWrite, RebuildEnd
<1> QED
    BY <1>5, <1>6, <1>7, <1>8 DEF Next

(* A settled expense is never unsettled, nor settled anew by another       *)
(* entry, however many requests pay or edit it (accountingService.ts       *)
(* 426-441, financeRouter.ts 1188-1200).                                   *)
THEOREM PaidStaysCorrect == Spec => PaidStays
<1>1. Init => Owned
    BY DEF Init, Owned, Idle
<1>2. Spec => [](Typed /\ Owned)
    BY <1>1, TypedInit, TypedNext, OwnedNext, PTL DEF Spec
<1>3. Typed /\ Owned /\ [Next]_vars => [Stays]_vars
    BY StaysStep
<1>4. Spec => [][Stays]_vars
    BY <1>2, <1>3, PTL DEF Spec
<1> QED
    BY <1>4 DEF PaidStays, Stays

-----------------------------------------------------------------------------
(* BILLING                                                                 *)

(* A request knows its month, and its unit while it has one; a             *)
(* bill about to be created is one that is chased; a bill that was never   *)
(* raised, or is paid, has nothing due.                                    *)
Waiting == {"accrue", "owe"}
WithUnit == {"arrears", "create", "accrue", "owe", "sent", "dispute"}
Held(r) ==
    /\ r.pc # "idle" => r.p \in Periods
    /\ r.pc \in WithUnit => r.u \in Units
    /\ r.pc = "create" => r.draft.status \in Carried

Cleared ==
    \A u \in Units, p \in Periods :
        bill[u][p].status \in {"NONE", "PAID"} => bill[u][p].due = 0

(* A run has its unit billed, or still has it before it.                   *)
Covered(r, u) ==
    \/ r.option.dry
    \/ Raised(u, r.p)
    \/ Subtotal(u, r.option.heads) = 0
    \/ u \in r.todo /\ r.pc \in {"check", "arrears", "create", "owe"}

Covering(r) ==
    r.scope # {} =>
        /\ r.pc # "idle" /\ r.draft.mode = "BULK"
        /\ r.pc \in Waiting => Raised(r.u, r.p)
        /\ \A u \in r.scope : Covered(r, u)

BillingInv ==
    /\ BillingTypeOK
    /\ Cleared
    /\ \A i \in Callers : Held(req[i]) /\ Covering(req[i])
    /\ OutstandingIsDue

(* What is to be shown of the next state of a request.                     *)
Fits(r) == r \in Serving /\ Held(r) /\ Covering(r)

(* No bill is taken back.                                                  *)
Kept == \A u \in Units, p \in Periods : Raised(u, p) => Raised(u, p)'

(* What is due of one bill.                                                *)
DueOf(u, p) == IF bill[u][p].status \in Chased THEN bill[u][p].due ELSE 0

LEMMA TotalIs == \A u : TotalDue(u) = SumFunctionOnSet([p \in Periods |-> DueOf(u, p)], Periods)
BY DEF TotalDue, DueOf

LEMMA Turned ==
    ASSUME BillingInv, NEW i \in Callers, NEW r, Fits(r)', Kept,
           req' = [req EXCEPT ![i] = r]
    PROVE  /\ req' \in [Callers -> Serving]
           /\ \A j \in Callers : Held(req[j])' /\ Covering(req[j])'
<1>1. \A j \in Callers : req'[j] = IF j = i THEN r ELSE req[j]
    BY DEF BillingInv, BillingTypeOK
<1>2. r \in Serving /\ Held(r)
    BY DEF Fits, Held
<1>3. req' \in [Callers -> Serving]
    BY <1>2 DEF BillingInv, BillingTypeOK
<1>4. ASSUME NEW j \in Callers PROVE Held(req[j])' /\ Covering(req[j])'
  <2>1. CASE j = i
    <3>1. req'[j] = r
        BY <1>1, <2>1
    <3> QED
        BY <3>1 DEF Fits, Held, Covering, Covered
  <2>2. CASE j # i
    <3>1. PICK q : q = req[j]
        OBVIOUS
    <3>2. req'[j] = q
        BY <1>1, <2>2, <3>1
    <3>3. Held(q) /\ Covering(q) /\ q \in Serving
        BY <3>1 DEF BillingInv, BillingTypeOK
    <3>4. Held(req[j])'
        BY <3>2, <3>3 DEF Held
    <3>5. q.scope \subseteq Units /\ (q.scope # {} => q.p \in Periods)
        BY <3>3 DEF Serving, Held, Covering
    <3>6. (q.scope # {} /\ q.pc \in Waiting) => q.u \in Units
        BY <3>3 DEF Held, WithUnit, Waiting
    <3>7. ASSUME q.scope # {} PROVE Covering(q)'
      <4>1. \A u \in q.scope : Covered(q, u)'
          BY <3>3, <3>5, <3>7 DEF Covering, Covered, Kept, Subtotal
      <4>2. q.pc \in Waiting => Raised(q.u, q.p)'
          BY <3>3, <3>5, <3>6, <3>7 DEF Covering, Kept
      <4> QED
          BY <3>3, <3>7, <4>1, <4>2 DEF Covering, Waiting
    <3> QED
        BY <3>2, <3>4, <3>7 DEF Covering, Covered
  <2> QED
      BY <2>1, <2>2
<1> QED
    BY <1>3, <1>4

LEMMA BillsTyped ==
    ASSUME BillingTypeOK, NEW u \in Units, NEW p \in Periods
    PROVE  /\ bill[u][p] \in Bill
           /\ DueOf(u, p) \in Nat
           /\ outstanding[u] \in Int /\ unadded[u] \in Nat
BY DEF BillingTypeOK, Bill, DueOf

LEMMA SubtotalNat ==
    ASSUME NEW u \in Units, NEW heads \in SUBSET Heads
    PROVE  Subtotal(u, heads) \in Nat
<1>1. IsFiniteSet(heads)
    BY BillingAssumption, FS_Subset
<1>2. PICK f : f = Rates[u]
    OBVIOUS
<1>3. \A c \in heads : f[c] \in Nat
    BY <1>2, BillingAssumption
<1>4. SumFunctionOnSet(f, heads) \in Nat
    BY <1>1, <1>3, SumNat
<1> QED
    BY <1>2, <1>4 DEF Subtotal

LEMMA ArrearsNat ==
    ASSUME BillingTypeOK, NEW u \in Units, NEW p
    PROVE  Arrears(u, p) \in Nat
<1>1. PICK f : f = [q \in Periods |-> IF q < p /\ bill[u][q].status \in Carried
                                          THEN bill[u][q].due ELSE 0]
    OBVIOUS
<1>2. \A q \in Periods : f[q] \in Nat
    BY <1>1, BillsTyped DEF Bill
<1>3. SumFunctionOnSet(f, Periods) \in Nat
    BY <1>2, SumNat, BillingAssumption
<1> QED
    BY <1>1, <1>3 DEF Arrears

LEMMA DraftTyped ==
    ASSUME BillingInv, NEW i \in Callers, req[i].pc = "arrears"
    PROVE  LET d == Draft(i, req[i].draft.mode)
           IN /\ d \in Bill
              /\ d.mode = req[i].draft.mode
              /\ d.status \in Carried
              /\ d.due = 0 => Subtotal(req[i].u, req[i].option.heads) = 0
<1>1. req[i] \in Serving /\ Held(req[i])
    BY DEF BillingInv, BillingTypeOK
<1>2. PICK u : u = req[i].u
    OBVIOUS
<1>3. u \in Units /\ req[i].option \in Option /\ req[i].draft \in Bill
    BY <1>1, <1>2 DEF Serving, Held, WithUnit
<1>4. PICK charge : charge = Subtotal(u, req[i].option.heads)
    OBVIOUS
<1>5. charge \in Nat
    BY <1>3, <1>4, SubtotalNat DEF Option
<1>6. PICK arrears : arrears = IF req[i].option.carry THEN Arrears(u, req[i].p) ELSE 0
    OBVIOUS
<1>7. arrears \in Nat
    BY <1>3, <1>6, ArrearsNat DEF BillingInv
<1>8. PICK fee : fee = IF arrears > 0 /\ req[i].draft.mode = "BULK" THEN LateFee ELSE 0
    OBVIOUS
<1>9. fee \in Nat
    BY <1>8, BillingAssumption
<1>10. req[i].draft.mode \in {"BULK", "MANUAL"}
    BY <1>3 DEF Bill
<1>11. PICK status : status = IF req[i].option.send /\ req[i].draft.mode = "MANUAL"
                                THEN "SENT" ELSE "GENERATED"
    OBVIOUS
<1>12. status \in {"SENT", "GENERATED"}
    BY <1>11
<1>13. Draft(i, req[i].draft.mode)
         = [status |-> status, mode |-> req[i].draft.mode, charge |-> charge,
            arrears |-> arrears, fee |-> fee, due |-> charge + arrears + fee]
    BY <1>2, <1>4, <1>6, <1>8, <1>11 DEF Draft
<1>14. charge + arrears + fee \in Nat
    BY <1>5, <1>7, <1>9
<1>15. charge + arrears + fee = 0 => charge = 0
    BY <1>5, <1>7, <1>9
<1> QED
    BY <1>2, <1>4, <1>5, <1>7, <1>9, <1>10, <1>12, <1>13, <1>14, <1>15 DEF Bill, Carried

(* What a step leaves of the amounts.  The running amount of a unit moves  *)
(* with one request and one bill at a time.                                *)
LEMMA WaitingMoves ==
    ASSUME BillingTypeOK, BillingTypeOK', NEW i \in Callers, NEW u \in Units,
           \A j \in Callers \ {i} : req'[j] = req[j],
           \A j \in Callers : NotYetOwed(j, u) \in Nat /\ NotYetOwed(j, u)' \in Nat
    PROVE  SumFunctionOnSet([j \in Callers |-> NotYetOwed(j, u)'], Callers)
             = SumFunctionOnSet([j \in Callers |-> NotYetOwed(j, u)], Callers)
                 - NotYetOwed(i, u) + NotYetOwed(i, u)'
<1>1. PICK f : f = [j \in Callers |-> NotYetOwed(j, u)]
    OBVIOUS
<1>2. PICK g : g = [j \in Callers |-> NotYetOwed(j, u)']
    OBVIOUS
<1>3. \A j \in Callers : f[j] \in Int /\ g[j] \in Int
    BY <1>1, <1>2
<1>4. \A j \in Callers \ {i} : g[j] = f[j]
    BY <1>1, <1>2 DEF NotYetOwed
<1>5. SumFunctionOnSet(g, Callers) = SumFunctionOnSet(f, Callers) - f[i] + g[i]
  <2>1. IsFiniteSet(Callers)
      BY BillingAssumption
  <2> QED
      BY <1>3, <1>4, <2>1, SumMove
<1> QED
    BY <1>1, <1>2, <1>5

LEMMA OwedTyped ==
    ASSUME BillingTypeOK, NEW i \in Callers, NEW u
    PROVE  NotYetOwed(i, u) \in Nat
BY DEF BillingTypeOK, NotYetOwed, Serving, Bill

LEMMA TotalDueMoves ==
    ASSUME BillingTypeOK, BillingTypeOK', NEW u \in Units, NEW v, NEW p \in Periods,
           \A w \in Units, q \in Periods : w # v \/ q # p => bill'[w][q] = bill[w][q]
    PROVE  TotalDue(u)' = IF u = v THEN TotalDue(u) - DueOf(u, p) + DueOf(u, p)'
                                   ELSE TotalDue(u)
<1>1. PICK f : f = [q \in Periods |-> DueOf(u, q)]
    OBVIOUS
<1>2. PICK g : g = [q \in Periods |-> DueOf(u, q)']
    OBVIOUS
<1>3. TotalDue(u) = SumFunctionOnSet(f, Periods)
    BY <1>1, TotalIs
<1>4. TotalDue(u)' = SumFunctionOnSet(g, Periods)
    BY <1>2 DEF TotalDue, DueOf
<1>5. \A q \in Periods : f[q] \in Int /\ g[q] \in Int
  <2>1. ASSUME NEW q \in Periods PROVE DueOf(u, q)' \in Nat
      BY DEF BillingTypeOK, Bill, DueOf
  <2> QED
      BY <1>1, <1>2, <2>1, BillsTyped
<1>6. CASE u = v
  <2>1. \A q \in Periods \ {p} : g[q] = f[q]
      BY <1>1, <1>2 DEF DueOf
  <2>2. SumFunctionOnSet(g, Periods) = SumFunctionOnSet(f, Periods) - f[p] + g[p]
    <3>1. IsFiniteSet(Periods)
        BY BillingAssumption
    <3> QED
        BY <1>5, <2>1, <3>1, SumMove
  <2> QED
      BY <1>1, <1>2, <1>3, <1>4, <1>6, <2>2
<1>7. CASE u # v
  <2>1. ASSUME NEW q \in Periods PROVE f[q] = g[q]
    <3>1. bill'[u][q] = bill[u][q]
        BY <1>7
    <3> QED
        BY <1>1, <1>2, <3>1 DEF DueOf
  <2>2. SumFunctionOnSet(g, Periods) = SumFunctionOnSet(f, Periods)
      BY <2>1, SumSame, BillingAssumption
  <2> QED
      BY <1>3, <1>4, <1>7, <2>2
<1> QED
    BY <1>6, <1>7

(* Steps that move no money.                                               *)
LEMMA Quietly ==
    ASSUME BillingInv, NEW i \in Callers, NEW r, Fits(r),
           req' = [req EXCEPT ![i] = r], UNCHANGED <<bill, outstanding, unadded>>,
           served' \in 0..MaxServed, dropped' \in 0..MaxDropped,
           \/ req[i].pc \notin Waiting /\ r.pc \notin Waiting
           \/ /\ req[i].pc \in Waiting /\ r.pc \in Waiting
              /\ r.u = req[i].u /\ r.draft = req[i].draft
    PROVE  BillingInv'
<1>1. Kept
    BY DEF Kept, Raised
<1>2. Fits(r)'
  <2>1. r.scope # {} => Covering(r)'
      BY DEF Fits, Covering, Covered, Raised
  <2> QED
      BY <2>1 DEF Fits, Held, Covering
<1>3. req' \in [Callers -> Serving] /\ \A j \in Callers : Held(req[j])' /\ Covering(req[j])'
    BY <1>1, <1>2, Turned
<1>4. BillingTypeOK'
    BY <1>3 DEF BillingInv, BillingTypeOK
<1>5. Cleared'
    BY DEF BillingInv, Cleared
<1>6. ASSUME NEW u \in Units PROVE \A j \in Callers : NotYetOwed(j, u)' = NotYetOwed(j, u)
  <2>1. \A j \in Callers : req'[j] = IF j = i THEN r ELSE req[j]
      BY DEF BillingInv, BillingTypeOK
  <2>2. NotYetOwed(i, u)' = NotYetOwed(i, u)
      BY <2>1 DEF NotYetOwed, Waiting
  <2>3. \A j \in Callers \ {i} : NotYetOwed(j, u)' = NotYetOwed(j, u)
      BY <2>1 DEF NotYetOwed
  <2> QED
      BY <2>2, <2>3
<1>7. OutstandingIsDue'
  <2>1. ASSUME NEW u \in Units
        PROVE  outstanding'[u] + unadded'[u]
                 + SumFunctionOnSet([j \in Callers |-> NotYetOwed(j, u)'], Callers) = TotalDue(u)'
    <3>1. [j \in Callers |-> NotYetOwed(j, u)'] = [j \in Callers |-> NotYetOwed(j, u)]
        BY <1>6
    <3>2. TotalDue(u)' = TotalDue(u)
        BY DEF TotalDue
    <3>3. outstanding[u] + unadded[u]
            + SumFunctionOnSet([j \in Callers |-> NotYetOwed(j, u)], Callers) = TotalDue(u)
        BY DEF BillingInv, OutstandingIsDue
    <3> QED
        BY <3>1, <3>2, <3>3
  <2> QED
      BY <2>1 DEF OutstandingIsDue
<1> QED
    BY <1>3, <1>4, <1>5, <1>7 DEF BillingInv

LEMMA NoBillIs == NoBill \in Bill /\ NoRequest \in Serving /\ Fits(NoRequest)
BY DEF NoBill, Bill, NoRequest, Serving, NoOption, Option, BillingSteps, Fits, Held, Covering, WithUnit, Waiting

(* A request that is through, or has only begun.                           *)
LEMMA AcceptStep ==
    ASSUME BillingInv, NEW i \in Callers, NEW r, Fits(r), r.pc \notin Waiting, Accept(i, r)
    PROVE  BillingInv'
<1>1. req[i].pc \notin Waiting
    BY DEF Accept, Waiting
<1>2. served' \in 0..MaxServed /\ dropped' \in 0..MaxDropped
    BY BillingAssumption DEF Accept, BillingInv, BillingTypeOK
<1> QED
    BY <1>1, <1>2, Quietly DEF Accept

LEMMA ReplyStep ==
    ASSUME BillingInv, NEW i \in Callers, req[i].pc \notin Waiting, Reply(i),
           UNCHANGED <<bill, outstanding, served, dropped, unadded>>
    PROVE  BillingInv'
<1>1. PICK r : r = NoRequest
    OBVIOUS
<1>2. Fits(r) /\ r.pc \notin Waiting
    BY <1>1, NoBillIs DEF NoRequest, Waiting
<1>3. served' \in 0..MaxServed /\ dropped' \in 0..MaxDropped
    BY DEF BillingInv, BillingTypeOK
<1>4. req' = [req EXCEPT ![i] = r]
    BY <1>1 DEF Reply
<1> QED
    BY <1>2, <1>3, <1>4, Quietly

LEMMA GenerateStep ==
    ASSUME BillingInv, NEW i \in Callers, NEW p \in Periods, NEW scope \in Scopes,
           NEW option \in Runs, Generate(i, p, scope, option)
    PROVE  BillingInv'
<1>1. PICK r : r = [NoRequest EXCEPT !.pc = "check", !.p = p, !.scope = scope, !.todo = scope,
                                   !.option = option]
    OBVIOUS
<1>2. r.pc = "check" /\ r.p = p /\ r.scope = scope /\ r.todo = scope /\ r.draft = NoBill
    BY <1>1 DEF NoRequest
<1>3. scope \in SUBSET Units /\ option \in Option
    BY BillingAssumption
<1>4. r \in Serving
    BY <1>1, <1>3, NoBillIs DEF NoRequest, Serving, BillingSteps
<1>5. Fits(r) /\ r.pc \notin Waiting
    BY <1>2, <1>4 DEF Fits, Held, Covering, Covered, WithUnit, Waiting, NoBill
<1> QED
    BY <1>1, <1>5, AcceptStep DEF Generate

LEMMA CreateReadStep ==
    ASSUME BillingInv, NEW i \in Callers, NEW u \in Units, NEW p \in Periods,
           NEW send \in BOOLEAN, CreateRead(i, u, p, Heads, send)
    PROVE  BillingInv'
<1>1. PICK r : r = [NoRequest EXCEPT !.pc = "arrears", !.p = p, !.u = u, !.draft.mode = "MANUAL",
                     !.option = [NoOption EXCEPT !.heads = Heads, !.send = send]]
    OBVIOUS
<1>2. r.pc = "arrears" /\ r.p = p /\ r.scope = {} /\ r.u = u
    BY <1>1 DEF NoRequest
<1>3. r.draft = [NoBill EXCEPT !.mode = "MANUAL"] /\ r.draft \in Bill
    BY <1>1 DEF NoRequest, NoBill, Bill
<1>4. r.option \in Option
    BY <1>1 DEF NoRequest, NoOption, Option
<1>5. r = [pc |-> "arrears", p |-> p, scope |-> {}, todo |-> {}, billed |-> {},
           u |-> u, option |-> r.option, draft |-> r.draft]
    BY <1>1 DEF NoRequest
<1>6. r \in Serving
    BY <1>3, <1>4, <1>5 DEF Serving, BillingSteps
<1>7. Fits(r) /\ r.pc \notin Waiting
    BY <1>2, <1>6 DEF Fits, Held, Covering, WithUnit, Waiting
<1> QED
    BY <1>1, <1>7, AcceptStep DEF CreateRead

LEMMA SendStep ==
    ASSUME BillingInv, NEW i \in Callers, NEW u \in Units, NEW p \in Periods,
           Send(i, u, p) \/ Dispute(i, u, p)
    PROVE  BillingInv'
<1>1. CASE Send(i, u, p)
  <2>1. PICK r : r = [NoRequest EXCEPT !.pc = "send", !.p = p, !.todo = {u}]
      OBVIOUS
  <2>2. r \in Serving
      BY <2>1, NoBillIs DEF NoRequest, Serving, BillingSteps
  <2>3. Fits(r) /\ r.pc \notin Waiting
      BY <2>1, <2>2 DEF Fits, Held, Covering, WithUnit, Waiting, NoRequest
  <2> QED
      BY <1>1, <2>1, <2>3, AcceptStep DEF Send
<1>2. CASE Dispute(i, u, p)
  <2>1. PICK r : r = [NoRequest EXCEPT !.pc = "dispute", !.u = u, !.p = p]
      OBVIOUS
  <2>2. r \in Serving
      BY <2>1, NoBillIs DEF NoRequest, Serving, BillingSteps
  <2>3. Fits(r) /\ r.pc \notin Waiting
      BY <2>1, <2>2 DEF Fits, Held, Covering, WithUnit, Waiting, NoRequest
  <2> QED
      BY <1>2, <2>1, <2>3, AcceptStep DEF Dispute
<1> QED
    BY <1>1, <1>2

(* The loop goes on once its unit is billed or has nothing to be billed.   *)
LEMMA NextUnitFits ==
    ASSUME BillingInv, NEW i \in Callers, NEW billed \in SUBSET Units, NextUnit(i, billed),
           req[i].pc \in {"arrears", "create", "owe"},
           \/ req[i].option.dry
           \/ Raised(req[i].u, req[i].p)
           \/ Subtotal(req[i].u, req[i].option.heads) = 0
    PROVE  \E r : Fits(r) /\ r.pc = "check" /\ req' = [req EXCEPT ![i] = r]
<1>1. PICK q : q = req[i]
    OBVIOUS
<1>2. q \in Serving /\ Held(q) /\ Covering(q)
    BY <1>1 DEF BillingInv, BillingTypeOK
<1>3. PICK r : r = [q EXCEPT !.pc = "check", !.todo = @ \ {q.u}, !.u = "none",
                             !.billed = @ \cup billed]
    OBVIOUS
<1>4. req' = [req EXCEPT ![i] = r]
    BY <1>1, <1>3 DEF NextUnit, BillingInv, BillingTypeOK, Serving
<1>5. r \in Serving
    BY <1>2, <1>3 DEF Serving, BillingSteps
<1>6. /\ r.pc = "check" /\ r.p = q.p /\ r.scope = q.scope /\ r.todo = q.todo \ {q.u}
      /\ r.option = q.option /\ r.draft = q.draft
    BY <1>2, <1>3 DEF Serving
<1>7. Held(r)
    BY <1>1, <1>2, <1>6 DEF Held, WithUnit
<1>8. Covering(r)
  <2>1. SUFFICES ASSUME r.scope # {} PROVE \A u \in r.scope : Covered(r, u)
      BY <1>2, <1>6 DEF Covering, Waiting
  <2>2. ASSUME NEW u \in r.scope PROVE Covered(r, u)
    <3>1. Covered(q, u)
        BY <1>2, <1>6, <2>1 DEF Covering, Waiting
    <3>2. CASE u = q.u
        BY <1>1, <1>6, <3>2 DEF Covered
    <3>3. CASE u # q.u
        BY <1>6, <3>1, <3>3 DEF Covered
    <3> QED
        BY <3>2, <3>3
  <2> QED
      BY <2>2
<1> QED
    BY <1>4, <1>5, <1>6, <1>7, <1>8 DEF Fits

LEMMA Standing ==
    ASSUME BillingInv
    PROVE  served \in 0..MaxServed /\ dropped \in 0..MaxDropped
BY DEF BillingInv, BillingTypeOK

LEMMA CheckStep ==
    ASSUME BillingInv, NEW i \in Callers, NEW u \in Units, Check(i, u)
    PROVE  BillingInv'
<1>1. PICK q : q = req[i]
    OBVIOUS
<1>2. q \in Serving /\ Held(q) /\ Covering(q) /\ q.pc = "check"
    BY <1>1 DEF BillingInv, BillingTypeOK, Check, Doing
<1>3. PICK r : r = IF Raised(u, q.p) THEN [q EXCEPT !.todo = @ \ {u}]
                                     ELSE [q EXCEPT !.pc = "arrears", !.u = u]
    OBVIOUS
<1>4. req' = [req EXCEPT ![i] = r]
    BY <1>1, <1>3 DEF Check, BillingInv, BillingTypeOK, Serving
<1>5. r \in Serving
    BY <1>2, <1>3 DEF Serving, BillingSteps
<1>6. CASE Raised(u, q.p)
  <2>1. /\ r.pc = "check" /\ r.p = q.p /\ r.scope = q.scope /\ r.todo = q.todo \ {u}
        /\ r.option = q.option /\ r.draft = q.draft
      BY <1>2, <1>3, <1>6 DEF Serving
  <2>2. Held(r)
      BY <1>2, <2>1 DEF Held, WithUnit
  <2>3. Covering(r)
    <3>1. \A v \in q.scope : Covered(q, v) => Covered(r, v)
        BY <1>6, <2>1 DEF Covered
    <3> QED
        BY <1>2, <2>1, <3>1 DEF Covering, Waiting
  <2> QED
      BY <1>2, <1>4, <1>5, <1>1, <2>1, <2>2, <2>3, Quietly, Standing DEF Fits, Check, Doing, Waiting
<1>7. CASE ~Raised(u, q.p)
  <2>1. /\ r.pc = "arrears" /\ r.p = q.p /\ r.scope = q.scope /\ r.todo = q.todo
        /\ r.option = q.option /\ r.draft = q.draft /\ r.u = u
      BY <1>2, <1>3, <1>7 DEF Serving
  <2>2. Held(r)
      BY <1>2, <2>1 DEF Held, WithUnit
  <2>3. Covering(r)
    <3>1. \A v \in q.scope : Covered(q, v) => Covered(r, v)
        BY <1>2, <2>1 DEF Covered
    <3> QED
        BY <1>2, <2>1, <3>1 DEF Covering, Waiting
  <2> QED
      BY <1>2, <1>4, <1>5, <1>1, <2>1, <2>2, <2>3, Quietly, Standing DEF Fits, Check, Doing, Waiting
<1> QED
    BY <1>6, <1>7

LEMMA ReadArrearsStep ==
    ASSUME BillingInv, NEW i \in Callers, ReadArrears(i)
    PROVE  BillingInv'
<1>1. PICK q : q = req[i]
    OBVIOUS
<1>2. q \in Serving /\ Held(q) /\ Covering(q) /\ q.pc = "arrears"
    BY <1>1 DEF BillingInv, BillingTypeOK, ReadArrears, Doing
<1>3. PICK d : d = Draft(i, q.draft.mode)
    OBVIOUS
<1>4. /\ d \in Bill /\ d.mode = q.draft.mode /\ d.status \in Carried
      /\ d.due = 0 => Subtotal(q.u, q.option.heads) = 0
    BY <1>1, <1>2, <1>3, DraftTyped
<1>5. UNCHANGED <<bill, outstanding, served, dropped, unadded>>
    BY DEF ReadArrears, Doing
<1>6. CASE d.due = 0 \/ q.option.dry
  <2>1. CASE ByHand(i)
      BY <1>1, <1>2, <1>3, <1>5, <1>6, <2>1, ReplyStep DEF ReadArrears, Waiting
  <2>2. CASE ~ByHand(i)
    <3>1. NextUnit(i, {})
        BY <1>1, <1>3, <1>6, <2>2 DEF ReadArrears
    <3>2. PICK r : Fits(r) /\ r.pc = "check" /\ req' = [req EXCEPT ![i] = r]
        BY <1>1, <1>2, <1>4, <1>6, <3>1, NextUnitFits
    <3> QED
        BY <1>1, <1>2, <1>5, <3>2, Quietly, Standing DEF Waiting
  <2> QED
      BY <2>1, <2>2
<1>7. CASE ~(d.due = 0 \/ q.option.dry)
  <2>1. PICK r : r = [q EXCEPT !.pc = "create", !.draft = d]
      OBVIOUS
  <2>2. req' = [req EXCEPT ![i] = r]
      BY <1>1, <1>3, <1>7, <2>1 DEF ReadArrears, BillingInv, BillingTypeOK, Serving
  <2>3. r \in Serving
      BY <1>2, <1>4, <2>1 DEF Serving, BillingSteps
  <2>4. /\ r.pc = "create" /\ r.p = q.p /\ r.scope = q.scope /\ r.todo = q.todo
        /\ r.option = q.option /\ r.draft = d /\ r.u = q.u
      BY <1>2, <2>1 DEF Serving
  <2>5. Held(r)
      BY <1>2, <1>4, <2>4 DEF Held, WithUnit
  <2>6. Covering(r)
    <3>1. \A v \in q.scope : Covered(q, v) => Covered(r, v)
        BY <1>2, <2>4 DEF Covered
    <3> QED
        BY <1>2, <1>4, <2>4, <3>1 DEF Covering, Waiting
  <2> QED
      BY <1>1, <1>2, <1>5, <2>2, <2>3, <2>4, <2>5, <2>6, Quietly, Standing DEF Fits, Waiting
<1> QED
    BY <1>6, <1>7

LEMMA EndRunStep ==
    ASSUME BillingInv, NEW i \in Callers, EndRun(i)
    PROVE  BillingInv'
<1>1. PICK q : q = req[i]
    OBVIOUS
<1>2. q \in Serving /\ Held(q) /\ Covering(q) /\ q.pc = "check" /\ q.todo = {}
    BY <1>1 DEF BillingInv, BillingTypeOK, EndRun, Doing
<1>3. UNCHANGED <<bill, outstanding, served, dropped, unadded>>
    BY DEF EndRun, Doing
<1>4. CASE q.option.send /\ q.billed # {}
  <2>1. PICK r : r = [q EXCEPT !.pc = "send", !.todo = q.billed]
      OBVIOUS
  <2>2. req' = [req EXCEPT ![i] = r]
      BY <1>1, <1>4, <2>1 DEF EndRun, BillingInv, BillingTypeOK, Serving
  <2>3. r \in Serving
      BY <1>2, <2>1 DEF Serving, BillingSteps
  <2>4. /\ r.pc = "send" /\ r.p = q.p /\ r.scope = q.scope
        /\ r.option = q.option /\ r.draft = q.draft
      BY <1>2, <2>1 DEF Serving
  <2>5. Held(r)
      BY <1>2, <2>4 DEF Held, WithUnit
  <2>6. Covering(r)
    <3>1. \A v \in q.scope : Covered(q, v) => Covered(r, v)
        BY <1>2, <2>4 DEF Covered
    <3> QED
        BY <1>2, <2>4, <3>1 DEF Covering, Waiting
  <2> QED
      BY <1>1, <1>2, <1>3, <2>2, <2>3, <2>4, <2>5, <2>6, Quietly, Standing DEF Fits, Waiting
<1>5. CASE ~(q.option.send /\ q.billed # {})
  <2>1. Reply(i)
      BY <1>1, <1>5 DEF EndRun
  <2> QED
      BY <1>1, <1>2, <1>3, <2>1, ReplyStep DEF Waiting
<1> QED
    BY <1>4, <1>5

LEMMA SendReadStep ==
    ASSUME BillingInv, NEW i \in Callers, NEW u \in Units, SendRead(i, u)
    PROVE  BillingInv'
<1>1. PICK q : q = req[i]
    OBVIOUS
<1>2. q \in Serving /\ Held(q) /\ Covering(q) /\ q.pc = "send"
    BY <1>1 DEF BillingInv, BillingTypeOK, SendRead, Doing
<1>3. PICK r : r = [q EXCEPT !.todo = @ \ {u}, !.u = u,
                             !.pc = IF bill[u][q.p].status = "PAID" THEN "send" ELSE "sent"]
    OBVIOUS
<1>4. req' = [req EXCEPT ![i] = r]
    BY <1>1, <1>3 DEF SendRead, BillingInv, BillingTypeOK, Serving
<1>5. r \in Serving
    BY <1>2, <1>3 DEF Serving, BillingSteps
<1>6. /\ r.pc \in {"send", "sent"} /\ r.p = q.p /\ r.scope = q.scope /\ r.u = u
      /\ r.option = q.option /\ r.draft = q.draft
    BY <1>2, <1>3 DEF Serving
<1>7. Held(r)
    BY <1>2, <1>6 DEF Held, WithUnit
<1>8. Covering(r)
  <2>1. \A v \in q.scope : Covered(q, v) => Covered(r, v)
      BY <1>2, <1>6 DEF Covered
  <2> QED
      BY <1>2, <1>6, <2>1 DEF Covering, Waiting
<1> QED
    BY <1>1, <1>2, <1>4, <1>5, <1>6, <1>7, <1>8, Quietly, Standing
    DEF Fits, Waiting, SendRead, Doing

LEMMA SendEndStep ==
    ASSUME BillingInv, NEW i \in Callers, SendEnd(i)
    PROVE  BillingInv'
BY ReplyStep DEF SendEnd, Doing, Waiting

LEMMA AccrueStep ==
    ASSUME BillingInv, NEW i \in Callers, Accrue(i)
    PROVE  BillingInv'
<1>1. PICK q : q = req[i]
    OBVIOUS
<1>2. q \in Serving /\ Held(q) /\ Covering(q) /\ q.pc = "accrue"
    BY <1>1 DEF BillingInv, BillingTypeOK, Accrue, Doing
<1>3. PICK r : r = [q EXCEPT !.pc = "owe"]
    OBVIOUS
<1>4. req' = [req EXCEPT ![i] = r]
    BY <1>1, <1>3 DEF Accrue, Then, BillingInv, BillingTypeOK, Serving
<1>5. r \in Serving
    BY <1>2, <1>3 DEF Serving, BillingSteps
<1>6. /\ r.pc = "owe" /\ r.p = q.p /\ r.scope = q.scope /\ r.u = q.u
      /\ r.option = q.option /\ r.draft = q.draft
    BY <1>2, <1>3 DEF Serving
<1>7. Held(r)
    BY <1>2, <1>6 DEF Held, WithUnit
<1> QED
    BY <1>1, <1>2, <1>4, <1>5, <1>6, <1>7, Quietly, Standing
    DEF Fits, Waiting, Accrue, Doing, Covering, Covered

(* The amounts agree after a step that touches one request and one bill    *)
(* if what it moves agrees.                                                *)
LEMMA AmountsAgree ==
    ASSUME BillingInv, BillingTypeOK', NEW i \in Callers, NEW v \in Units, NEW p \in Periods,
           \A j \in Callers \ {i} : req'[j] = req[j],
           \A w \in Units, q \in Periods : w # v \/ q # p => bill'[w][q] = bill[w][q],
           \A u \in Units :
               outstanding'[u] + unadded'[u] - NotYetOwed(i, u) + NotYetOwed(i, u)'
                 = outstanding[u] + unadded[u]
                     + (IF u = v THEN DueOf(u, p)' - DueOf(u, p) ELSE 0)
    PROVE  OutstandingIsDue'
<1>1. BillingTypeOK
    BY DEF BillingInv
<1>2. \A j \in Callers, u \in Units : NotYetOwed(j, u) \in Nat /\ NotYetOwed(j, u)' \in Nat
  <2>1. ASSUME NEW j \in Callers, NEW u \in Units PROVE NotYetOwed(j, u)' \in Nat
      BY DEF BillingTypeOK, NotYetOwed, Serving, Bill
  <2> QED
      BY <1>1, <2>1, OwedTyped
<1>3. ASSUME NEW u \in Units
      PROVE  outstanding'[u] + unadded'[u]
               + SumFunctionOnSet([j \in Callers |-> NotYetOwed(j, u)'], Callers) = TotalDue(u)'
  <2>1. PICK s : s = SumFunctionOnSet([j \in Callers |-> NotYetOwed(j, u)], Callers)
      OBVIOUS
  <2>2. PICK t : t = SumFunctionOnSet([j \in Callers |-> NotYetOwed(j, u)'], Callers)
      OBVIOUS
  <2>3. t = s - NotYetOwed(i, u) + NotYetOwed(i, u)'
      BY <1>1, <1>2, <2>1, <2>2, WaitingMoves
  <2>4. outstanding[u] + unadded[u] + s = TotalDue(u)
      BY <2>1 DEF BillingInv, OutstandingIsDue
  <2>5. TotalDue(u)' = IF u = v THEN TotalDue(u) - DueOf(u, p) + DueOf(u, p)' ELSE TotalDue(u)
      BY <1>1, TotalDueMoves
  <2>6. s \in Int
    <3>1. PICK f : f = [j \in Callers |-> NotYetOwed(j, u)]
        OBVIOUS
    <3>2. \A j \in Callers : f[j] \in Int
        BY <1>2, <3>1
    <3>3. IsFiniteSet(Callers)
        BY BillingAssumption
    <3> QED
        BY <2>1, <3>1, <3>2, <3>3, SumInt
  <2>7. DueOf(u, p) \in Int /\ DueOf(u, p)' \in Int
    <3>1. DueOf(u, p)' \in Nat
        BY DEF BillingTypeOK, Bill, DueOf
    <3> QED
        BY <1>1, <3>1, BillsTyped
  <2>8. /\ outstanding[u] \in Int /\ unadded[u] \in Int
        /\ outstanding'[u] \in Int /\ unadded'[u] \in Int
      BY <1>1 DEF BillingTypeOK
  <2>9. NotYetOwed(i, u) \in Int /\ NotYetOwed(i, u)' \in Int
      BY <1>2
  <2> HIDE DEF NotYetOwed, DueOf, TotalDue
  <2>10. outstanding'[u] + unadded'[u] - NotYetOwed(i, u) + NotYetOwed(i, u)'
           = outstanding[u] + unadded[u] + (IF u = v THEN DueOf(u, p)' - DueOf(u, p) ELSE 0)
      OBVIOUS
  <2>11. outstanding'[u] + unadded'[u] + t = TotalDue(u)'
      BY <2>3, <2>4, <2>5, <2>6, <2>7, <2>8, <2>9, <2>10
  <2> QED
      BY <2>2, <2>11
<1> QED
    BY <1>3 DEF OutstandingIsDue

LEMMA CreateStep ==
    ASSUME BillingInv, NEW i \in Callers, Create(i)
    PROVE  BillingInv'
<1>1. PICK q : q = req[i]
    OBVIOUS
<1>2. q \in Serving /\ Held(q) /\ Covering(q) /\ q.pc = "create"
    BY <1>1 DEF BillingInv, BillingTypeOK, Create, Doing
<1>3. q.u \in Units /\ q.p \in Periods /\ q.draft \in Bill /\ q.draft.status \in Carried
    BY <1>2 DEF Held, WithUnit, Serving
<1>4. UNCHANGED <<outstanding, served, dropped, unadded>>
    BY DEF Create, Doing
<1>5. CASE Raised(q.u, q.p)
  <2>1. Refused(i) /\ UNCHANGED bill
      BY <1>1, <1>5 DEF Create
  <2>2. CASE ByHand(i)
      BY <1>1, <1>2, <1>4, <2>1, <2>2, ReplyStep DEF Refused, Waiting
  <2>3. CASE ~ByHand(i)
    <3>1. NextUnit(i, {})
        BY <2>1, <2>3 DEF Refused
    <3>2. PICK r : Fits(r) /\ r.pc = "check" /\ req' = [req EXCEPT ![i] = r]
        BY <1>1, <1>2, <1>5, <3>1, NextUnitFits
    <3> QED
        BY <1>1, <1>2, <1>4, <2>1, <3>2, Quietly, Standing DEF Waiting
  <2> QED
      BY <2>2, <2>3
<1>6. CASE ~Raised(q.u, q.p)
  <2>1. PICK r : r = [q EXCEPT !.pc = IF q.draft.mode = "MANUAL" THEN "accrue" ELSE "owe"]
      OBVIOUS
  <2>2. req' = [req EXCEPT ![i] = r] /\ bill' = [bill EXCEPT ![q.u][q.p] = q.draft]
      BY <1>1, <1>6, <2>1 DEF Create, Then, ByHand, BillingInv, BillingTypeOK, Serving
  <2>3. r \in Serving
      BY <1>2, <2>1 DEF Serving, BillingSteps
  <2>4. /\ r.pc \in Waiting /\ r.p = q.p /\ r.scope = q.scope /\ r.todo = q.todo
        /\ r.option = q.option /\ r.draft = q.draft /\ r.u = q.u
        /\ r.draft.mode = "BULK" => r.pc = "owe"
      BY <1>2, <2>1 DEF Serving, Waiting
  <2>5. \A w \in Units, m \in Periods :
            bill'[w][m] = IF w = q.u /\ m = q.p THEN q.draft ELSE bill[w][m]
      BY <1>3, <2>2 DEF BillingInv, BillingTypeOK
  <2>6. bill' \in [Units -> [Periods -> Bill]]
      BY <1>3, <2>2 DEF BillingInv, BillingTypeOK
  <2>7. Kept
      BY <1>3, <2>5 DEF Kept, Raised, Carried
  <2>8. Raised(q.u, q.p)'
      BY <1>3, <2>5 DEF Raised, Carried
  <2>9. Fits(r)'
    <3>1. Held(r)'
        BY <1>3, <2>4 DEF Held, Waiting
    <3>2. Covering(r)'
      <4>1. ASSUME r.scope # {}, NEW u \in r.scope PROVE Covered(r, u)'
        <5>1. Covered(q, u) /\ u \in Units /\ q.draft.mode = "BULK"
            BY <1>2, <2>4, <4>1 DEF Covering, Serving
        <5>2. Raised(u, q.p) => Raised(u, q.p)'
            BY <1>3, <2>7, <5>1 DEF Kept
        <5> QED
            BY <2>4, <5>1, <5>2 DEF Covered, Subtotal
      <4>2. r.scope # {} => r.draft.mode = "BULK" /\ r.pc # "idle"
          BY <1>2, <2>4 DEF Covering, Waiting
      <4> QED
          BY <2>4, <2>8, <4>1, <4>2 DEF Covering
    <3> QED
        BY <2>3, <3>1, <3>2 DEF Fits
  <2>10. req' \in [Callers -> Serving] /\ \A j \in Callers : Held(req[j])' /\ Covering(req[j])'
      BY <2>2, <2>7, <2>9, Turned
  <2>11. BillingTypeOK'
      BY <1>4, <2>6, <2>10 DEF BillingInv, BillingTypeOK
  <2>12. Cleared'
      BY <1>3, <2>5 DEF BillingInv, Cleared, Carried
  <2>13. \A j \in Callers : req'[j] = IF j = i THEN r ELSE req[j]
      BY <2>2 DEF BillingInv, BillingTypeOK
  <2>14. OutstandingIsDue'
    <3>1. ASSUME NEW u \in Units
          PROVE  outstanding'[u] + unadded'[u] - NotYetOwed(i, u) + NotYetOwed(i, u)'
                   = outstanding[u] + unadded[u]
                       + (IF u = q.u THEN DueOf(u, q.p)' - DueOf(u, q.p) ELSE 0)
      <4>1. NotYetOwed(i, u) = 0
          BY <1>1, <1>2 DEF NotYetOwed
      <4>2. NotYetOwed(i, u)' = IF u = q.u THEN q.draft.due ELSE 0
          BY <2>4, <2>13 DEF NotYetOwed, Waiting
      <4>3. u = q.u => DueOf(u, q.p)' = q.draft.due
          BY <1>3, <2>5 DEF DueOf, Chased
      <4>4. u = q.u => DueOf(u, q.p) = 0
          BY <1>6 DEF DueOf, Raised, Chased, Carried
      <4>5. outstanding[u] \in Int /\ unadded[u] \in Int /\ q.draft.due \in Int
          BY <1>3 DEF BillingInv, BillingTypeOK, Bill
      <4> QED
          BY <1>4, <4>1, <4>2, <4>3, <4>4, <4>5
    <3> QED
        BY <1>3, <2>5, <2>11, <2>13, <3>1, AmountsAgree
  <2> QED
      BY <2>10, <2>11, <2>12, <2>14 DEF BillingInv
<1> QED
    BY <1>5, <1>6

LEMMA OweStep ==
    ASSUME BillingInv, NEW i \in Callers, Owe(i)
    PROVE  BillingInv'
<1>1. PICK q : q = req[i]
    OBVIOUS
<1>2. q \in Serving /\ Held(q) /\ Covering(q) /\ q.pc = "owe"
    BY <1>1 DEF BillingInv, BillingTypeOK, Owe, Doing
<1>3. q.u \in Units /\ q.p \in Periods /\ q.draft.due \in Nat
    BY <1>2 DEF Held, WithUnit, Serving, Bill
<1>4. UNCHANGED <<bill, served, dropped, unadded>>
    BY DEF Owe, Doing
<1>5. \A u \in Units : outstanding'[u] = IF u = q.u THEN outstanding[u] + q.draft.due
                                                   ELSE outstanding[u]
    BY <1>1, <1>3 DEF Owe, Owed, BillingInv, BillingTypeOK
<1>6. outstanding' \in [Units -> Int]
    BY <1>1, <1>3 DEF Owe, Owed, BillingInv, BillingTypeOK
<1>7. \E r : Fits(r) /\ r.pc \notin Waiting /\ req' = [req EXCEPT ![i] = r]
  <2>1. CASE ByHand(i)
    <3>1. PICK r : r = NoRequest
        OBVIOUS
    <3>2. Fits(r) /\ r.pc \notin Waiting
        BY <3>1, NoBillIs DEF NoRequest, Waiting
    <3>3. req' = [req EXCEPT ![i] = r]
        BY <2>1, <3>1 DEF Owe, Reply
    <3> QED
        BY <3>2, <3>3
  <2>2. CASE ~ByHand(i)
    <3>1. NextUnit(i, {q.u})
        BY <1>1, <2>2 DEF Owe
    <3>2. q.scope # {} => Raised(q.u, q.p)
        BY <1>2 DEF Covering, Waiting
    <3>3. CASE q.scope # {}
      <4>1. PICK r : Fits(r) /\ r.pc = "check" /\ req' = [req EXCEPT ![i] = r]
          BY <1>1, <1>2, <1>3, <3>1, <3>2, <3>3, NextUnitFits
      <4> QED
          BY <4>1 DEF Waiting
    <3>4. CASE q.scope = {}
      <4>1. PICK r : r = [q EXCEPT !.pc = "check", !.todo = @ \ {q.u}, !.u = "none",
                                   !.billed = @ \cup {q.u}]
          OBVIOUS
      <4>2. req' = [req EXCEPT ![i] = r]
          BY <1>1, <3>1, <4>1 DEF NextUnit, BillingInv, BillingTypeOK, Serving
      <4>3. r \in Serving
          BY <1>2, <1>3, <4>1 DEF Serving, BillingSteps
      <4>4. r.pc = "check" /\ r.p = q.p /\ r.scope = {}
          BY <1>2, <3>4, <4>1 DEF Serving
      <4> QED
          BY <1>2, <4>2, <4>3, <4>4 DEF Fits, Held, Covering, WithUnit, Waiting
    <3> QED
        BY <3>3, <3>4
  <2> QED
      BY <2>1, <2>2
<1>8. PICK r : Fits(r) /\ r.pc \notin Waiting /\ req' = [req EXCEPT ![i] = r]
    BY <1>7
<1>9. Kept /\ Fits(r)'
  <2>1. r.scope # {} => Covering(r)'
      BY <1>4, <1>8 DEF Fits, Covering, Covered, Raised
  <2> QED
      BY <1>4, <1>8, <2>1 DEF Fits, Held, Covering, Kept, Raised
<1>10. req' \in [Callers -> Serving] /\ \A j \in Callers : Held(req[j])' /\ Covering(req[j])'
    BY <1>8, <1>9, Turned
<1>11. BillingTypeOK'
    BY <1>4, <1>6, <1>10 DEF BillingInv, BillingTypeOK
<1>12. \A j \in Callers : req'[j] = IF j = i THEN r ELSE req[j]
    BY <1>8 DEF BillingInv, BillingTypeOK
<1>13. OutstandingIsDue'
  <2>1. ASSUME NEW u \in Units
        PROVE  outstanding'[u] + unadded'[u] - NotYetOwed(i, u) + NotYetOwed(i, u)'
                 = outstanding[u] + unadded[u]
                     + (IF u = q.u THEN DueOf(u, q.p)' - DueOf(u, q.p) ELSE 0)
    <3>1. NotYetOwed(i, u) = IF u = q.u THEN q.draft.due ELSE 0
        BY <1>1, <1>2 DEF NotYetOwed
    <3>2. NotYetOwed(i, u)' = 0
        BY <1>8, <1>12 DEF NotYetOwed, Waiting
    <3>3. DueOf(u, q.p)' = DueOf(u, q.p) /\ DueOf(u, q.p) \in Int
        BY <1>3, <1>4, BillsTyped DEF DueOf, BillingInv
    <3>4. outstanding[u] \in Int /\ unadded[u] \in Int
        BY DEF BillingInv, BillingTypeOK
    <3> QED
        BY <1>3, <1>4, <1>5, <3>1, <3>2, <3>3, <3>4
  <2> QED
      BY <1>3, <1>4, <1>11, <1>12, <2>1, AmountsAgree
<1> QED
    BY <1>4, <1>10, <1>11, <1>13 DEF BillingInv, Cleared

(* A bill that has its status written keeps what is due.                   *)
LEMMA StatusStep ==
    ASSUME BillingInv, NEW i \in Callers, NEW r, Fits(r), r.pc \notin Waiting,
           req' = [req EXCEPT ![i] = r], req[i].pc \in {"sent", "dispute"},
           NEW status \in {"SENT", "DISPUTED"},
           bill' = [bill EXCEPT ![req[i].u][req[i].p].status = status],
           UNCHANGED <<outstanding, served, dropped, unadded>>
    PROVE  BillingInv'
<1>1. PICK q : q = req[i]
    OBVIOUS
<1>2. q \in Serving /\ Held(q) /\ q.u \in Units /\ q.p \in Periods
    BY <1>1 DEF BillingInv, BillingTypeOK, Held, WithUnit
<1>3. PICK b : b = [bill[q.u][q.p] EXCEPT !.status = status]
    OBVIOUS
<1>4. bill[q.u][q.p] \in Bill
    BY <1>2, BillsTyped DEF BillingInv
<1>5. b \in Bill /\ b.status = status /\ b.due = bill[q.u][q.p].due
    BY <1>3, <1>4 DEF Bill
<1>6. bill' = [bill EXCEPT ![q.u][q.p] = b]
    BY <1>1, <1>3
<1>7. \A w \in Units, m \in Periods :
          bill'[w][m] = IF w = q.u /\ m = q.p THEN b ELSE bill[w][m]
    BY <1>2, <1>6 DEF BillingInv, BillingTypeOK
<1>8. bill' \in [Units -> [Periods -> Bill]]
  <2>1. bill \in [Units -> [Periods -> Bill]]
      BY DEF BillingInv, BillingTypeOK
  <2>2. b \in Bill
      BY <1>5
  <2>3. [bill[q.u] EXCEPT ![q.p] = b] \in [Periods -> Bill]
      BY <1>2, <2>1, <2>2
  <2> QED
      BY <1>2, <1>6, <2>1, <2>3
<1>9. Kept
    BY <1>5, <1>7 DEF Kept, Raised
<1>10. Fits(r)'
  <2>1. r.scope \subseteq Units /\ (r.scope # {} => r.p \in Periods)
      BY DEF Fits, Serving, Held, Covering
  <2>2. (r.scope # {} /\ r.pc \in Waiting) => r.u \in Units
      OBVIOUS
  <2>3. ASSUME r.scope # {} PROVE Covering(r)'
    <3>1. \A u \in r.scope : Covered(r, u)'
        BY <1>9, <2>1, <2>3 DEF Fits, Covering, Covered, Kept, Subtotal
    <3> QED
        BY <2>3, <3>1 DEF Fits, Covering
  <2> QED
      BY <2>3 DEF Fits, Held, Covering
<1>11. req' \in [Callers -> Serving] /\ \A j \in Callers : Held(req[j])' /\ Covering(req[j])'
    BY <1>9, <1>10, Turned
<1>12. BillingTypeOK'
    BY <1>8, <1>11 DEF BillingInv, BillingTypeOK
<1>13. \A j \in Callers : req'[j] = IF j = i THEN r ELSE req[j]
    BY DEF BillingInv, BillingTypeOK
<1>14. OutstandingIsDue'
  <2>1. ASSUME NEW u \in Units
        PROVE  outstanding'[u] + unadded'[u] - NotYetOwed(i, u) + NotYetOwed(i, u)'
                 = outstanding[u] + unadded[u]
                     + (IF u = q.u THEN DueOf(u, q.p)' - DueOf(u, q.p) ELSE 0)
    <3>1. NotYetOwed(i, u) = 0 /\ NotYetOwed(i, u)' = 0
        BY <1>13 DEF NotYetOwed, Waiting
    <3>2. u = q.u => DueOf(u, q.p)' = DueOf(u, q.p)
      <4>1. ASSUME u = q.u PROVE DueOf(u, q.p)' = DueOf(u, q.p)
        <5>1. bill'[u][q.p] = b
            BY <1>2, <1>7, <4>1
        <5>2. DueOf(u, q.p)' = bill[u][q.p].due
            BY <1>5, <4>1, <5>1 DEF DueOf, Chased, Carried
        <5>3. bill[u][q.p].status \in {"NONE", "PAID"} => bill[u][q.p].due = 0
            BY <1>2, <4>1 DEF BillingInv, Cleared
        <5>4. DueOf(u, q.p) = bill[u][q.p].due
            BY <1>4, <4>1, <5>3 DEF DueOf, Chased, Carried, Bill
        <5> QED
            BY <5>2, <5>4
      <4> QED
          BY <4>1
    <3>3. DueOf(u, q.p) \in Int /\ outstanding[u] \in Int /\ unadded[u] \in Int
        BY <1>2, BillsTyped DEF BillingInv, BillingTypeOK
    <3> QED
        BY <3>1, <3>2, <3>3
  <2> QED
      BY <1>2, <1>7, <1>12, <1>13, <2>1, AmountsAgree
<1>15. Cleared'
    BY <1>5, <1>7 DEF BillingInv, Cleared
<1> QED
    BY <1>11, <1>12, <1>14, <1>15 DEF BillingInv

LEMMA SendWriteStep ==
    ASSUME BillingInv, NEW i \in Callers, SendWrite(i)
    PROVE  BillingInv'
<1>1. PICK q : q = req[i]
    OBVIOUS
<1>2. q \in Serving /\ Held(q) /\ Covering(q) /\ q.pc = "sent"
    BY <1>1 DEF BillingInv, BillingTypeOK, SendWrite, Doing
<1>3. PICK r : r = [q EXCEPT !.pc = "send"]
    OBVIOUS
<1>4. req' = [req EXCEPT ![i] = r]
    BY <1>1, <1>3 DEF SendWrite, Then, BillingInv, BillingTypeOK, Serving
<1>5. r \in Serving
    BY <1>2, <1>3 DEF Serving, BillingSteps
<1>6. /\ r.pc = "send" /\ r.p = q.p /\ r.scope = q.scope /\ r.u = q.u
      /\ r.option = q.option /\ r.draft = q.draft
    BY <1>2, <1>3 DEF Serving
<1>7. Held(r)
    BY <1>2, <1>6 DEF Held, WithUnit
<1>8. Covering(r)
  <2>1. \A v \in q.scope : Covered(q, v) => Covered(r, v)
      BY <1>2, <1>6 DEF Covered
  <2> QED
      BY <1>2, <1>6, <2>1 DEF Covering, Waiting
<1>9. bill' = [bill EXCEPT ![req[i].u][req[i].p].status = "SENT"]
    BY DEF SendWrite
<1>10. UNCHANGED <<outstanding, served, dropped, unadded>>
    BY DEF SendWrite, Doing
<1>11. Fits(r) /\ r.pc \notin Waiting
    BY <1>5, <1>6, <1>7, <1>8 DEF Fits, Waiting
<1> QED
    BY <1>1, <1>2, <1>4, <1>9, <1>10, <1>11, StatusStep

LEMMA DisputeWriteStep ==
    ASSUME BillingInv, NEW i \in Callers, DisputeWrite(i)
    PROVE  BillingInv'
<1>1. PICK r : r = NoRequest
    OBVIOUS
<1>2. Fits(r) /\ r.pc \notin Waiting
    BY <1>1, NoBillIs DEF NoRequest, Waiting
<1>3. req' = [req EXCEPT ![i] = r] /\ req[i].pc = "dispute"
    BY <1>1 DEF DisputeWrite, Reply, Doing
<1>4. bill' = [bill EXCEPT ![req[i].u][req[i].p].status = "DISPUTED"]
    BY DEF DisputeWrite
<1>5. UNCHANGED <<outstanding, served, dropped, unadded>>
    BY DEF DisputeWrite, Doing
<1> QED
    BY <1>2, <1>3, <1>4, <1>5, StatusStep

LEMMA DropStep ==
    ASSUME BillingInv, NEW i \in Callers, Drop(i)
    PROVE  BillingInv'
<1>1. PICK r : r = NoRequest
    OBVIOUS
<1>2. Fits(r) /\ r.pc = "idle" /\ r.scope = {}
    BY <1>1, NoBillIs DEF NoRequest
<1>3. req' = [req EXCEPT ![i] = r]
    BY <1>1 DEF Drop, Reply
<1>4. UNCHANGED <<bill, outstanding, served>>
    BY DEF Drop
<1>5. Kept /\ Fits(r)'
    BY <1>2, <1>4 DEF Kept, Raised, Fits, Held, Covering
<1>6. req' \in [Callers -> Serving] /\ \A j \in Callers : Held(req[j])' /\ Covering(req[j])'
    BY <1>3, <1>5, Turned
<1>7. \A u \in Units : NotYetOwed(i, u) \in Nat
    BY OwedTyped DEF BillingInv
<1>8. \A u \in Units : unadded'[u] = unadded[u] + NotYetOwed(i, u)
    BY DEF Drop
<1>9. unadded' \in [Units -> Nat] /\ dropped' \in 0..MaxDropped
    BY <1>7, BillingAssumption DEF Drop, BillingInv, BillingTypeOK
<1>10. BillingTypeOK'
    BY <1>4, <1>6, <1>9 DEF BillingInv, BillingTypeOK
<1>11. \A j \in Callers : req'[j] = IF j = i THEN r ELSE req[j]
    BY <1>3 DEF BillingInv, BillingTypeOK
<1>12. ASSUME NEW u \in Units
       PROVE  outstanding'[u] + unadded'[u]
                + SumFunctionOnSet([j \in Callers |-> NotYetOwed(j, u)'], Callers) = TotalDue(u)'
  <2>1. PICK s : s = SumFunctionOnSet([j \in Callers |-> NotYetOwed(j, u)], Callers)
      OBVIOUS
  <2>2. PICK t : t = SumFunctionOnSet([j \in Callers |-> NotYetOwed(j, u)'], Callers)
      OBVIOUS
  <2>3. \A j \in Callers : NotYetOwed(j, u) \in Nat /\ NotYetOwed(j, u)' \in Nat
    <3>1. ASSUME NEW j \in Callers PROVE NotYetOwed(j, u)' \in Nat
        BY <1>10 DEF BillingTypeOK, NotYetOwed, Serving, Bill
    <3> QED
        BY <3>1, OwedTyped DEF BillingInv
  <2>4. t = s - NotYetOwed(i, u) + NotYetOwed(i, u)'
      BY <1>10, <1>11, <2>1, <2>2, <2>3, WaitingMoves DEF BillingInv
  <2>5. NotYetOwed(i, u)' = 0
      BY <1>2, <1>11 DEF NotYetOwed
  <2>6. outstanding[u] + unadded[u] + s = TotalDue(u)
      BY <2>1 DEF BillingInv, OutstandingIsDue
  <2>7. TotalDue(u)' = TotalDue(u)
      BY <1>4 DEF TotalDue
  <2>8. s \in Int
    <3>1. PICK f : f = [j \in Callers |-> NotYetOwed(j, u)]
        OBVIOUS
    <3>2. \A j \in Callers : f[j] \in Int
        BY <2>3, <3>1
    <3>3. IsFiniteSet(Callers)
        BY BillingAssumption
    <3> QED
        BY <2>1, <3>1, <3>2, <3>3, SumInt
  <2>9. outstanding[u] \in Int /\ unadded[u] \in Int
      BY DEF BillingInv, BillingTypeOK
  <2>10. outstanding'[u] + unadded'[u] + t = TotalDue(u)'
      BY <1>4, <1>7, <1>8, <2>4, <2>5, <2>6, <2>7, <2>8, <2>9
  <2> QED
      BY <2>2, <2>10
<1>13. OutstandingIsDue'
    BY <1>12 DEF OutstandingIsDue
<1> QED
    BY <1>4, <1>6, <1>10, <1>13 DEF BillingInv, Cleared

(* A payment settles a bill that is chased: nothing else has dues.         *)
LEMMA SettleStep ==
    ASSUME BillingInv, NEW v \in Units, NEW p \in Periods, SettleBill(v, p)
    PROVE  BillingInv'
<1>1. PICK b : b = [bill[v][p] EXCEPT !.due = 0, !.status = "PAID"]
    OBVIOUS
<1>2. bill[v][p] \in Bill
    BY BillsTyped DEF BillingInv
<1>3. b \in Bill /\ b.status = "PAID" /\ b.due = 0
    BY <1>1, <1>2 DEF Bill
<1>4. bill \in [Units -> [Periods -> Bill]]
    BY DEF BillingInv, BillingTypeOK
<1>5. bill' = [bill EXCEPT ![v][p] = b]
    BY <1>1, <1>2, <1>4 DEF SettleBill, Bill
<1>6. \A w \in Units, m \in Periods : bill'[w][m] = IF w = v /\ m = p THEN b ELSE bill[w][m]
    BY <1>4, <1>5
<1>7. bill' \in [Units -> [Periods -> Bill]]
  <2>1. b \in Bill
      BY <1>3
  <2>2. [bill[v] EXCEPT ![p] = b] \in [Periods -> Bill]
      BY <1>4, <2>1
  <2> QED
      BY <1>4, <1>5, <2>2
<1>8. /\ UNCHANGED <<req, served, dropped, unadded>>
      /\ outstanding' = [outstanding EXCEPT ![v] = @ - bill[v][p].due]
      /\ bill[v][p].due > 0
    BY DEF SettleBill
<1>9. outstanding' \in [Units -> Int] /\ bill[v][p].due \in Nat
    BY <1>2, <1>8 DEF BillingInv, BillingTypeOK, Bill
<1>10. BillingTypeOK'
    BY <1>7, <1>8, <1>9 DEF BillingInv, BillingTypeOK
<1>11. Cleared'
    BY <1>3, <1>6 DEF BillingInv, Cleared
<1>12. Kept
    BY <1>3, <1>6 DEF Kept, Raised
<1>13. ASSUME NEW j \in Callers PROVE Held(req[j])' /\ Covering(req[j])'
  <2>1. PICK q : q = req[j]
      OBVIOUS
  <2>2. q \in Serving /\ Held(q) /\ Covering(q) /\ req'[j] = q
      BY <1>8, <2>1 DEF BillingInv, BillingTypeOK
  <2>3. q.scope \subseteq Units /\ (q.scope # {} => q.p \in Periods)
      BY <2>2 DEF Serving, Held, Covering
  <2>4. q.pc \in Waiting => q.u \in Units
      BY <2>2 DEF Held, WithUnit, Waiting
  <2>5. ASSUME q.scope # {} PROVE Covering(q)'
    <3>1. \A u \in q.scope : Covered(q, u)'
        BY <1>12, <2>2, <2>3, <2>5 DEF Covering, Covered, Kept, Subtotal
    <3>2. q.pc \in Waiting => Raised(q.u, q.p)'
        BY <1>12, <2>2, <2>3, <2>4, <2>5 DEF Covering, Kept
    <3> QED
        BY <2>2, <2>5, <3>1, <3>2 DEF Covering
  <2> QED
      BY <2>2, <2>5 DEF Held, Covering, Covered
<1>14. ASSUME NEW u \in Units
       PROVE  outstanding'[u] + unadded'[u]
                + SumFunctionOnSet([j \in Callers |-> NotYetOwed(j, u)'], Callers) = TotalDue(u)'
  <2>1. PICK s : s = SumFunctionOnSet([j \in Callers |-> NotYetOwed(j, u)], Callers)
      OBVIOUS
  <2>2. SumFunctionOnSet([j \in Callers |-> NotYetOwed(j, u)'], Callers) = s
      BY <1>8, <2>1 DEF NotYetOwed
  <2>3. outstanding[u] + unadded[u] + s = TotalDue(u)
      BY <2>1 DEF BillingInv, OutstandingIsDue
  <2>4. TotalDue(u)' = IF u = v THEN TotalDue(u) - DueOf(u, p) + DueOf(u, p)' ELSE TotalDue(u)
      BY <1>6, <1>10, TotalDueMoves DEF BillingInv
  <2>5. u = v => DueOf(u, p)' = 0
      BY <1>3, <1>6 DEF DueOf
  <2>6. u = v => DueOf(u, p) = bill[v][p].due
    <3>1. bill[v][p].status \notin {"NONE", "PAID"}
        BY <1>8 DEF BillingInv, Cleared
    <3> QED
        BY <1>2, <3>1 DEF DueOf, Chased, Carried, Bill
  <2>7. outstanding'[u] = IF u = v THEN outstanding[u] - bill[v][p].due ELSE outstanding[u]
      BY <1>8 DEF BillingInv, BillingTypeOK
  <2>8. outstanding[u] \in Int /\ unadded[u] \in Int /\ s \in Int
    <3>1. PICK f : f = [j \in Callers |-> NotYetOwed(j, u)]
        OBVIOUS
    <3>2. \A j \in Callers : f[j] \in Int
        BY <3>1, OwedTyped DEF BillingInv
    <3>3. IsFiniteSet(Callers)
        BY BillingAssumption
    <3>4. s \in Int
        BY <2>1, <3>1, <3>2, <3>3, SumInt
    <3> QED
        BY <3>4 DEF BillingInv, BillingTypeOK
  <2>9. unadded'[u] = unadded[u]
      BY <1>8
  <2> QED
      BY <1>9, <2>2, <2>3, <2>4, <2>5, <2>6, <2>7, <2>8, <2>9
<1>15. OutstandingIsDue'
    BY <1>14 DEF OutstandingIsDue
<1> QED
    BY <1>10, <1>11, <1>13, <1>15 DEF BillingInv

LEMMA BillingStarts == BillingInit => BillingInv
<1> SUFFICES ASSUME BillingInit PROVE BillingInv
    OBVIOUS
<1>1. FirstPeriod \in Periods
  <2>1. IsFiniteSet(Periods) /\ Periods # {} /\ Periods \subseteq Nat
      BY BillingAssumption
  <2>2. \E p \in Periods : \A q \in Periods : p <= q
    <3>1. PICK R : R = {ss \in Nat \X Nat : ss[1] < ss[2]}
        OBVIOUS
    <3>2. IsWellFoundedOn(R, Nat)
        BY <3>1, NatLessThanWellFounded DEF OpToRel
    <3>3. PICK p \in Periods : \A q \in Periods : ~(<<q, p>> \in R)
        BY <2>1, <3>2, WFMin
    <3>4. \A q \in Periods : ~(q < p)
        BY <2>1, <3>1, <3>3
    <3> QED
        BY <2>1, <3>4
  <2> QED
      BY <2>2 DEF FirstPeriod
<1>2. PICK earlier \in [Units -> {"NONE", "SENT", "DISPUTED"}] :
          bill = [u \in Units |-> [p \in Periods |->
                    IF p = FirstPeriod /\ earlier[u] # "NONE"
                      THEN Billed(u, earlier[u]) ELSE NoBill]]
    BY DEF BillingInit
<1>3. ASSUME NEW u \in Units, NEW s \in {"SENT", "DISPUTED"}
      PROVE  Billed(u, s) \in Bill /\ Billed(u, s).status = s
  <2>1. PICK charge : charge = SumFunctionOnSet(Rates[u], Heads)
      OBVIOUS
  <2>2. charge \in Nat
      BY <2>1, SubtotalNat DEF Subtotal
  <2>3. PICK b : b = NoBill
      OBVIOUS
  <2>4. b \in Bill
      BY <2>3, NoBillIs
  <2>5. Billed(u, s) = [b EXCEPT !.status = s, !.charge = charge, !.due = charge]
      BY <2>1, <2>3 DEF Billed
  <2> QED
      BY <2>2, <2>4, <2>5 DEF Bill
<1>4. ASSUME NEW u \in Units, NEW p \in Periods
      PROVE  /\ bill[u][p] \in Bill
             /\ bill[u][p].status \in {"NONE", "PAID"} => bill[u][p].due = 0
             /\ p # FirstPeriod => bill[u][p].due = 0
             /\ bill[u][p].status # "PAID"
  <2>1. CASE p = FirstPeriod /\ earlier[u] # "NONE"
    <3>1. bill[u][p] = Billed(u, earlier[u]) /\ earlier[u] \in {"SENT", "DISPUTED"}
        BY <1>2, <2>1
    <3> QED
        BY <1>3, <2>1, <3>1
  <2>2. CASE ~(p = FirstPeriod /\ earlier[u] # "NONE")
    <3>1. bill[u][p] = NoBill
        BY <1>2, <2>2
    <3> QED
        BY <3>1, NoBillIs DEF NoBill
  <2> QED
      BY <2>1, <2>2
<1>5. bill \in [Units -> [Periods -> Bill]]
    BY <1>2, <1>4
<1>6. /\ outstanding = [u \in Units |-> bill[u][FirstPeriod].due]
      /\ req = [i \in Callers |-> NoRequest] /\ served = 0 /\ dropped = 0
      /\ unadded = [u \in Units |-> 0]
    BY DEF BillingInit
<1>7. outstanding \in [Units -> Int]
    BY <1>1, <1>4, <1>6 DEF Bill
<1>8. BillingTypeOK
    BY <1>5, <1>6, <1>7, NoBillIs, BillingAssumption DEF BillingTypeOK
<1>9. \A i \in Callers : Held(req[i]) /\ Covering(req[i])
    BY <1>6, NoBillIs DEF Fits
<1>10. Cleared
    BY <1>4 DEF Cleared
<1>11. ASSUME NEW u \in Units
       PROVE  outstanding[u] + unadded[u]
                + SumFunctionOnSet([i \in Callers |-> NotYetOwed(i, u)], Callers) = TotalDue(u)
  <2>1. SumFunctionOnSet([i \in Callers |-> NotYetOwed(i, u)], Callers) = 0
    <3>1. PICK f : f = [i \in Callers |-> NotYetOwed(i, u)]
        OBVIOUS
    <3>2. \A i \in Callers : f[i] = 0
        BY <1>6, <3>1 DEF NotYetOwed, NoRequest
    <3>3. IsFiniteSet(Callers)
        BY BillingAssumption
    <3> QED
        BY <3>1, <3>2, <3>3, SumNothing
  <2>2. PICK d : d = [p \in Periods |-> DueOf(u, p)]
      OBVIOUS
  <2>3. PICK z : z = [p \in Periods |-> 0]
      OBVIOUS
  <2>4. \A p \in Periods : d[p] \in Int /\ z[p] \in Int
      BY <1>8, <2>2, <2>3, BillsTyped
  <2>5. \A p \in Periods \ {FirstPeriod} : d[p] = z[p]
      BY <1>4, <2>2, <2>3 DEF DueOf
  <2>6. IsFiniteSet(Periods)
      BY BillingAssumption
  <2>7. SumFunctionOnSet(z, Periods) = 0
      BY <2>3, <2>6, SumNothing
  <2>8. SumFunctionOnSet(d, Periods)
          = SumFunctionOnSet(z, Periods) - z[FirstPeriod] + d[FirstPeriod]
      BY <1>1, <2>4, <2>5, <2>6, SumMove
  <2>9. d[FirstPeriod] = bill[u][FirstPeriod].due
    <3>1. bill[u][FirstPeriod] \in Bill
        BY <1>1, <1>4
    <3>2. bill[u][FirstPeriod].status = "NONE" => bill[u][FirstPeriod].due = 0
        BY <1>1, <1>4
    <3>3. bill[u][FirstPeriod].status # "PAID"
        BY <1>1, <1>4
    <3> QED
        BY <1>1, <2>2, <3>1, <3>2, <3>3 DEF DueOf, Chased, Carried, Bill
  <2>10. TotalDue(u) = SumFunctionOnSet(d, Periods)
      BY <2>2, TotalIs
  <2>11. outstanding[u] = bill[u][FirstPeriod].due /\ unadded[u] = 0 /\ z[FirstPeriod] = 0
      BY <1>1, <1>6, <2>3
  <2>12. bill[u][FirstPeriod].due \in Int
      BY <1>1, <1>4 DEF Bill
  <2> QED
      BY <2>1, <2>7, <2>8, <2>9, <2>10, <2>11, <2>12
<1> QED
    BY <1>8, <1>9, <1>10, <1>11 DEF BillingInv, OutstandingIsDue

LEMMA BillingSteady == BillingInv /\ [BillingNext]_billingVars => BillingInv'
<1> SUFFICES ASSUME BillingInv, [BillingNext]_billingVars PROVE BillingInv'
    OBVIOUS
<1>1. CASE UNCHANGED billingVars
  <2>1. UNCHANGED <<bill, outstanding, req, served, dropped, unadded>>
      BY <1>1 DEF billingVars
  <2>2. BillingTypeOK' /\ Cleared'
      BY <2>1 DEF BillingInv, BillingTypeOK, Cleared
  <2>3. \A i \in Callers : Held(req[i])' /\ Covering(req[i])'
      BY <2>1 DEF BillingInv, Held, Covering, Covered, Raised
  <2>4. OutstandingIsDue'
      BY <2>1 DEF BillingInv, OutstandingIsDue, NotYetOwed, TotalDue
  <2> QED
      BY <2>2, <2>3, <2>4 DEF BillingInv
<1>2. ASSUME NEW u \in Units, NEW p \in Periods, SettleBill(u, p) PROVE BillingInv'
    BY <1>2, SettleStep
<1>3. ASSUME NEW i \in Callers, Ask(i) PROVE BillingInv'
  <2>1. ASSUME NEW p \in Periods, NEW scope \in Scopes, NEW option \in Runs,
               Generate(i, p, scope, option)
        PROVE  BillingInv'
      BY <2>1, GenerateStep
  <2>2. ASSUME NEW u \in Units, NEW p \in Periods, NEW send \in BOOLEAN,
               CreateRead(i, u, p, Heads, send)
        PROVE  BillingInv'
      BY <2>2, CreateReadStep
  <2>3. ASSUME NEW u \in Units, NEW p \in Periods, Send(i, u, p) \/ Dispute(i, u, p)
        PROVE  BillingInv'
      BY <2>3, SendStep
  <2> QED
      BY <1>3, <2>1, <2>2, <2>3 DEF Ask
<1>4. ASSUME NEW i \in Callers, Proceed(i) PROVE BillingInv'
  <2>1. ASSUME NEW u \in Units, Check(i, u) \/ SendRead(i, u) PROVE BillingInv'
      BY <2>1, CheckStep, SendReadStep
  <2>2. CASE ReadArrears(i) \/ Create(i) \/ Accrue(i) \/ Owe(i) \/ EndRun(i)
      BY <2>2, ReadArrearsStep, CreateStep, AccrueStep, OweStep, EndRunStep
  <2>3. CASE SendWrite(i) \/ SendEnd(i) \/ DisputeWrite(i)
      BY <2>3, SendWriteStep, SendEndStep, DisputeWriteStep
  <2> QED
      BY <1>4, <2>1, <2>2, <2>3 DEF Proceed
<1>5. ASSUME NEW i \in Callers, Drop(i) PROVE BillingInv'
    BY <1>5, DropStep
<1> QED
    BY <1>1, <1>2, <1>3, <1>4, <1>5 DEF BillingNext

LEMMA BillingInvariant == BillingSpec => []BillingInv
<1> QED
    BY BillingStarts, BillingSteady, PTL DEF BillingSpec

(* Every bill, amount and request of Billing has its type, for any units,  *)
(* months, rates and requests at once.                                     *)
THEOREM BillingTypeCorrect == BillingSpec => []BillingTypeOK
<1>1. BillingInv => BillingTypeOK
    BY DEF BillingInv
<1> QED
    BY <1>1, BillingInvariant, PTL

(* The running amount of a unit is what its chased bills have due, less    *)
(* what is in the making or was never added, for any units, months, rates  *)
(* and requests at once.                                                   *)
THEOREM OutstandingIsDueCorrect == BillingSpec => []OutstandingIsDue
<1>1. BillingInv => OutstandingIsDue
    BY DEF BillingInv
<1> QED
    BY <1>1, BillingInvariant, PTL

(* What a step makes of the requests: it moves one, and a run that is at   *)
(* its loop, or at one of its units, stays.                                *)
LEMMA RunStays ==
    ASSUME BillingInv, NEW i \in Callers, Proceed(i), req[i].scope # {},
           req[i].pc \in {"check", "arrears", "create", "owe"},
           req[i].todo # {}
    PROVE  req'[i].pc # "idle"
<1>1. PICK q : q = req[i]
    OBVIOUS
<1>2. q \in Serving /\ q.draft.mode = "BULK" /\ req \in [Callers -> Serving]
    BY <1>1 DEF BillingInv, BillingTypeOK, Covering
<1>3. ~ByHand(i)
    BY <1>1, <1>2 DEF ByHand
<1>4. \A billed : NextUnit(i, billed) => req'[i].pc = "check"
    BY <1>2 DEF NextUnit, Serving
<1>5. ASSUME NEW u \in Units, Check(i, u) PROVE req'[i].pc # "idle"
  <2>1. PICK r : r = IF Raised(u, q.p) THEN [q EXCEPT !.todo = @ \ {u}]
                                       ELSE [q EXCEPT !.pc = "arrears", !.u = u]
      OBVIOUS
  <2>2. req' = [req EXCEPT ![i] = r] /\ q.pc = "check"
      BY <1>1, <1>2, <1>5, <2>1 DEF Check, Doing, Serving
  <2>3. r.pc # "idle"
      BY <1>2, <2>1, <2>2 DEF Serving
  <2> QED
      BY <1>2, <2>2, <2>3
<1>6. CASE ReadArrears(i)
  <2>1. CASE NextUnit(i, {})
      BY <1>4, <2>1
  <2>2. CASE ~NextUnit(i, {})
    <3>1. req' = [req EXCEPT ![i].pc = "create", ![i].draft = Draft(i, req[i].draft.mode)]
        BY <1>3, <1>6, <2>2 DEF ReadArrears
    <3> QED
        BY <1>2, <3>1 DEF Serving
  <2> QED
      BY <2>1, <2>2
<1>7. CASE Create(i)
  <2>1. CASE NextUnit(i, {})
      BY <1>4, <2>1
  <2>2. CASE ~NextUnit(i, {})
    <3>1. Then(i, "owe")
        BY <1>3, <1>7, <2>2 DEF Create, Refused
    <3> QED
        BY <1>2, <3>1 DEF Then, Serving
  <2> QED
      BY <2>1, <2>2
<1>8. CASE Owe(i)
    BY <1>3, <1>4, <1>8 DEF Owe
<1>9. ~Accrue(i) /\ ~EndRun(i) /\ ~SendWrite(i) /\ ~SendEnd(i) /\ ~DisputeWrite(i)
      /\ \A u \in Units : ~SendRead(i, u)
    BY DEF Accrue, EndRun, SendWrite, SendEnd, DisputeWrite, SendRead, Doing
<1> QED
    BY <1>5, <1>6, <1>7, <1>8, <1>9 DEF Proceed

LEMMA OthersStay ==
    ASSUME BillingInv, NEW i \in Callers, NEW j \in Callers, i # j,
           Ask(j) \/ Proceed(j) \/ Drop(j)
    PROVE  req'[i] = req[i]
<1>1. \A r : req' = [req EXCEPT ![j] = r] => req'[i] = req[i]
    BY DEF BillingInv, BillingTypeOK
<1>2. CASE Ask(j) \/ Drop(j)
    BY <1>1, <1>2 DEF Ask, Drop, Generate, CreateRead, Send, Dispute, Accept, Reply
<1>3. CASE Proceed(j)
  <2>1. Reply(j) => req'[i] = req[i]
      BY <1>1 DEF Reply
  <2>2. \A s : Then(j, s) => req'[i] = req[i]
      BY DEF Then, BillingInv, BillingTypeOK
  <2>3. \A s : NextUnit(j, s) => req'[i] = req[i]
      BY DEF NextUnit, BillingInv, BillingTypeOK
  <2>4. ASSUME NEW u \in Units, Check(j, u) \/ SendRead(j, u) PROVE req'[i] = req[i]
      BY <2>4 DEF Check, SendRead, BillingInv, BillingTypeOK
  <2>5. CASE ReadArrears(j)
    <3>1. req' = [req EXCEPT ![j].pc = "create", ![j].draft = Draft(j, req[j].draft.mode)]
            => req'[i] = req[i]
        BY DEF BillingInv, BillingTypeOK
    <3> QED
        BY <2>1, <2>3, <2>5, <3>1 DEF ReadArrears
  <2>6. CASE EndRun(j)
    <3>1. req' = [req EXCEPT ![j].pc = "send", ![j].todo = req[j].billed] => req'[i] = req[i]
        BY DEF BillingInv, BillingTypeOK
    <3> QED
        BY <2>1, <2>6, <3>1 DEF EndRun
  <2>7. CASE Create(j) \/ Accrue(j) \/ Owe(j) \/ SendWrite(j) \/ SendEnd(j) \/ DisputeWrite(j)
      BY <2>1, <2>2, <2>3, <2>7
      DEF Create, Refused, Accrue, Owe, SendWrite, SendEnd, DisputeWrite
  <2> QED
      BY <1>3, <2>4, <2>5, <2>6, <2>7 DEF Proceed
<1> QED
    BY <1>2, <1>3

LEMMA RunEnds ==
    ASSUME BillingInv, NEW i \in Callers, [BillingNext]_billingVars,
           req[i].scope # {}, req'[i] = NoRequest, dropped' = dropped
    PROVE  req[i].todo = {} \/ req[i].pc \notin {"check", "arrears", "create", "owe"}
<1>1. req[i].pc # "idle" /\ NoRequest.pc = "idle"
    BY DEF BillingInv, Covering, NoRequest
<1>2. ASSUME NEW j \in Callers, Ask(j) \/ Proceed(j) \/ Drop(j)
      PROVE  req[i].todo = {} \/ req[i].pc \notin {"check", "arrears", "create", "owe"}
  <2>1. CASE i # j
      BY <1>1, <1>2, <2>1, OthersStay
  <2>2. CASE i = j
    <3>1. ~Ask(i)
        BY <1>1 DEF Ask, Generate, CreateRead, Send, Dispute, Accept
    <3>2. ~Drop(i)
        BY DEF Drop, BillingInv, BillingTypeOK
    <3>3. Proceed(i)
        BY <1>2, <2>2, <3>1, <3>2
    <3> QED
        BY <1>1, <3>3, RunStays
  <2> QED
      BY <2>1, <2>2
<1>3. req' # req
    BY <1>1
<1> QED
    BY <1>2, <1>3 DEF BillingNext, SettleBill, billingVars

(* A run that comes to its end has left no unit of its scope unbilled that *)
(* had something to be billed for, whoever else was billing the month.     *)
THEOREM RunCoversCorrect == BillingSpec => RunCovers
<1>1. BillingInv /\ [BillingNext]_billingVars
        => [\A i \in Callers :
              req[i].scope # {} /\ ~req[i].option.dry /\ req'[i] = NoRequest /\ dropped' = dropped =>
                \A u \in req[i].scope :
                    Subtotal(u, req[i].option.heads) > 0 => Raised(u, req[i].p)]_billingVars
  <2> SUFFICES ASSUME BillingInv, [BillingNext]_billingVars, NEW i \in Callers,
                      req[i].scope # {}, ~req[i].option.dry, req'[i] = NoRequest,
                      dropped' = dropped, NEW u \in req[i].scope,
                      Subtotal(u, req[i].option.heads) > 0
               PROVE  Raised(u, req[i].p)
      OBVIOUS
  <2>1. Covered(req[i], u)
      BY DEF BillingInv, Covering
  <2>2. req[i].todo = {} \/ req[i].pc \notin {"check", "arrears", "create", "owe"}
      BY RunEnds
  <2>3. Subtotal(u, req[i].option.heads) # 0
    <3>1. \A n : n > 0 /\ n = 0 => FALSE
        OBVIOUS
    <3> QED
        BY <3>1
  <2> QED
      BY <2>1, <2>2, <2>3 DEF Covered
<1> QED
    BY <1>1, BillingInvariant, PTL DEF BillingSpec, RunCovers

-----------------------------------------------------------------------------
(* THE DAILY RUN                                                           *)

(* What the proofs need to know of the calls under way.  A token belongs   *)
(* to one call; the row of a day names at most one; whoever works on a day *)
(* is named by its row, and whoever only claims it is not yet.             *)
UnderWay(i) == call[i].pc # "idle"
AtWork(i) == call[i].pc \notin {"idle", "claim"}

TokensIssued ==
    /\ \A i \in Replicas : UnderWay(i) => call[i].token \in 1..calls
    /\ \A d \in Days : run[d].claimId <= calls

TokensApart ==
    \A i, j \in Replicas :
        UnderWay(i) /\ UnderWay(j) /\ call[i].token = call[j].token => i = j

RowNamesWorker ==
    \A i \in Replicas :
        /\ AtWork(i) => run[call[i].day].claimId = call[i].token
        /\ call[i].pc = "claim" => \A d \in Days : run[d].claimId # call[i].token

(* A row without a token, or with a token whose call has yet to sweep, is  *)
(* the row of a day that was not swept.                                    *)
Unswept ==
    /\ \A d \in Days : run[d].status = "NONE" => run[d].claimId = 0
    /\ \A d \in Days : run[d].claimId = 0 => fees[d] = 0
    /\ \A i \in Replicas : call[i].pc = "fees" => fees[call[i].day] = 0

JobsDone ==
    \A i \in Replicas :
        /\ call[i].pc = "reminders" => "fees" \in done[call[i].day]
        /\ call[i].pc = "completed" => done[call[i].day] = {"fees", "reminders"}

DailyInv ==
    /\ DailyTypeOK
    /\ TokensIssued
    /\ TokensApart
    /\ RowNamesWorker
    /\ Unswept
    /\ JobsDone
    /\ AtMostOncePerDay
    /\ OutcomeIsTrue

-----------------------------------------------------------------------------
(* Typing is inductive by itself.                                          *)

LEMMA DailyTypeInit == DailyInit => DailyTypeOK
<1> SUFFICES ASSUME DailyInit PROVE DailyTypeOK
    OBVIOUS
<1> USE DailyRunAssumption
<1>1. run \in [Days -> [status : RunStatus, claimId : Nat]]
    BY DEF DailyInit, NoRun, RunStatus
<1>2. /\ call \in [Replicas -> Call]
      /\ \A i \in Replicas : call[i].pc = "idle"
    BY DEF DailyInit, NoCall, Call, CallSteps
<1>3. today \in 0..LastDay /\ calls \in 0..MaxCalls
    BY DEF DailyInit
<1>4. fees \in [Days -> Nat] /\ done \in [Days -> SUBSET {"fees", "reminders"}]
    BY DEF DailyInit
<1> QED
    BY <1>1, <1>2, <1>3, <1>4 DEF DailyInit, DailyTypeOK

(* A call that goes on to another step of its day keeps its type.          *)
LEMMA CallStepTyped ==
    ASSUME DailyTypeOK, NEW i \in Replicas, UnderWay(i), NEW next \in CallSteps
    PROVE  LET new == [call EXCEPT ![i].pc = next] IN
             /\ new \in [Replicas -> Call]
             /\ \A j \in Replicas : new[j].pc # "idle" => new[j].day \in Days
             /\ new[i] = [pc |-> next, day |-> call[i].day, token |-> call[i].token]
             /\ \A j \in Replicas \ {i} : new[j] = call[j]
<1> DEFINE new == [call EXCEPT ![i].pc = next]
<1>1. new[i] = [pc |-> next, day |-> call[i].day, token |-> call[i].token]
    BY DEF DailyTypeOK, Call
<1>2. \A j \in Replicas \ {i} : new[j] = call[j]
    BY DEF DailyTypeOK
<1>3. new \in [Replicas -> Call]
    BY <1>1, <1>2 DEF DailyTypeOK, Call
<1>4. \A j \in Replicas : new[j].pc # "idle" => new[j].day \in Days
    BY <1>1, <1>2 DEF DailyTypeOK, UnderWay
<1> QED
    BY <1>1, <1>2, <1>3, <1>4

(* So does one that ends, or starts on a day.                              *)
LEMMA CallReplaced ==
    ASSUME DailyTypeOK, NEW i \in Replicas, NEW c \in Call, c.pc # "idle" => c.day \in Days
    PROVE  LET new == [call EXCEPT ![i] = c] IN
             /\ new \in [Replicas -> Call]
             /\ \A j \in Replicas : new[j].pc # "idle" => new[j].day \in Days
             /\ new[i] = c
             /\ \A j \in Replicas \ {i} : new[j] = call[j]
    BY DEF DailyTypeOK

LEMMA IdleTyped == NoCall \in Call /\ NoCall.pc = "idle"
    BY DailyRunAssumption DEF NoCall, Call, CallSteps

LEMMA UpsertedTyped ==
    ASSUME DailyTypeOK, NEW i \in Replicas, UnderWay(i)
    PROVE  Upserted(i) \in [status : RunStatus, claimId : Nat]
    BY DEF DailyTypeOK, UnderWay, Upserted, Call, RunStatus

LEMMA DailyTypeNext == DailyTypeOK /\ [DailyNext]_dailyVars => DailyTypeOK'
<1> SUFFICES ASSUME DailyTypeOK, [DailyNext]_dailyVars PROVE DailyTypeOK'
    OBVIOUS
<1> USE DailyRunAssumption
<1>1. CASE Midnight
  <2>1. today' \in 0..LastDay
      BY <1>1 DEF Midnight, DailyTypeOK
  <2> QED
      BY <1>1, <2>1 DEF Midnight, DailyTypeOK
<1>2. CASE Hour
    BY <1>2 DEF Hour, DailyTypeOK, Days
<1>3. ASSUME NEW i \in Replicas, Tick(i) PROVE DailyTypeOK'
  <2> DEFINE c == [pc |-> "claim", day |-> today, token |-> calls + 1]
  <2>1. calls' \in 0..MaxCalls
      BY <1>3 DEF Tick, DailyTypeOK
  <2>2. c \in Call
      BY <1>3 DEF Tick, DailyTypeOK, Call, CallSteps
  <2>3. c.day \in Days
      BY <1>3 DEF Tick, DailyTypeOK, Days
  <2>4. call' = [call EXCEPT ![i] = c]
      BY <1>3 DEF Tick
  <2> HIDE DEF c
  <2>5. /\ call' \in [Replicas -> Call]
        /\ \A j \in Replicas : call'[j].pc # "idle" => call'[j].day \in Days
      BY <2>2, <2>3, <2>4, CallReplaced
  <2> QED
      BY <1>3, <2>1, <2>5 DEF Tick, DailyTypeOK
<1>4. ASSUME NEW i \in Replicas, Claim(i) PROVE DailyTypeOK'
  <2> DEFINE c == IF Won(i) THEN [call[i] EXCEPT !.pc = "fees"] ELSE NoCall
  <2>1. UnderWay(i)
      BY <1>4 DEF Claim, UnderWay
  <2>2. run' \in [Days -> [status : RunStatus, claimId : Nat]]
      BY <1>4, <2>1, UpsertedTyped DEF Claim, DailyTypeOK, UnderWay
  <2>3. c \in Call
      BY <2>1, IdleTyped DEF DailyTypeOK, Call, CallSteps
  <2>4. c.pc # "idle" => c.day \in Days
      BY <2>1, IdleTyped DEF DailyTypeOK, UnderWay, Call
  <2>5. call' = [call EXCEPT ![i] = c]
      BY <1>4 DEF Claim
  <2> HIDE DEF c
  <2>6. /\ call' \in [Replicas -> Call]
        /\ \A j \in Replicas : call'[j].pc # "idle" => call'[j].day \in Days
      BY <2>3, <2>4, <2>5, CallReplaced
  <2> QED
      BY <1>4, <2>2, <2>6 DEF Claim, DailyTypeOK
<1>5. ASSUME NEW i \in Replicas, LateFees(i) PROVE DailyTypeOK'
  <2>1. UnderWay(i)
      BY <1>5 DEF LateFees, UnderWay
  <2>2. fees' \in [Days -> Nat]
      BY <1>5 DEF LateFees, DailyTypeOK
  <2>3. done' \in [Days -> SUBSET {"fees", "reminders"}]
      BY <1>5 DEF LateFees, Goes, DailyTypeOK
  <2>4. PICK next \in CallSteps : call' = [call EXCEPT ![i].pc = next]
      BY <1>5 DEF LateFees, Goes, CallSteps
  <2>5. /\ call' \in [Replicas -> Call]
        /\ \A j \in Replicas : call'[j].pc # "idle" => call'[j].day \in Days
      BY <2>1, <2>4, CallStepTyped
  <2> QED
      BY <1>5, <2>2, <2>3, <2>5 DEF LateFees, DailyTypeOK
<1>6. ASSUME NEW i \in Replicas, Reminders(i) PROVE DailyTypeOK'
  <2>1. UnderWay(i)
      BY <1>6 DEF Reminders, UnderWay
  <2>3. done' \in [Days -> SUBSET {"fees", "reminders"}]
      BY <1>6 DEF Reminders, Goes, DailyTypeOK
  <2>4. PICK next \in CallSteps : call' = [call EXCEPT ![i].pc = next]
      BY <1>6 DEF Reminders, Goes, CallSteps
  <2>5. /\ call' \in [Replicas -> Call]
        /\ \A j \in Replicas : call'[j].pc # "idle" => call'[j].day \in Days
      BY <2>1, <2>4, CallStepTyped
  <2> QED
      BY <1>6, <2>3, <2>5 DEF Reminders, DailyTypeOK
<1>7. ASSUME NEW i \in Replicas, Record(i) PROVE DailyTypeOK'
  <2>1. run' \in [Days -> [status : RunStatus, claimId : Nat]]
      BY <1>7 DEF Record, Outcome, RunStatus, DailyTypeOK
  <2>2. failures' \in Nat
      BY <1>7 DEF Record, DailyTypeOK
  <2>3. /\ call' \in [Replicas -> Call]
        /\ \A j \in Replicas : call'[j].pc # "idle" => call'[j].day \in Days
      BY <1>7, IdleTyped, CallReplaced DEF Record
  <2> QED
      BY <1>7, <2>1, <2>2, <2>3 DEF Record, DailyTypeOK
<1>8. ASSUME NEW i \in Replicas, Die(i) PROVE DailyTypeOK'
  <2>1. failures' \in Nat
      BY <1>8 DEF Die, DailyTypeOK
  <2>2. /\ call' \in [Replicas -> Call]
        /\ \A j \in Replicas : call'[j].pc # "idle" => call'[j].day \in Days
      BY <1>8, IdleTyped, CallReplaced DEF Die
  <2> QED
      BY <1>8, <2>1, <2>2 DEF Die, DailyTypeOK
<1>9. CASE UNCHANGED dailyVars
    BY <1>9 DEF dailyVars, DailyTypeOK
<1> QED
    BY <1>1, <1>2, <1>3, <1>4, <1>5, <1>6, <1>7, <1>8, <1>9 DEF DailyNext, Work

(* Whatever happens, the state keeps its shape: a call under way is always *)
(* about one of the days of the calendar (scheduler.ts 107-134).           *)
THEOREM DailyTypeCorrect == DailySpec => []DailyTypeOK
<1> QED
    BY DailyTypeInit, DailyTypeNext, PTL DEF DailySpec

-----------------------------------------------------------------------------
(* The invariant behind the two claims.  Its shape is one step per action, *)
(* each from what the action does to the call and to the row of its day.   *)

LEMMA DailyInvInit == DailyInit => DailyInv
<1> SUFFICES ASSUME DailyInit PROVE DailyInv
    OBVIOUS
<1>1. DailyTypeOK
    BY DailyTypeInit
<1>2. \A i \in Replicas : call[i].pc = "idle"
    BY DEF DailyInit, NoCall
<1>3. \A d \in Days : run[d].claimId = 0 /\ run[d].status = "NONE" /\ fees[d] = 0
    BY DEF DailyInit, NoRun
<1>4. calls = 0
    BY DEF DailyInit
<1>5. TokensIssued /\ TokensApart /\ RowNamesWorker
    BY <1>2, <1>3, <1>4 DEF TokensIssued, TokensApart, RowNamesWorker, UnderWay, AtWork
<1>6. Unswept /\ JobsDone /\ AtMostOncePerDay /\ OutcomeIsTrue
    BY <1>2, <1>3 DEF Unswept, JobsDone, AtMostOncePerDay, OutcomeIsTrue
<1> QED
    BY <1>1, <1>5, <1>6 DEF DailyInv

(* A step that moves the clock only.                                       *)
LEMMA DailyStutter ==
    ASSUME DailyInv, DailyTypeOK', UNCHANGED <<run, call, calls, fees, done>>
    PROVE  DailyInv'
<1>1. TokensIssued' /\ TokensApart' /\ RowNamesWorker'
    BY DEF DailyInv, TokensIssued, TokensApart, RowNamesWorker, UnderWay, AtWork
<1>2. Unswept' /\ JobsDone' /\ AtMostOncePerDay' /\ OutcomeIsTrue'
    BY DEF DailyInv, Unswept, JobsDone, AtMostOncePerDay, OutcomeIsTrue
<1> QED
    BY <1>1, <1>2 DEF DailyInv

(* A new call has a token that no call and no row has.                     *)
LEMMA TickStep ==
    ASSUME DailyInv, DailyTypeOK', NEW i \in Replicas, Tick(i)
    PROVE  DailyInv'
<1>1. /\ call'[i] = [pc |-> "claim", day |-> today, token |-> calls + 1]
      /\ \A j \in Replicas \ {i} : call'[j] = call[j]
    BY DEF DailyInv, DailyTypeOK, Tick
<1>2. calls \in Nat /\ calls' = calls + 1
    BY DailyRunAssumption DEF DailyInv, DailyTypeOK, Tick
<1>3. run' = run /\ fees' = fees /\ done' = done
    BY DEF Tick
<1>4. \A d \in Days : run[d].claimId \in Nat
    BY DEF DailyInv, DailyTypeOK
<1>5. TokensIssued'
    BY <1>1, <1>2, <1>3, <1>4 DEF DailyInv, TokensIssued, UnderWay
<1>6. TokensApart'
    BY <1>1, <1>2 DEF DailyInv, TokensIssued, TokensApart, UnderWay
<1>7. RowNamesWorker'
    BY <1>1, <1>2, <1>3, <1>4 DEF DailyInv, TokensIssued, RowNamesWorker, AtWork
<1>8. Unswept' /\ JobsDone'
    BY <1>1, <1>3 DEF DailyInv, Unswept, JobsDone
<1>9. AtMostOncePerDay' /\ OutcomeIsTrue'
    BY <1>3 DEF DailyInv, AtMostOncePerDay, OutcomeIsTrue
<1> QED
    BY <1>5, <1>6, <1>7, <1>8, <1>9 DEF DailyInv

(* A call that leaves takes nothing with it.                               *)
LEMMA DieStep ==
    ASSUME DailyInv, DailyTypeOK', NEW i \in Replicas, call' = [call EXCEPT ![i] = NoCall],
           UNCHANGED <<run, calls, fees, done>>
    PROVE  DailyInv'
<1>1. /\ call'[i].pc = "idle"
      /\ \A j \in Replicas \ {i} : call'[j] = call[j]
    BY DEF DailyInv, DailyTypeOK, NoCall
<1>2. TokensIssued' /\ TokensApart' /\ RowNamesWorker'
    BY <1>1 DEF DailyInv, TokensIssued, TokensApart, RowNamesWorker, UnderWay, AtWork
<1>3. Unswept' /\ JobsDone'
    BY <1>1 DEF DailyInv, Unswept, JobsDone
<1>4. AtMostOncePerDay' /\ OutcomeIsTrue'
    BY DEF DailyInv, AtMostOncePerDay, OutcomeIsTrue
<1> QED
    BY <1>2, <1>3, <1>4 DEF DailyInv

(* The claim: the row is taken by somebody else, or was free and now names *)
(* this call, or was free and now names nobody.                            *)
LEMMA ClaimStep ==
    ASSUME DailyInv, DailyTypeOK', NEW i \in Replicas, Claim(i)
    PROVE  DailyInv'
<1> DEFINE d0 == call[i].day
           t  == call[i].token
<1>1. call[i].pc = "claim" /\ UnderWay(i) /\ d0 \in Days
    BY DEF Claim, UnderWay, DailyInv, DailyTypeOK
<1>2. t \in Nat \ {0} /\ calls \in Nat /\ t <= calls
    BY <1>1, DailyRunAssumption DEF DailyInv, TokensIssued, DailyTypeOK
<1>3. calls' = calls /\ fees' = fees /\ done' = done
    BY DEF Claim
<1>4. run'[d0] = Upserted(i) /\ \A d \in Days \ {d0} : run'[d] = run[d]
    BY <1>1 DEF Claim, DailyInv, DailyTypeOK
<1>5. \A d \in Days : run[d].claimId # t
    BY <1>1 DEF DailyInv, RowNamesWorker
<1>6. CASE run[d0].status # "NONE"
  <2>1. Upserted(i) = run[d0] /\ ~Won(i)
      BY <1>1, <1>5, <1>6 DEF Upserted, Won
  <2>2. run' = run
      BY <1>1, <2>1 DEF Claim, DailyInv, DailyTypeOK
  <2>3. call' = [call EXCEPT ![i] = NoCall]
      BY <2>1 DEF Claim
  <2> QED
      BY <1>3, <2>2, <2>3, DieStep
<1>7. CASE run[d0].status = "NONE" /\ StoresToken
  <2>1. Upserted(i) = [status |-> "RUNNING", claimId |-> t] /\ Won(i)
      BY <1>7 DEF Upserted, Won
  <2>2. run'[d0].status = "RUNNING" /\ run'[d0].claimId = t
      BY <1>4, <2>1
  <2>3. call'[i] = [pc |-> "fees", day |-> d0, token |-> t]
      BY <2>1 DEF Claim, DailyInv, DailyTypeOK, Call
  <2>4. \A j \in Replicas \ {i} : call'[j] = call[j]
      BY DEF Claim, DailyInv, DailyTypeOK
  <2>5. run[d0].claimId = 0 /\ fees[d0] = 0
      BY <1>1, <1>7 DEF DailyInv, Unswept
  <2>6. \A j \in Replicas : UnderWay(j) => call[j].token # 0
      BY <1>2 DEF DailyInv, TokensIssued
  <2>7. TokensIssued'
      BY <1>1, <1>2, <1>3, <1>4, <2>2, <2>3, <2>4 DEF DailyInv, TokensIssued, UnderWay
  <2>8. TokensApart'
      BY <1>1, <2>3, <2>4 DEF DailyInv, TokensApart, UnderWay
  <2>9. RowNamesWorker'
    <3>1. ASSUME NEW j \in Replicas \ {i}, AtWork(j)
          PROVE  run'[call[j].day].claimId = call[j].token
      <4>1. run[call[j].day].claimId = call[j].token /\ call[j].day \in Days
          BY <3>1 DEF DailyInv, RowNamesWorker, DailyTypeOK, AtWork
      <4>2. call[j].day # d0
          BY <4>1, <3>1, <2>5, <2>6 DEF UnderWay, AtWork
      <4> QED
          BY <4>1, <4>2, <1>4
    <3>2. ASSUME NEW j \in Replicas \ {i}, call[j].pc = "claim", NEW d \in Days
          PROVE  run'[d].claimId # call[j].token
      <4>1. call[j].token # t
          BY <1>1, <3>2 DEF DailyInv, TokensApart, UnderWay
      <4>2. run[d].claimId # call[j].token
          BY <3>2 DEF DailyInv, RowNamesWorker
      <4> QED
          BY <4>1, <4>2, <1>4, <2>2
    <3> QED
        BY <3>1, <3>2, <2>2, <2>3, <2>4 DEF RowNamesWorker, AtWork
  <2>10. Unswept'
      BY <1>2, <1>3, <1>4, <2>2, <2>3, <2>4, <2>5 DEF DailyInv, Unswept
  <2>11. JobsDone'
      BY <1>3, <2>3, <2>4 DEF DailyInv, JobsDone
  <2>12. AtMostOncePerDay' /\ OutcomeIsTrue'
      BY <1>3, <1>4, <2>2 DEF DailyInv, AtMostOncePerDay, OutcomeIsTrue
  <2> QED
      BY <2>7, <2>8, <2>9, <2>10, <2>11, <2>12 DEF DailyInv
<1>8. CASE run[d0].status = "NONE" /\ ~StoresToken
  <2>1. Upserted(i) = [status |-> "RUNNING", claimId |-> 0] /\ ~Won(i)
      BY <1>2, <1>8 DEF Upserted, Won
  <2>2. run'[d0].status = "RUNNING" /\ run'[d0].claimId = 0 /\ run[d0].claimId = 0
      BY <1>1, <1>4, <1>8, <2>1 DEF DailyInv, Unswept
  <2>3. \A d \in Days : run'[d].claimId = run[d].claimId
      BY <1>4, <2>2
  <2>4. /\ call'[i].pc = "idle"
        /\ \A j \in Replicas \ {i} : call'[j] = call[j]
      BY <2>1 DEF Claim, DailyInv, DailyTypeOK, NoCall
  <2>5. TokensIssued' /\ TokensApart'
      BY <1>3, <2>3, <2>4 DEF DailyInv, TokensIssued, TokensApart, UnderWay
  <2>6. RowNamesWorker'
      BY <2>3, <2>4 DEF DailyInv, RowNamesWorker, AtWork, DailyTypeOK
  <2>7. Unswept' /\ JobsDone'
      BY <1>3, <1>4, <2>2, <2>3, <2>4 DEF DailyInv, Unswept, JobsDone
  <2>8. AtMostOncePerDay' /\ OutcomeIsTrue'
      BY <1>3, <1>4, <2>2 DEF DailyInv, AtMostOncePerDay, OutcomeIsTrue
  <2> QED
      BY <2>5, <2>6, <2>7, <2>8 DEF DailyInv
<1> QED
    BY <1>6, <1>7, <1>8, DailyRunAssumption

(* Working on a day moves the call on and leaves the rows alone.           *)
LEMMA CallAdvanced ==
    ASSUME DailyInv, NEW i \in Replicas, AtWork(i), NEW next \in CallSteps,
           call' = [call EXCEPT ![i].pc = next],
           run' = run, calls' = calls, next \notin {"idle", "claim"}
    PROVE  /\ call'[i] = [pc |-> next, day |-> call[i].day, token |-> call[i].token]
           /\ \A j \in Replicas \ {i} : call'[j] = call[j]
           /\ TokensIssued' /\ TokensApart' /\ RowNamesWorker'
<1>1. DailyTypeOK /\ UnderWay(i)
    BY DEF DailyInv, AtWork, UnderWay
<1>2. /\ call'[i] = [pc |-> next, day |-> call[i].day, token |-> call[i].token]
      /\ \A j \in Replicas \ {i} : call'[j] = call[j]
    BY <1>1, CallStepTyped
<1>3. TokensIssued'
    BY <1>1, <1>2 DEF DailyInv, TokensIssued, UnderWay
<1>4. TokensApart'
    BY <1>1, <1>2 DEF DailyInv, TokensApart, UnderWay
<1>5. RowNamesWorker'
    BY <1>2 DEF DailyInv, RowNamesWorker, AtWork
<1> QED
    BY <1>2, <1>3, <1>4, <1>5

(* Two calls at work on a day are one: the row names them both.            *)
LEMMA OneWorker ==
    ASSUME DailyInv, NEW i \in Replicas, NEW j \in Replicas,
           AtWork(i), AtWork(j), call[i].day = call[j].day
    PROVE  i = j
    BY DEF DailyInv, RowNamesWorker, TokensApart, UnderWay, AtWork

LEMMA LateFeesStep ==
    ASSUME DailyInv, DailyTypeOK', NEW i \in Replicas, LateFees(i)
    PROVE  DailyInv'
<1> DEFINE d0 == call[i].day
<1>1. AtWork(i) /\ d0 \in Days
    BY DEF LateFees, AtWork, DailyInv, DailyTypeOK
<1>2. PICK next \in {"reminders", "failed"} :
          /\ call' = [call EXCEPT ![i].pc = next]
          /\ done' = IF next = "failed" THEN done ELSE [done EXCEPT ![d0] = @ \cup {"fees"}]
    BY DEF LateFees, Goes
<1>3. run' = run /\ calls' = calls /\ next \in CallSteps
    BY DEF LateFees, CallSteps
<1>4. /\ call'[i] = [pc |-> next, day |-> d0, token |-> call[i].token]
      /\ \A j \in Replicas \ {i} : call'[j] = call[j]
      /\ TokensIssued' /\ TokensApart' /\ RowNamesWorker'
    BY <1>1, <1>2, <1>3, CallAdvanced
<1>5. /\ fees[d0] = 0 /\ fees'[d0] = 1
      /\ \A d \in Days \ {d0} : fees'[d] = fees[d]
    BY <1>1 DEF LateFees, DailyInv, Unswept, DailyTypeOK
<1>6. \A d \in Days : done[d] \subseteq done'[d] /\ done'[d] \subseteq {"fees", "reminders"}
    BY <1>1, <1>2 DEF DailyInv, DailyTypeOK
<1>7. next = "reminders" => "fees" \in done'[d0]
    BY <1>1, <1>2 DEF DailyInv, DailyTypeOK
<1>8. run[d0].claimId # 0
  <2>1. run[d0].claimId = call[i].token
      BY <1>1 DEF DailyInv, RowNamesWorker
  <2>2. call[i].token \in 1..calls /\ calls \in Nat
      BY <1>1, DailyRunAssumption DEF DailyInv, TokensIssued, UnderWay, AtWork, DailyTypeOK
  <2> QED
      BY <2>1, <2>2
<1>9. Unswept'
  <2>1. ASSUME NEW j \in Replicas \ {i}, call[j].pc = "fees" PROVE fees'[call[j].day] = 0
    <3>1. call[j].day # d0
        BY <1>1, <2>1, OneWorker DEF AtWork
    <3>2. call[j].day \in Days /\ fees[call[j].day] = 0
        BY <2>1 DEF DailyInv, Unswept, DailyTypeOK
    <3> QED
        BY <3>1, <3>2, <1>5
  <2> QED
      BY <1>2, <1>3, <1>4, <1>5, <1>8, <2>1 DEF DailyInv, Unswept
<1>10. JobsDone'
  <2>1. \A j \in Replicas \ {i} : call[j].pc # "idle" => call[j].day \in Days
      BY DEF DailyInv, DailyTypeOK
  <2> QED
      BY <1>2, <1>4, <1>6, <1>7, <2>1 DEF DailyInv, JobsDone
<1>11. AtMostOncePerDay'
    BY <1>1, <1>5 DEF DailyInv, AtMostOncePerDay
<1>12. OutcomeIsTrue'
    BY <1>3, <1>6 DEF DailyInv, OutcomeIsTrue
<1> QED
    BY <1>4, <1>9, <1>10, <1>11, <1>12 DEF DailyInv

LEMMA RemindersStep ==
    ASSUME DailyInv, DailyTypeOK', NEW i \in Replicas, Reminders(i)
    PROVE  DailyInv'
<1> DEFINE d0 == call[i].day
<1>1. AtWork(i) /\ d0 \in Days
    BY DEF Reminders, AtWork, DailyInv, DailyTypeOK
<1>2. PICK next \in {"completed", "failed"} :
          /\ call' = [call EXCEPT ![i].pc = next]
          /\ done' = IF next = "failed" THEN done ELSE [done EXCEPT ![d0] = @ \cup {"reminders"}]
    BY DEF Reminders, Goes
<1>3. run' = run /\ calls' = calls /\ fees' = fees /\ next \in CallSteps
    BY DEF Reminders, CallSteps
<1>4. /\ call'[i] = [pc |-> next, day |-> d0, token |-> call[i].token]
      /\ \A j \in Replicas \ {i} : call'[j] = call[j]
      /\ TokensIssued' /\ TokensApart' /\ RowNamesWorker'
    BY <1>1, <1>2, <1>3, CallAdvanced
<1>5. \A d \in Days : done[d] \subseteq done'[d] /\ done'[d] \subseteq {"fees", "reminders"}
    BY <1>1, <1>2 DEF DailyInv, DailyTypeOK
<1>6. "fees" \in done[d0]
    BY DEF Reminders, DailyInv, JobsDone
<1>7. next = "completed" => done'[d0] = {"fees", "reminders"}
    BY <1>1, <1>2, <1>6 DEF DailyInv, DailyTypeOK
<1>8. Unswept'
    BY <1>2, <1>3, <1>4 DEF DailyInv, Unswept
<1>9. JobsDone'
  <2>1. \A j \in Replicas \ {i} : call[j].pc # "idle" => call[j].day \in Days
      BY DEF DailyInv, DailyTypeOK
  <2> QED
      BY <1>2, <1>4, <1>5, <1>7, <2>1 DEF DailyInv, JobsDone
<1>10. AtMostOncePerDay'
    BY <1>3 DEF DailyInv, AtMostOncePerDay
<1>11. OutcomeIsTrue'
    BY <1>3, <1>5 DEF DailyInv, OutcomeIsTrue
<1> QED
    BY <1>4, <1>8, <1>9, <1>10, <1>11 DEF DailyInv

(* The outcome is written by the key of the day: it does not touch the     *)
(* token, and only the call that went through both jobs writes COMPLETED.  *)
LEMMA RecordStep ==
    ASSUME DailyInv, DailyTypeOK', NEW i \in Replicas, Record(i)
    PROVE  DailyInv'
<1> DEFINE d0 == call[i].day
<1>1. AtWork(i) /\ d0 \in Days
    BY DEF Record, Ending, AtWork, DailyInv, DailyTypeOK
<1>2. calls' = calls /\ fees' = fees /\ done' = done
    BY DEF Record
<1>3. /\ call'[i].pc = "idle"
      /\ \A j \in Replicas \ {i} : call'[j] = call[j]
    BY DEF Record, DailyInv, DailyTypeOK, NoCall
<1>4. /\ \A d \in Days : run'[d].claimId = run[d].claimId
      /\ \A d \in Days \ {d0} : run'[d] = run[d]
      /\ run'[d0].status = Outcome(i)
    BY <1>1 DEF Record, DailyInv, DailyTypeOK
<1>5. TokensIssued' /\ TokensApart'
    BY <1>2, <1>3, <1>4 DEF DailyInv, TokensIssued, TokensApart, UnderWay
<1>6. RowNamesWorker'
  <2>1. \A j \in Replicas : AtWork(j) => call[j].day \in Days
      BY DEF DailyInv, DailyTypeOK, AtWork
  <2> QED
      BY <1>3, <1>4, <2>1 DEF DailyInv, RowNamesWorker, AtWork
<1>7. Unswept'
    BY <1>1, <1>2, <1>3, <1>4 DEF DailyInv, Unswept, Outcome
<1>8. JobsDone'
    BY <1>2, <1>3 DEF DailyInv, JobsDone
<1>9. AtMostOncePerDay'
    BY <1>2 DEF DailyInv, AtMostOncePerDay
<1>10. OutcomeIsTrue'
  <2>1. Outcome(i) = "COMPLETED" => done[d0] = {"fees", "reminders"}
      BY DEF Record, Ending, Outcome, DailyInv, JobsDone
  <2> QED
      BY <1>1, <1>2, <1>4, <2>1 DEF DailyInv, OutcomeIsTrue
<1> QED
    BY <1>5, <1>6, <1>7, <1>8, <1>9, <1>10 DEF DailyInv

LEMMA DailyInvNext == DailyInv /\ [DailyNext]_dailyVars => DailyInv'
<1> SUFFICES ASSUME DailyInv, [DailyNext]_dailyVars PROVE DailyInv'
    OBVIOUS
<1>1. DailyTypeOK'
    BY DailyTypeNext DEF DailyInv
<1>2. CASE Midnight
    BY <1>1, <1>2, DailyStutter DEF Midnight
<1>3. CASE Hour
    BY <1>1, <1>3, DailyStutter DEF Hour
<1>4. ASSUME NEW i \in Replicas, Tick(i) PROVE DailyInv'
    BY <1>1, <1>4, TickStep
<1>5. ASSUME NEW i \in Replicas, Claim(i) PROVE DailyInv'
    BY <1>1, <1>5, ClaimStep
<1>6. ASSUME NEW i \in Replicas, LateFees(i) PROVE DailyInv'
    BY <1>1, <1>6, LateFeesStep
<1>7. ASSUME NEW i \in Replicas, Reminders(i) PROVE DailyInv'
    BY <1>1, <1>7, RemindersStep
<1>8. ASSUME NEW i \in Replicas, Record(i) PROVE DailyInv'
    BY <1>1, <1>8, RecordStep
<1>9. ASSUME NEW i \in Replicas, Die(i) PROVE DailyInv'
    BY <1>1, <1>9, DieStep DEF Die
<1>10. CASE UNCHANGED dailyVars
    BY <1>1, <1>10, DailyStutter DEF dailyVars
<1> QED
    BY <1>2, <1>3, <1>4, <1>5, <1>6, <1>7, <1>8, <1>9, <1>10 DEF DailyNext, Work

(* The fees of a day are swept at most once, for any number of replicas    *)
(* that tick together, die or are run by hand, and whether or not the      *)
(* driver stores the token (scheduler.ts 15-18 and 107-134).               *)
THEOREM AtMostOnceCorrect == DailySpec => []AtMostOncePerDay
<1>1. DailyInv => AtMostOncePerDay
    BY DEF DailyInv
<1> QED
    BY DailyInvInit, DailyInvNext, <1>1, PTL DEF DailySpec

(* A day recorded as COMPLETED was done, although the outcome is written   *)
(* by the key of the day and by no token (scheduler.ts 136-151, 286-295).  *)
THEOREM OutcomeCorrect == DailySpec => []OutcomeIsTrue
<1>1. DailyInv => OutcomeIsTrue
    BY DEF DailyInv
<1> QED
    BY DailyInvInit, DailyInvNext, <1>1, PTL DEF DailySpec

(* With a driver that stores the token, whoever claimed a day works on it  *)
(* until the day has its outcome, as the header of the file says; the day  *)
(* is then left alone only by a call that died.                            *)
LEMMA WinnerNext ==
    ASSUME StoresToken, DailyTypeOK, ClaimHasWinner, [DailyNext]_dailyVars
    PROVE  ClaimHasWinner'
<1> DEFINE Busy(i) == call[i].pc \in Ending \cup {"fees", "reminders"}
<1> SUFFICES ASSUME NEW d \in Days, run'[d].status = "RUNNING", failures' = 0
             PROVE  \E i \in Replicas : call'[i].day = d /\ Busy(i)'
    BY DEF ClaimHasWinner
<1>0. /\ \A i \in Replicas : call[i] \in Call
      /\ failures \in Nat /\ run \in [Days -> [status : RunStatus, claimId : Nat]]
      /\ call \in [Replicas -> Call]
    BY DEF DailyTypeOK
<1>1. ASSUME UNCHANGED <<run, call, failures>> PROVE \E i \in Replicas : call'[i].day = d /\ Busy(i)'
    BY <1>1 DEF ClaimHasWinner
<1>2. ASSUME NEW i \in Replicas, Tick(i) PROVE \E j \in Replicas : call'[j].day = d /\ Busy(j)'
  <2>1. PICK j \in Replicas : call[j].day = d /\ Busy(j)
      BY <1>2 DEF Tick, ClaimHasWinner
  <2>2. j # i
      BY <1>2, <2>1 DEF Tick, Ending
  <2>3. call'[j] = call[j]
      BY <1>0, <1>2, <2>2 DEF Tick
  <2> QED
      BY <2>1, <2>3
<1>3. ASSUME NEW i \in Replicas, Claim(i) PROVE \E j \in Replicas : call'[j].day = d /\ Busy(j)'
  <2>1. /\ call[i].pc = "claim" /\ call[i].day \in Days /\ failures' = failures
        /\ run' = [run EXCEPT ![call[i].day] = Upserted(i)]
      BY <1>3 DEF Claim, DailyTypeOK
  <2>2. CASE run[d].status = "RUNNING"
    <3>1. PICK j \in Replicas : call[j].day = d /\ Busy(j)
        BY <2>1, <2>2 DEF ClaimHasWinner
    <3>2. j # i
        BY <2>1, <3>1 DEF Ending
    <3>3. call'[j] = call[j]
        BY <1>0, <1>3, <3>2 DEF Claim
    <3> QED
        BY <3>1, <3>3
  <2>3. CASE run[d].status # "RUNNING"
    <3>1. d = call[i].day /\ run[d].status = "NONE"
        BY <1>0, <2>1, <2>3 DEF Upserted
    <3>2. Won(i)
        BY <3>1 DEF Won, Upserted
    <3>3. call'[i] = [call[i] EXCEPT !.pc = "fees"]
        BY <1>0, <1>3, <3>2 DEF Claim
    <3>4. call'[i].day = d /\ call'[i].pc = "fees"
        BY <1>0, <3>1, <3>3 DEF Call
    <3> QED
        BY <3>4
  <2> QED
      BY <2>2, <2>3
<1>4. ASSUME NEW i \in Replicas, LateFees(i) \/ Reminders(i)
      PROVE  \E j \in Replicas : call'[j].day = d /\ Busy(j)'
  <2>1. run' = run /\ failures' = failures
      BY <1>4 DEF LateFees, Reminders
  <2>2. PICK j \in Replicas : call[j].day = d /\ Busy(j)
      BY <2>1 DEF ClaimHasWinner
  <2>3. PICK step \in {"reminders", "completed", "failed"} : call' = [call EXCEPT ![i].pc = step]
      BY <1>4 DEF LateFees, Reminders, Goes
  <2>4. call'[j].day = d
      BY <1>0, <2>2, <2>3 DEF Call
  <2>5. Busy(j)'
      BY <1>0, <2>2, <2>3 DEF Call, Ending
  <2> QED
      BY <2>4, <2>5
<1>5. ASSUME NEW i \in Replicas, Record(i) PROVE \E j \in Replicas : call'[j].day = d /\ Busy(j)'
  <2>1. call[i].pc \in Ending /\ call[i].day \in Days
      BY <1>5 DEF Record, Ending, DailyTypeOK
  <2>2. failures = 0
      BY <1>0, <1>5 DEF Record
  <2>3. d # call[i].day
      BY <1>0, <1>5, <2>1 DEF Record, Outcome
  <2>4. run[d].status = "RUNNING"
      BY <1>0, <1>5, <2>1, <2>3 DEF Record
  <2>5. PICK j \in Replicas : call[j].day = d /\ Busy(j)
      BY <2>2, <2>4 DEF ClaimHasWinner
  <2>6. call'[j] = call[j]
      BY <1>0, <1>5, <2>3, <2>5 DEF Record
  <2> QED
      BY <2>5, <2>6
<1>6. ASSUME NEW i \in Replicas, Die(i) PROVE FALSE
    BY <1>0, <1>6 DEF Die
<1> QED
    BY <1>1, <1>2, <1>3, <1>4, <1>5, <1>6 DEF DailyNext, Work, Midnight, Hour, dailyVars

(* Whoever inserts the row of a day does the work (scheduler.ts 15-18):    *)
(* true of every number of replicas where the driver keeps the token, as   *)
(* the embedded one does.                                                  *)
THEOREM WinnerCorrect == ASSUME StoresToken PROVE DailySpec => []ClaimHasWinner
<1>1. DailyInit => ClaimHasWinner
    BY DEF DailyInit, ClaimHasWinner, NoRun
<1>2. DailyTypeOK /\ ClaimHasWinner /\ [DailyNext]_dailyVars => ClaimHasWinner'
    BY WinnerNext
<1> QED
    BY <1>1, <1>2, DailyTypeCorrect, PTL DEF DailySpec

(* Nobody ever gets beyond the claim, and no day has a fee swept, a        *)
(* reminder sent or an outcome.                                            *)
NobodyWins ==
    /\ \A i \in Replicas : call[i].pc \in {"idle", "claim"}
    /\ \A d \in Days : run[d].claimId = 0 /\ run[d].status \in {"NONE", "RUNNING"}
    /\ \A d \in Days : fees[d] = 0 /\ done[d] = {}

LEMMA NobodyNext ==
    ASSUME ~StoresToken, DailyInv, NobodyWins, [DailyNext]_dailyVars
    PROVE  NobodyWins'
<1>0. call \in [Replicas -> Call] /\ run \in [Days -> [status : RunStatus, claimId : Nat]]
    BY DEF DailyInv, DailyTypeOK
<1>1. CASE UNCHANGED <<run, call, fees, done>>
    BY <1>1 DEF NobodyWins
<1>2. ASSUME NEW i \in Replicas, Tick(i) \/ Die(i) PROVE NobodyWins'
    BY <1>0, <1>2 DEF Tick, Die, NoCall, NobodyWins
<1>3. ASSUME NEW i \in Replicas, Claim(i) PROVE NobodyWins'
  <2>1. call[i].token \in 1..calls /\ call[i].day \in Days /\ calls \in Nat
      BY <1>3, DailyRunAssumption DEF Claim, DailyInv, DailyTypeOK, TokensIssued, UnderWay
  <2>2. PICK row : row = Upserted(i)
      OBVIOUS
  <2>3. row.claimId = 0 /\ row.status \in {"NONE", "RUNNING"}
      BY <2>1, <2>2 DEF Upserted, NobodyWins
  <2>4. ~Won(i)
      BY <2>1, <2>2, <2>3 DEF Won
  <2>5. /\ run' = [run EXCEPT ![call[i].day] = row]
        /\ call' = [call EXCEPT ![i] = NoCall] /\ UNCHANGED <<fees, done>>
      BY <1>3, <2>2, <2>4 DEF Claim
  <2> QED
      BY <1>0, <2>1, <2>3, <2>5 DEF NobodyWins, NoCall
<1>4. ASSUME NEW i \in Replicas PROVE ~LateFees(i) /\ ~Reminders(i) /\ ~Record(i)
    BY <1>4 DEF NobodyWins, LateFees, Reminders, Record, Ending
<1> QED
    BY <1>1, <1>2, <1>3, <1>4 DEF DailyNext, Work, Midnight, Hour, dailyVars

(* Where the driver drops the token, as the strict schema of               *)
(* scheduler_runs makes MongoDB's do, every claim is lost, the claimant's  *)
(* included: on no day is a late fee applied or a reminder sent, however   *)
(* many replicas tick and however often somebody runs the task by hand     *)
(* (scheduler.ts 107-134).                                                 *)
THEOREM WithoutTokenNobodyWins == ASSUME ~StoresToken PROVE DailySpec => []NobodyWins
<1>1. DailyInit => NobodyWins
    BY DEF DailyInit, NobodyWins, NoCall, NoRun
<1>2. DailyInv /\ NobodyWins /\ [DailyNext]_dailyVars => NobodyWins'
    BY NobodyNext
<1> QED
    BY <1>1, <1>2, DailyInvInit, DailyInvNext, PTL DEF DailySpec

=============================================================================
