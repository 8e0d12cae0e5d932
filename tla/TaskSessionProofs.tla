------------------------- MODULE TaskSessionProofs -------------------------
(***************************************************************************)
(* What holds of TaskSession for every number of tasks, checkpoints,       *)
(* batches and intents, every load and every recovery budget: types, the   *)
(* budget of the recovery driver, the owner interrupted work keeps, and    *)
(* what all checkpoints of an approach may spend together.                 *)
(*                                                                         *)
(* The store picks rows: the next free one, the head of the queue, the     *)
(* last admission, the only task in the foreground; and it adds up what    *)
(* checkpoints were charged.  That there is one to pick, and what a sum is *)
(* when a term grows, needs an induction over a finite table; it is made   *)
(* once, over a set (NatSetInduction, SubsetInduction).                    *)
(***************************************************************************)
EXTENDS TaskSession, FiniteSetTheorems, TLAPS

\* ----- places and numbers ---------------------------------------------------

(* Induction over the natural numbers, stated for a set rather than for a  *)
(* formula: if m were missing, n |-> n + 1 would map the members of 0..m   *)
(* one to one into those above 0, and pigeons cannot.                      *)
LEMMA NatSetInduction ==
    ASSUME NEW P, 0 \in P, \A n \in Nat : n \in P => n + 1 \in P
    PROVE  Nat \subseteq P
  <1> SUFFICES ASSUME NEW m \in Nat, m \notin P PROVE FALSE
    OBVIOUS
  <1> DEFINE D == {n \in 0..m : n \in P}
             f == [n \in D |-> n + 1]
  <1>1. IsFiniteSet(D) /\ 0 \in D
    <2>1. IsFiniteSet(0..m) /\ D \subseteq 0..m
      BY FS_Interval
    <2> QED
      BY <2>1, FS_Subset
  <1>2. /\ IsFiniteSet(D \ {0}) /\ Cardinality(D \ {0}) = Cardinality(D) - 1
        /\ Cardinality(D) \in Nat
    BY <1>1, FS_RemoveElement, FS_CardinalityType
  <1>3. f \in [D -> D \ {0}]
    <2> SUFFICES ASSUME NEW n \in D PROVE n + 1 \in D \ {0}
      OBVIOUS
    <2>1. n \in Nat /\ n \in P /\ n <= m /\ n # m
      OBVIOUS
    <2> QED
      BY <2>1
  <1> HIDE DEF f
  <1>4. PICK x \in D, y \in D : x # y /\ f[x] = f[y]
    <2>1. Cardinality(D \ {0}) < Cardinality(D)
      BY <1>2
    <2> HIDE DEF D
    <2> QED
      BY <1>1, <1>2, <1>3, <2>1, FS_PigeonHole
  <1> QED
    BY <1>4 DEF f

(* A set of natural numbers that is not empty has a least member.          *)
LEMMA LeastMember ==
    ASSUME NEW S \in SUBSET Nat, S # {}
    PROVE  \E m \in S : \A n \in S : m <= n
  <1> SUFFICES ASSUME \A m \in S : \E n \in S : ~ (m <= n) PROVE FALSE
    OBVIOUS
  <1> DEFINE P == {n \in Nat : \A m \in S : n <= m}
  <1>1. 0 \in P
    OBVIOUS
  <1>2. ASSUME NEW n \in Nat, n \in P PROVE n + 1 \in P
    <2>1. n \notin S
      BY <1>2
    <2> QED
      BY <1>2, <2>1
  <1>3. Nat \subseteq P
    <2> HIDE DEF P
    <2> QED
      BY <1>1, <1>2, NatSetInduction
  <1>4. PICK m \in S : TRUE
    OBVIOUS
  <1>5. m \in Nat /\ m + 1 \in Nat /\ m + 1 \in P
    BY <1>3, <1>4
  <1>6. m + 1 <= m
    BY <1>5
  <1> QED
    BY <1>5, <1>6

(* Of finitely many places, one has the greatest value.                    *)
LEMMA GreatestPlace ==
    ASSUME NEW N \in Nat, NEW f \in [1..N -> Nat], NEW S \in SUBSET (1..N), S # {}
    PROVE  \E j \in S : \A k \in S : f[k] <= f[j]
  <1> DEFINE Has(T) == T # {} => \E j \in T : \A k \in T : f[k] <= f[j]
             P == {n \in Nat : \A T \in SUBSET (1..N) : (\A k \in T : k <= n) => Has(T)}
  <1>1. 0 \in P
    <2> SUFFICES ASSUME NEW T \in SUBSET (1..N), \A k \in T : k <= 0, T # {} PROVE FALSE
      OBVIOUS
    <2> PICK k \in T : k \in 1..N
      OBVIOUS
    <2> QED
      OBVIOUS
  <1>2. ASSUME NEW n \in Nat, n \in P PROVE n + 1 \in P
    <2> SUFFICES ASSUME NEW T \in SUBSET (1..N), \A k \in T : k <= n + 1 PROVE Has(T)
      OBVIOUS
    <2> DEFINE U == T \ {n + 1}
    <2>1. U \in SUBSET (1..N) /\ \A k \in U : k <= n
      OBVIOUS
    <2>2. Has(U)
      BY <1>2, <2>1
    <2>3. CASE n + 1 \notin T
      <3>1. U = T
        BY <2>3
      <3> QED
        BY <2>2, <3>1
    <2>4. CASE n + 1 \in T /\ U = {}
      <3>1. T = {n + 1} /\ f[n + 1] \in Nat
        BY <2>4
      <3> QED
        BY <3>1
    <2>5. CASE n + 1 \in T /\ U # {}
      <3>1. PICK j \in U : \A k \in U : f[k] <= f[j]
        BY <2>2, <2>5
      <3>2. f[j] \in Nat /\ f[n + 1] \in Nat /\ \A k \in T : f[k] \in Nat
        BY <2>1, <2>5
      <3>3. CASE f[n + 1] <= f[j]
        BY <3>1, <3>2, <3>3
      <3>4. CASE f[j] <= f[n + 1]
        <4>1. \A k \in T : f[k] <= f[n + 1]
          BY <3>1, <3>2, <3>4
        <4> QED
          BY <2>5, <4>1
      <3>5. f[n + 1] <= f[j] \/ f[j] <= f[n + 1]
        <4> HIDE DEF U
        <4> QED
          BY <3>2
      <3> QED
        BY <3>3, <3>4, <3>5
    <2> QED
      BY <2>3, <2>4, <2>5
  <1>3. N \in P
    <2> HIDE DEF P
    <2> QED
      BY <1>1, <1>2, NatSetInduction
  <1> QED
    BY <1>3
LEMMA LeastOfTwo ==
    ASSUME NEW a \in Nat, NEW b \in Nat
    PROVE  Min({a, b}) \in {a, b} /\ Min({a, b}) <= a /\ Min({a, b}) <= b
  <1>1. \E x \in {a, b} : \A y \in {a, b} : x <= y
    <2>1. CASE a <= b
      BY <2>1
    <2>2. CASE b <= a
      BY <2>2
    <2> QED
      BY <2>1, <2>2
  <1> QED
    BY <1>1 DEF Min

LEMMA LeastIsMember ==
    ASSUME NEW S \in SUBSET Nat, S # {}
    PROVE  Min(S) \in S /\ \A n \in S : Min(S) <= n
  BY LeastMember DEF Min

\* ----- sums -------------------------------------------------------------------

(* What is charged to a set of checkpoints is a fold over them.  The fold  *)
(* takes them in an order nobody knows; the units they are charged, put    *)
(* side by side and counted, give the same number without one.             *)
Total(f, S) == MapThenSumSet(LAMBDA c : f[c], S)
Column(f, x) == {x} \X (1..f[x])
Units(f, S) == {p \in S \X Nat : p[2] \in 1..f[p[1]]}

(* Induction over the subsets of a finite set, stated for a set of them.   *)
LEMMA SubsetInduction ==
    ASSUME NEW S, IsFiniteSet(S), NEW P,
           \A T \in SUBSET S : (\A x \in T : T \ {x} \in P) => T \in P
    PROVE  SUBSET S \subseteq P
  <1> DEFINE N == {n \in Nat : \A T \in SUBSET S : Cardinality(T) = n => T \in P}
  <1>1. \A T \in SUBSET S : IsFiniteSet(T) /\ Cardinality(T) \in Nat
    BY FS_Subset, FS_CardinalityType
  <1>2. 0 \in N
    <2> SUFFICES ASSUME NEW T \in SUBSET S, Cardinality(T) = 0 PROVE T \in P
      OBVIOUS
    <2>1. T = {}
      BY <1>1, FS_EmptySet
    <2> QED
      BY <2>1
  <1>3. ASSUME NEW n \in Nat, n \in N PROVE n + 1 \in N
    <2> SUFFICES ASSUME NEW T \in SUBSET S, Cardinality(T) = n + 1 PROVE T \in P
      OBVIOUS
    <2>1. ASSUME NEW x \in T PROVE T \ {x} \in P
      <3>1. Cardinality(T \ {x}) = Cardinality(T) - 1
        BY <1>1, FS_RemoveElement
      <3>2. Cardinality(T \ {x}) = n /\ T \ {x} \in SUBSET S
        BY <3>1
      <3> QED
        BY <1>3, <3>2
    <2> QED
      BY <2>1
  <1>4. Nat \subseteq N
    <2> HIDE DEF N
    <2> QED
      BY <1>2, <1>3, NatSetInduction
  <1> QED
    BY <1>1, <1>4

LEMMA UnitsSplit ==
    ASSUME NEW S, NEW f, NEW x \in S, f[x] \in Nat,
           IsFiniteSet(Units(f, S \ {x}))
    PROVE  /\ IsFiniteSet(Units(f, S))
           /\ Cardinality(Units(f, S)) = f[x] + Cardinality(Units(f, S \ {x}))
  <1> DEFINE D == Units(f, S \ {x})
             C == Column(f, x)
  <1>1. Units(f, S) = C \cup D
    BY DEF Units, Column
  <1>2. C \cap D = {}
    BY DEF Units, Column
  <1>3. IsFiniteSet(C) /\ Cardinality(C) = f[x]
    <2>1. IsFiniteSet({x}) /\ Cardinality({x}) = 1
      BY FS_Singleton
    <2>2. IsFiniteSet(1..f[x]) /\ Cardinality(1..f[x]) = f[x]
      BY FS_Interval, SMTT(40)
    <2>3. IsFiniteSet(C) /\ Cardinality(C) = 1 * f[x]
      BY <2>1, <2>2, FS_Product, SMTT(40) DEF Column
    <2> QED
      BY <2>3
  <1> HIDE DEF C, D
  <1>4. IsFiniteSet(D) /\ Cardinality(D) \in Nat
    BY FS_CardinalityType DEF D
  <1>5. IsFiniteSet(C \cup D) /\ Cardinality(C \cup D) = Cardinality(C) + Cardinality(D) - Cardinality(C \cap D)
    BY <1>3, <1>4, FS_Union
  <1>6. Cardinality(C \cap D) = 0
    BY <1>2, FS_EmptySet
  <1>7. IsFiniteSet(C \cup D) /\ Cardinality(C \cup D) = f[x] + Cardinality(D)
    BY <1>3, <1>4, <1>5, <1>6
  <1> QED
    BY <1>1, <1>7 DEF D

LEMMA TotalIsCount ==
    ASSUME NEW S, IsFiniteSet(S), NEW f, \A x \in S : f[x] \in Nat
    PROVE  /\ IsFiniteSet(Units(f, S)) /\ Cardinality(Units(f, S)) \in Nat
           /\ Total(f, S) = Cardinality(Units(f, S))
  <1> DEFINE pick(s) == CHOOSE x \in s : TRUE
             part(s, g) == IF s = {} THEN 0 ELSE f[pick(s)] + g[s \ {pick(s)}]
             U == [s \in SUBSET S |-> Cardinality(Units(f, s))]
             P == {s \in SUBSET S : IsFiniteSet(Units(f, s))}
  <1>1. Units(f, {}) = {} /\ IsFiniteSet(Units(f, {})) /\ Cardinality(Units(f, {})) = 0
    BY FS_EmptySet DEF Units
  <1>2. \A s \in SUBSET S : IsFiniteSet(Units(f, s))
    <2>1. ASSUME NEW s \in SUBSET S, \A x \in s : s \ {x} \in P PROVE s \in P
      <3>1. CASE s = {}
        BY <1>1, <3>1
      <3>2. CASE s # {}
        <4>1. PICK x \in s : TRUE
          BY <3>2
        <4>2. IsFiniteSet(Units(f, s \ {x})) /\ f[x] \in Nat
          BY <2>1, <4>1
        <4> QED
          BY <4>1, <4>2, UnitsSplit
      <3> QED
        BY <3>1, <3>2
    <2>2. SUBSET S \subseteq P
      <3> HIDE DEF P
      <3> QED
        BY <2>1, SubsetInduction
    <2> QED
      BY <2>2
  <1>3. \A s \in SUBSET S : U[s] = part(s, U)
    <2> SUFFICES ASSUME NEW s \in SUBSET S PROVE U[s] = part(s, U)
      OBVIOUS
    <2>1. CASE s = {}
      BY <1>1, <2>1
    <2>2. CASE s # {}
      <3>1. pick(s) \in s /\ f[pick(s)] \in Nat /\ s \ {pick(s)} \in SUBSET S
        BY <2>2
      <3>2. IsFiniteSet(Units(f, s \ {pick(s)}))
        BY <1>2, <3>1
      <3> HIDE DEF pick
      <3>3. Cardinality(Units(f, s)) = f[pick(s)] + Cardinality(Units(f, s \ {pick(s)}))
        BY <3>1, <3>2, UnitsSplit
      <3> QED
        BY <2>2, <3>1, <3>3
    <2> QED
      BY <2>1, <2>2
  <1>4. \E it : /\ it = [s \in SUBSET S |-> part(s, it)]
                /\ Total(f, S) = it[S]
    <2>1. U = [s \in SUBSET S |-> part(s, U)]
      <3>1. U = [s \in SUBSET S |-> U[s]]
        OBVIOUS
      <3> HIDE DEF U
      <3> QED
        BY <1>3, <3>1
    <2> DEFINE it == CHOOSE it : it = [s \in SUBSET S |-> part(s, it)]
    <2>2. it = [s \in SUBSET S |-> part(s, it)]
      <3> HIDE DEF U, part
      <3> QED
        BY <2>1
    <2>3. Total(f, S) = it[S]
      BY DEF Total, MapThenSumSet, MapThenFoldSet
    <2> HIDE DEF it
    <2> QED
      BY <2>2, <2>3
  <1>5. PICK it : it = [s \in SUBSET S |-> part(s, it)] /\ Total(f, S) = it[S]
    BY <1>4
  <1> DEFINE Q == {s \in SUBSET S : it[s] = U[s]}
  <1>6. ASSUME NEW s \in SUBSET S, \A x \in s : s \ {x} \in Q PROVE s \in Q
    <2>1. it[s] = part(s, it) /\ U[s] = part(s, U)
      BY <1>3, <1>5
    <2>2. CASE s = {}
      BY <2>1, <2>2
    <2>3. CASE s # {}
      <3>1. pick(s) \in s
        BY <2>3
      <3>2. it[s \ {pick(s)}] = U[s \ {pick(s)}]
        BY <1>6, <3>1
      <3> HIDE DEF pick, U
      <3> QED
        BY <2>1, <2>3, <3>2
    <2> QED
      BY <2>2, <2>3
  <1>7. SUBSET S \subseteq Q
    <2> HIDE DEF Q
    <2> QED
      BY <1>6, SubsetInduction
  <1>8. it[S] = U[S] /\ U[S] = Cardinality(Units(f, S))
    BY <1>7
  <1>9. IsFiniteSet(Units(f, S)) /\ Cardinality(Units(f, S)) \in Nat
    BY <1>2, FS_CardinalityType
  <1> HIDE DEF U, Q
  <1> QED
    BY <1>5, <1>8, <1>9

(* What the proofs need of a total: one place can be taken out, equal      *)
(* charges give equal totals, and no place gives none.                     *)
LEMMA TotalSplit ==
    ASSUME NEW S, IsFiniteSet(S), NEW f, \A y \in S : f[y] \in Nat, NEW x \in S
    PROVE  /\ Total(f, S) \in Nat /\ Total(f, S \ {x}) \in Nat
           /\ Total(f, S) = f[x] + Total(f, S \ {x})
  <1>1. IsFiniteSet(S \ {x})
    BY FS_RemoveElement
  <1>2. /\ IsFiniteSet(Units(f, S \ {x})) /\ Cardinality(Units(f, S \ {x})) \in Nat
        /\ Total(f, S \ {x}) = Cardinality(Units(f, S \ {x}))
    BY <1>1, TotalIsCount
  <1>3. Cardinality(Units(f, S)) \in Nat /\ Total(f, S) = Cardinality(Units(f, S))
    BY TotalIsCount
  <1>4. Cardinality(Units(f, S)) = f[x] + Cardinality(Units(f, S \ {x}))
    BY <1>2, UnitsSplit
  <1> QED
    BY <1>2, <1>3, <1>4

LEMMA TotalSame ==
    ASSUME NEW S, IsFiniteSet(S), NEW f, NEW g, \A x \in S : f[x] \in Nat /\ g[x] = f[x]
    PROVE  Total(g, S) = Total(f, S)
  <1>1. Units(g, S) = Units(f, S)
    BY DEF Units
  <1>2. Total(f, S) = Cardinality(Units(f, S)) /\ Total(g, S) = Cardinality(Units(g, S))
    BY TotalIsCount
  <1> QED
    BY <1>1, <1>2

LEMMA TotalOfNone == \A f : Total(f, {}) = 0
  <1> TAKE f
  <1>1. IsFiniteSet({})
    BY FS_EmptySet
  <1>2. Total(f, {}) = Cardinality(Units(f, {}))
    BY <1>1, TotalIsCount
  <1>3. Units(f, {}) = {}
    BY DEF Units
  <1> QED
    BY <1>2, <1>3, FS_EmptySet

\* ----- rows of the ledger ---------------------------------------------------

LEMMA PriorityIsNat == \A k \in Kinds : Priority[k] \in Nat
  BY DEF Priority

(* A row with one column written is a row.                                 *)
LEMMA RowWritten ==
    ASSUME NEW r \in IntentRows
    PROVE  /\ \A s \in Terminal \cup {"absent", "queued", "leased"} :
                [r EXCEPT !.state = s] \in IntentRows
           /\ \A b \in BOOLEAN : /\ [r EXCEPT !.orphan = b] \in IntentRows
                                  /\ [r EXCEPT !.denied = b] \in IntentRows
           /\ \A a \in Admissions : [r EXCEPT !.rec = a] \in IntentRows
           /\ [r EXCEPT !.rec.confirmed = TRUE] \in IntentRows
  <1>1. \A s \in Terminal \cup {"absent", "queued", "leased"} :
           [r EXCEPT !.state = s] \in IntentRows
    BY Zenon DEF IntentRows
  <1>2. \A b \in BOOLEAN : /\ [r EXCEPT !.orphan = b] \in IntentRows
                           /\ [r EXCEPT !.denied = b] \in IntentRows
    BY ZenonT(40) DEF IntentRows
  <1>3. \A a \in Admissions : [r EXCEPT !.rec = a] \in IntentRows
    BY Zenon DEF IntentRows
  <1>4. [r EXCEPT !.rec.confirmed = TRUE] \in IntentRows
    <2>1. r.rec \in Admissions
      BY DEF IntentRows
    <2>2. [r.rec EXCEPT !.confirmed = TRUE] \in Admissions
      BY <2>1, Zenon DEF Admissions
    <2> QED
      BY <2>2, Zenon DEF IntentRows
  <1> QED
    BY <1>1, <1>2, <1>3, <1>4

(* What a row says of its task and admission, whatever its state.          *)
SameRow(r, q) ==
    /\ r.kind = q.kind /\ r.task = q.task /\ r.bud = q.bud /\ r.ev = q.ev
    /\ r.adm = q.adm /\ r.admTask = q.admTask /\ r.rec = q.rec

InState(r, s) == [r EXCEPT !.state = s]
Unmarked(r) == [r EXCEPT !.orphan = FALSE]

LEMMA RowInState ==
    ASSUME NEW r \in IntentRows, NEW s \in Terminal \cup {"absent", "queued", "leased"}
    PROVE  /\ InState(r, s) \in IntentRows /\ SameRow(InState(r, s), r)
           /\ InState(r, s).state = s /\ InState(r, s).orphan = r.orphan
  <1>1. InState(r, s) \in IntentRows
    BY RowWritten DEF InState
  <1> QED
    BY <1>1 DEF InState, SameRow, IntentRows

LEMMA RowUnmarked ==
    ASSUME NEW r \in IntentRows
    PROVE  /\ Unmarked(r) \in IntentRows /\ SameRow(Unmarked(r), r)
           /\ Unmarked(r).state = r.state /\ Unmarked(r).orphan = FALSE
  <1>1. Unmarked(r) \in IntentRows
    BY RowWritten DEF Unmarked
  <1> QED
    BY <1>1 DEF Unmarked, SameRow, IntentRows

(* A table with room has a first absent row.                               *)
LEMMA NextIntentIsAbsent ==
    ASSUME NEW L, \E i \in Intents : L[i].state = "absent"
    PROVE  NextIntent(L) \in Intents /\ L[NextIntent(L)].state = "absent"
  <1> DEFINE S == {i \in Intents : L[i].state = "absent"}
  <1>1. S \in SUBSET Nat /\ S # {}
    BY StoreAssumption DEF Intents
  <1>2. PICK m \in S : \A n \in S : m <= n
    <2> HIDE DEF S
    <2> QED
      BY <1>1, LeastMember
  <1>3. \A j \in 1..(m - 1) : j \in Intents /\ ~ (m <= j)
    BY StoreAssumption DEF Intents
  <1>4. L[m].state = "absent" /\ \A j \in 1..(m - 1) : L[j].state # "absent"
    BY <1>2, <1>3
  <1> QED
    BY <1>2, <1>4 DEF NextIntent

(* A queue that is not empty has a head.                                   *)
LEMMA HeadIsQueued ==
    ASSUME NEW L \in [Intents -> IntentRows], Queued(L) # {}
    PROVE  HeadOf(L) \in Queued(L)
  <1> DEFINE f == [i \in Intents |-> Priority[L[i].kind]]
  <1>1. f \in [1..MaxIntents -> Nat]
    BY PriorityIsNat DEF Intents, IntentRows
  <1>2. PICK top \in Queued(L) : \A k \in Queued(L) : f[k] <= f[top]
    <2>1. Queued(L) \in SUBSET (1..MaxIntents)
      BY DEF Queued, Intents
    <2> HIDE DEF f
    <2> QED
      BY <1>1, <2>1, GreatestPlace, StoreAssumption
  <1> DEFINE S == {i \in Queued(L) : f[i] = f[top]}
  <1>3. PICK m \in S : \A n \in S : m <= n
    <2>1. S \in SUBSET Nat /\ S # {}
      BY StoreAssumption DEF Queued, Intents
    <2> HIDE DEF S
    <2> QED
      BY <2>1, LeastMember
  <1>4. m \in Intents /\ \A j \in Queued(L) : j \in Intents /\ f[j] \in Nat
    BY <1>1 DEF Queued, Intents
  <1>5. \A j \in Queued(L) \ {m} : f[m] > f[j] \/ (f[m] = f[j] /\ m < j)
    <2> TAKE j \in Queued(L) \ {m}
    <2>1. CASE f[j] = f[top]
      <3>1. m <= j /\ m # j /\ f[m] = f[j]
        BY <1>3, <2>1
      <3> QED
        BY <3>1, <1>4, StoreAssumption DEF Intents
    <2>2. CASE f[j] # f[top]
      <3> HIDE DEF f
      <3> QED
        BY <1>2, <1>3, <1>4, <2>2
    <2> QED
      BY <2>1, <2>2
  <1> QED
    BY <1>3, <1>4, <1>5 DEF HeadOf, Queued

(* What enters takes a row that was absent, once; the rest stays.          *)
LEMMA EnteredRow ==
    ASSUME NEW L \in [Intents -> IntentRows], NEW r \in IntentRows,
           \E i \in Intents : L[i].state = "absent"
    PROVE  /\ Entered(L, r) \in [Intents -> IntentRows]
           /\ \A i \in Intents :
                 \/ Entered(L, r)[i] = L[i]
                 \/ L[i].state = "absent" /\ Entered(L, r)[i] = InState(r, "queued")
  <1>1. NextIntent(L) \in Intents /\ L[NextIntent(L)].state = "absent"
    BY NextIntentIsAbsent
  <1>2. InState(r, "queued") \in IntentRows
    BY RowInState
  <1>3. Entered(L, r) = IF KeyKnown(L, r.kind, r.key) THEN L
                        ELSE [L EXCEPT ![NextIntent(L)] = InState(r, "queued")]
    BY DEF Entered, InState
  <1> QED
    BY <1>1, <1>2, <1>3

LEMMA SupersededRow ==
    ASSUME NEW L \in [Intents -> IntentRows], NEW ks
    PROVE  /\ SupersededIn(L, ks) \in [Intents -> IntentRows]
           /\ \A i \in Intents :
                 SupersededIn(L, ks)[i] = IF L[i].state = "queued" /\ L[i].kind \in ks
                                          THEN InState(L[i], "superseded") ELSE L[i]
  <1>1. \A i \in Intents : InState(L[i], "superseded") \in IntentRows
    BY RowInState DEF Terminal
  <1>2. SupersededIn(L, ks) = [i \in Intents |-> IF L[i].state = "queued" /\ L[i].kind \in ks
                                                THEN InState(L[i], "superseded") ELSE L[i]]
    BY DEF SupersededIn, InState
  <1> QED
    BY <1>1, <1>2

LEMMA RetiredRow ==
    ASSUME NEW L \in [Intents -> IntentRows], NEW i \in Intents
    PROVE  /\ Retired(L, i) \in [Intents -> IntentRows]
           /\ \A j \in Intents :
                 Retired(L, i)[j] = IF L[i].kind = "startup" THEN Unmarked(L[j]) ELSE L[j]
  <1>1. \A j \in Intents : Unmarked(L[j]) \in IntentRows
    BY RowUnmarked
  <1>2. CASE L[i].kind = "startup"
    <2>1. Retired(L, i) = [j \in Intents |-> Unmarked(L[j])]
      BY <1>2 DEF Retired, Unmarked
    <2> QED
      BY <1>1, <1>2, <2>1
  <1>3. CASE L[i].kind # "startup"
    BY <1>3 DEF Retired
  <1> QED
    BY <1>2, <1>3

(* The row of the step in hand ends; of the others at most the mark of an  *)
(* unknown outcome goes.                                                   *)
LEMMA EndedRow ==
    ASSUME NEW L \in [Intents -> IntentRows], cur \in Intents, NEW last \in Terminal
    PROVE  /\ Ended(L, last) \in [Intents -> IntentRows]
           /\ Ended(L, last)[cur].state = last
           /\ \A j \in Intents \ {cur} :
                 Ended(L, last)[j].state = L[j].state
           /\ \A j \in Intents :
                 LET r == Ended(L, last)[j] IN
                 /\ SameRow(r, L[j])
                 /\ r.orphan = IF last = "completed" /\ L[cur].kind = "startup" THEN FALSE
                               ELSE L[j].orphan
  <1> DEFINE M == [L EXCEPT ![cur] = InState(L[cur], last)]
  <1>1. M \in [Intents -> IntentRows]
    BY RowInState
  <1>2. \A j \in Intents : M[j] = IF j = cur THEN InState(L[j], last) ELSE L[j]
    OBVIOUS
  <1>3. Ended(L, last) = IF last = "completed" THEN Retired(M, cur) ELSE M
    BY DEF Ended, InState
  <1> HIDE DEF M
  <1>a. /\ SameRow(InState(L[cur], last), L[cur])
        /\ InState(L[cur], last).state = last /\ InState(L[cur], last).orphan = L[cur].orphan
    BY RowInState
  <1>4. M[cur].state = last /\ M[cur].kind = L[cur].kind
    BY <1>2, <1>a DEF SameRow
  <1>5. \A j \in Intents : /\ j # cur => M[j].state = L[j].state
                           /\ SameRow(M[j], L[j]) /\ M[j].orphan = L[j].orphan
    BY <1>2, <1>a DEF SameRow
  <1>6. CASE last = "completed"
    <2>1. /\ Ended(L, last) \in [Intents -> IntentRows]
          /\ \A j \in Intents :
                Ended(L, last)[j] = IF M[cur].kind = "startup" THEN Unmarked(M[j]) ELSE M[j]
      <3>1. Ended(L, last) = Retired(M, cur)
        BY <1>3, <1>6
      <3> QED
        BY <1>1, <3>1, RetiredRow
    <2>2. \A j \in Intents :
             LET r == Ended(L, last)[j] IN
             /\ r.state = M[j].state /\ SameRow(r, M[j])
             /\ r.orphan = IF M[cur].kind = "startup" THEN FALSE ELSE M[j].orphan
      <3>1. \A j \in Intents : /\ Unmarked(M[j]).state = M[j].state
                               /\ SameRow(Unmarked(M[j]), M[j]) /\ SameRow(M[j], M[j])
                               /\ Unmarked(M[j]).orphan = FALSE
        BY <1>1, RowUnmarked DEF SameRow
      <3> QED
        BY <2>1, <3>1
    <2>3. Ended(L, last)[cur].state = last
      BY <1>4, <2>2
    <2>4. \A j \in Intents \ {cur} : Ended(L, last)[j].state = L[j].state
      BY <1>5, <2>2
    <2>5. ASSUME NEW j \in Intents
          PROVE  /\ SameRow(Ended(L, last)[j], L[j])
                 /\ Ended(L, last)[j].orphan =
                       IF last = "completed" /\ L[cur].kind = "startup" THEN FALSE
                       ELSE L[j].orphan
      BY <1>4, <1>5, <1>6, <2>2, ZenonT(40) DEF SameRow
    <2> QED
      BY <2>1, <2>3, <2>4, <2>5
  <1>7. CASE last # "completed"
    BY <1>1, <1>3, <1>4, <1>5, <1>7
  <1> QED
    BY <1>6, <1>7

LEMMA AbsentTyped == AbsentIntent \in IntentRows
  <1>1. NoKey \in Nat \X Nat \X Nat /\ NoAdmission \in Admissions
    BY DEF NoKey, NoAdmission, Admissions
  <1>2. "message" \in Kinds
    BY DEF Kinds, UserKinds
  <1> QED
    BY <1>1, <1>2, Zenon DEF AbsentIntent, IntentRows

LEMMA NewTyped ==
    ASSUME NEW kind \in Kinds, NEW t \in Tasks \cup {None}
    PROVE  /\ New(kind, t) \in IntentRows
           /\ New(kind, t).kind = kind /\ New(kind, t).task = t
  <1>1. [AbsentIntent EXCEPT !.kind = kind] \in IntentRows
    BY AbsentTyped, Zenon DEF IntentRows
  <1> DEFINE r == [AbsentIntent EXCEPT !.kind = kind]
  <1>2. [r EXCEPT !.task = t] \in IntentRows
    <2> HIDE DEF r
    <2>1. r \in IntentRows
      BY <1>1 DEF r
    <2> QED
      BY <2>1, Zenon DEF IntentRows
  <1> QED
    BY AbsentTyped, <1>1, <1>2, Zenon DEF New, IntentRows

\* ----- tasks ----------------------------------------------------------------

LEMMA CurrentTyped ==
    ASSUME NEW T \in [Tasks -> TaskRows]
    PROVE  /\ Current(T) \in Tasks \cup {None}
           /\ Current(T) # None => Current(T) \in Tasks /\ T[Current(T)].status \in Foreground
           /\ Latest(T) \in Checkpoints \cup {None}
           /\ Latest(T) # None => Current(T) # None
  BY DEF Current, Latest, TaskRows, Tasks, None

LEMMA TaskRowMoved ==
    ASSUME NEW r \in TaskRows, NEW status \in Statuses
    PROVE  [r EXCEPT !.status = status, !.rev = @ + 1] \in TaskRows
  <1>1. r.rev + 1 \in Nat
    BY DEF TaskRows
  <1> QED
    BY <1>1, Zenon DEF TaskRows

LEMMA TransitionTyped ==
    ASSUME NEW T \in [Tasks -> TaskRows], NEW t \in Tasks, NEW status \in Statuses
    PROVE  Transitioned(T, t, status) \in [Tasks -> TaskRows]
  <1> DEFINE U == [T EXCEPT ![t] = [T[t] EXCEPT !.status = status, !.rev = @ + 1]]
  <1>1. [T[t] EXCEPT !.status = status, !.rev = @ + 1] \in TaskRows
    BY TaskRowMoved
  <1>2. Transitioned(T, t, status) = U
    BY DEF Transitioned, TaskRows
  <1> QED
    BY <1>1, <1>2

LEMMA CreatedTyped ==
    ASSUME NEW T \in [Tasks -> TaskRows]
    PROVE  Created(T) \in [Tasks -> TaskRows] /\ Replaced(T) \in [Tasks -> TaskRows]
  <1>1. \A U \in [Tasks -> TaskRows] : Created(U) \in [Tasks -> TaskRows]
    BY DEF Created, TaskRows, Statuses, Foreground, None
  <1> DEFINE U == [t \in Tasks |-> IF T[t].status \in Foreground
                                   THEN [T[t] EXCEPT !.status = "cancelled", !.rev = @ + 1]
                                   ELSE T[t]]
  <1>2. U \in [Tasks -> TaskRows]
    <2> SUFFICES ASSUME NEW t \in Tasks PROVE U[t] \in TaskRows
      OBVIOUS
    <2>1. T[t] \in TaskRows /\ "cancelled" \in Statuses
      BY DEF Statuses
    <2>2. [T[t] EXCEPT !.status = "cancelled", !.rev = @ + 1] \in TaskRows
      BY <2>1, TaskRowMoved
    <2> QED
      BY <2>1, <2>2
  <1>3. Replaced(T) = Created(U)
    BY DEF Replaced
  <1> QED
    BY <1>1, <1>2, <1>3

LEMMA CheckpointTyped ==
    ASSUME NEW T \in [Tasks -> TaskRows], NEW C \in [Checkpoints -> CheckpointRows],
           NEW t \in Tasks, NEW c \in Checkpoints, NEW disp \in Dispositions,
           NEW a \in Approaches \cup {None}, NEW b \in Nat, NEW n \in Nat
    PROVE  /\ TaskCheckpointed(T, t, c, disp) \in [Tasks -> TaskRows]
           /\ CheckpointCreated(C, T, t, c, disp, a, b, n) \in [Checkpoints -> CheckpointRows]
  BY DEF TaskCheckpointed, CheckpointCreated, TaskRows, CheckpointRows, Statuses, Foreground,
     Dispositions, StatusAfter

----------------------------------------------------------------------------
(* The invariants *)

InStep == {"apply", "confirm", "terminal", "admit", "reserve", "driving", "prepare", "turn",
           "finish", "stopped"}
BoundPcs == {"reserve", "driving", "prepare", "turn", "finish", "stopped"}

(* Types, with what they need: a step in hand has a leased row, a turn an  *)
(* admission written into it, and a batch in hand has room in the archive. *)
TypeInv ==
    /\ TypeOK
    /\ pc \in InStep => cur \in Intents /\ row[cur].state = "leased"
    /\ pc \in BoundPcs => /\ row[cur].bud \in Checkpoints \cup {None} /\ row[cur].adm \in Nat
                          /\ row[cur].admTask \in Tasks \cup {None}
    /\ open # NoBatch => Len(epoch) < MaxEpochs

(* The recovery admissions of a task are numbered apart, every attempt is  *)
(* within a limit that is within the session's, and what the driver was    *)
(* called for since the last confirmation, the last admission counts.      *)
Numbered(r) == /\ r.state # "absent" /\ r.admTask \in Tasks \cup {None}
               /\ r.rec.seq > 0 /\ r.rec.attempt > 0
               /\ r.rec.attempt <= r.rec.limit /\ r.rec.limit <= MaxAttempts
Admitted(t) == {j \in Intents : row[j].rec # NoAdmission /\ row[j].admTask = t}
IsLast(j, t) == /\ j \in Admitted(t)
                /\ \A k \in Admitted(t) : row[k].rec.seq <= row[j].rec.seq
RecoveryInv ==
    /\ \A i \in Intents : row[i].rec # NoAdmission => Numbered(row[i])
    /\ \A t \in Tasks \cup {None} : \A i, j \in Admitted(t) : row[i].rec.seq = row[j].rec.seq => i = j
    /\ \A t \in Tasks \cup {None} : driven[t] > 0 =>
          \E j \in Intents : /\ IsLast(j, t) /\ ~ row[j].rec.confirmed
                            /\ driven[t] <= row[j].rec.attempt
    /\ pc = "driving" => IsLast(cur, row[cur].admTask)

(* One task at most is in the foreground, and a step runs for that one; a  *)
(* mark is on failed rows only, and a leased row is in hand, or was.       *)
InFront(T) == {t \in Tasks : T[t].status \in Foreground}
Lone(T) == \A t, u \in InFront(T) : t = u
AdmittedIsCurrent == pc \in BoundPcs => row[cur].admTask = Current(task)
Marks == \A i \in Intents :
            /\ row[i].orphan => row[i].state = "failed"
            /\ row[i].state = "leased" => pc = "down" \/ (pc \in InStep /\ i = cur)

(* While an owner is owed to the task in the foreground, a row with that   *)
(* owner is waiting for the next process, or is the start-up turn in hand, *)
(* and a start-up intent that is to run carries it.                        *)
Owing == owed.task # None /\ owed.task = Current(task)
Carries(r, o) == /\ r.admTask = o.task /\ r.task \in {None, o.task} /\ r.bud = o.bud
                 /\ r.adm # Unset \/ r.ev # Unset
Held(i) == \/ row[i].orphan
           \/ pc = "down" /\ row[i].state = "leased"
           \/ pc \in BoundPcs /\ i = cur /\ row[i].kind = "startup"
OwedIsKnown == owed.task # None => task[owed.task].status # "absent"
OwnerWaits == Owing /\ pc # "verify" => \E i \in Intents : Carries(row[i], owed) /\ Held(i)
OwnerCarried == Owing /\ pc \notin {"down", "reconcile", "refresh"} =>
    \A i \in Intents : row[i].kind = "startup" /\ row[i].state \in {"queued", "leased"} =>
       Carries(row[i], owed) /\ row[i].task = owed.task
\* While the start-up intent is made, what is interrupted has one owner and
\* no older recovery work is left to run.
RefreshInv == pc = "refresh" =>
    /\ \A i, j \in Interrupted(stale) : row[i].bud = row[j].bud
    /\ \A i \in Intents : ~ (row[i].state = "queued" /\ row[i].kind \in RecoveryKinds)
OwnerInv == /\ Lone(task) /\ AdmittedIsCurrent /\ Marks
            /\ OwedIsKnown /\ OwnerWaits /\ OwnerCarried

----------------------------------------------------------------------------
(* Rows that enter *)

(* A row as it enters: without a recovery admission or an unknown outcome. *)
Fresh(r) == r \in IntentRows /\ r.rec = NoAdmission /\ r.orphan = FALSE

LEMMA NewFresh ==
    ASSUME NEW kind \in Kinds, NEW t \in Tasks \cup {None}
    PROVE  Fresh(New(kind, t)) /\ New(kind, t).kind = kind /\ New(kind, t).task = t
           /\ New(kind, t).admTask = Unset
  <1>1. New(kind, t) \in IntentRows /\ New(kind, t).kind = kind /\ New(kind, t).task = t
    BY NewTyped
  <1>2. New(kind, t).rec = NoAdmission /\ New(kind, t).admTask = Unset
    BY DEF New, AbsentIntent
  <1>3. New(kind, t).orphan = FALSE
    BY DEF New, AbsentIntent
  <1> QED
    BY <1>1, <1>2, <1>3 DEF Fresh

(* The columns a caller fills in before the row enters.                    *)
Decided == {"resume", "recover", "wake", "idle", "park", "complete", "death"}

LEMMA FilledFresh ==
    ASSUME NEW r, Fresh(r)
    PROVE  /\ \A d \in Decided :
                Fresh([r EXCEPT !.decision = d])
           /\ \A c \in Checkpoints \cup {None} :
                Fresh([r EXCEPT !.cp = c])
           /\ \A key \in Nat \X Nat \X Nat :
                Fresh([r EXCEPT !.key = key])
           /\ \A key \in Nat \X Nat \X Nat, b \in Checkpoints \cup {None, Unset}, e \in Nat :
                Fresh([r EXCEPT !.key = key, !.bud = b, !.ev = e])
           /\ \A key \in Nat \X Nat \X Nat, c \in Checkpoints \cup {None}, e \in Nat :
                Fresh([r EXCEPT !.key = key, !.cp = c, !.ev = e])
           /\ \A key \in Nat \X Nat \X Nat, c \in Checkpoints \cup {None}, b \in Checkpoints \cup {None, Unset} :
                Fresh([r EXCEPT !.key = key, !.cp = c, !.bud = b])
           /\ \A b \in Checkpoints \cup {None, Unset}, e \in Nat, t \in Tasks \cup {None} :
                Fresh([r EXCEPT !.bud = b, !.ev = e, !.admTask = t])
  <1>0. r \in IntentRows /\ r.rec = NoAdmission /\ r.orphan = FALSE
    BY DEF Fresh
  <1>1. ASSUME NEW d \in Decided
        PROVE  Fresh([r EXCEPT !.decision = d])
    <2>1. [r EXCEPT !.decision = d] \in IntentRows
      BY <1>0, ZenonT(40) DEF IntentRows, Decided
    <2>2. [r EXCEPT !.decision = d].rec = r.rec
      BY <1>0 DEF IntentRows
    <2>3. [r EXCEPT !.decision = d].orphan = r.orphan
      BY <1>0 DEF IntentRows
    <2> QED
      BY <1>0, <2>1, <2>2, <2>3, Zenon DEF Fresh
  <1>2. ASSUME NEW c \in Checkpoints \cup {None}
        PROVE  Fresh([r EXCEPT !.cp = c])
    <2>1. [r EXCEPT !.cp = c] \in IntentRows
      BY <1>0, Zenon DEF IntentRows
    <2>2. [r EXCEPT !.cp = c].rec = r.rec
      BY <1>0 DEF IntentRows
    <2>3. [r EXCEPT !.cp = c].orphan = r.orphan
      BY <1>0 DEF IntentRows
    <2> QED
      BY <1>0, <2>1, <2>2, <2>3, Zenon DEF Fresh
  <1>3. ASSUME NEW key \in Nat \X Nat \X Nat
        PROVE  Fresh([r EXCEPT !.key = key])
    <2>1. [r EXCEPT !.key = key] \in IntentRows
      BY <1>0, Zenon DEF IntentRows
    <2>2. [r EXCEPT !.key = key].rec = r.rec
      BY <1>0 DEF IntentRows
    <2>3. [r EXCEPT !.key = key].orphan = r.orphan
      BY <1>0 DEF IntentRows
    <2> QED
      BY <1>0, <2>1, <2>2, <2>3, Zenon DEF Fresh
  <1>4. ASSUME NEW key \in Nat \X Nat \X Nat, NEW b \in Checkpoints \cup {None, Unset}, NEW e \in Nat
        PROVE  Fresh([r EXCEPT !.key = key, !.bud = b, !.ev = e])
    <2>1. [r EXCEPT !.key = key, !.bud = b, !.ev = e] \in IntentRows
      BY <1>0, Zenon DEF IntentRows
    <2>2. [r EXCEPT !.key = key, !.bud = b, !.ev = e].rec = r.rec
      BY <1>0 DEF IntentRows
    <2>3. [r EXCEPT !.key = key, !.bud = b, !.ev = e].orphan = r.orphan
      BY <1>0 DEF IntentRows
    <2> QED
      BY <1>0, <2>1, <2>2, <2>3, Zenon DEF Fresh
  <1>5. ASSUME NEW key \in Nat \X Nat \X Nat, NEW c \in Checkpoints \cup {None}, NEW e \in Nat
        PROVE  Fresh([r EXCEPT !.key = key, !.cp = c, !.ev = e])
    <2>1. [r EXCEPT !.key = key, !.cp = c, !.ev = e] \in IntentRows
      BY <1>0, Zenon DEF IntentRows
    <2>2. [r EXCEPT !.key = key, !.cp = c, !.ev = e].rec = r.rec
      BY <1>0 DEF IntentRows
    <2>3. [r EXCEPT !.key = key, !.cp = c, !.ev = e].orphan = r.orphan
      BY <1>0 DEF IntentRows
    <2> QED
      BY <1>0, <2>1, <2>2, <2>3, Zenon DEF Fresh
  <1>6. ASSUME NEW key \in Nat \X Nat \X Nat, NEW c \in Checkpoints \cup {None}, NEW b \in Checkpoints \cup {None, Unset}
        PROVE  Fresh([r EXCEPT !.key = key, !.cp = c, !.bud = b])
    <2>1. [r EXCEPT !.key = key, !.cp = c, !.bud = b] \in IntentRows
      BY <1>0, Zenon DEF IntentRows
    <2>2. [r EXCEPT !.key = key, !.cp = c, !.bud = b].rec = r.rec
      BY <1>0 DEF IntentRows
    <2>3. [r EXCEPT !.key = key, !.cp = c, !.bud = b].orphan = r.orphan
      BY <1>0 DEF IntentRows
    <2> QED
      BY <1>0, <2>1, <2>2, <2>3, Zenon DEF Fresh
  <1>7. ASSUME NEW b \in Checkpoints \cup {None, Unset}, NEW e \in Nat, NEW t \in Tasks \cup {None}
        PROVE  Fresh([r EXCEPT !.bud = b, !.ev = e, !.admTask = t])
    <2>1. [r EXCEPT !.bud = b, !.ev = e, !.admTask = t] \in IntentRows
      BY <1>0, Zenon DEF IntentRows
    <2>2. [r EXCEPT !.bud = b, !.ev = e, !.admTask = t].rec = r.rec
      BY <1>0 DEF IntentRows
    <2>3. [r EXCEPT !.bud = b, !.ev = e, !.admTask = t].orphan = r.orphan
      BY <1>0 DEF IntentRows
    <2> QED
      BY <1>0, <2>1, <2>2, <2>3, Zenon DEF Fresh
  <1> QED
    BY <1>1, <1>2, <1>3, <1>4, <1>5, <1>6, <1>7

(* Rows enter where none was, queued rows are superseded; nothing else.    *)
Came(r, q) == r.state = "absent" /\ q.state = "queued" /\ Fresh(q) /\ q.kind # "startup"
Gone(r, q) == r.state = "queued" /\ q = InState(r, "superseded")
Aside(L, M) == /\ M \in [Intents -> IntentRows]
               /\ \A i \in Intents : M[i] = L[i] \/ Gone(L[i], M[i]) \/ Came(L[i], M[i])

LEMMA SupersededAside ==
    ASSUME NEW L \in [Intents -> IntentRows], NEW ks
    PROVE  Aside(L, SupersededIn(L, ks))
  BY SupersededRow DEF Aside, Gone

LEMMA EnteredAside ==
    ASSUME NEW L \in [Intents -> IntentRows], \E i \in Intents : L[i].state = "absent",
           NEW r, Fresh(r), r.kind # "startup"
    PROVE  Aside(L, Entered(L, r))
  <1>1. r \in IntentRows
    BY DEF Fresh
  <1> DEFINE q == InState(r, "queued")
  <1>2. q \in IntentRows /\ q.state = "queued" /\ q.kind = r.kind /\ q.rec = r.rec
    BY <1>1, RowInState DEF SameRow
  <1>3. q.orphan = r.orphan
    BY <1>1, RowInState
  <1> HIDE DEF q
  <1>4. Fresh(q)
    BY <1>2, <1>3 DEF Fresh
  <1>5. /\ Entered(L, r) \in [Intents -> IntentRows]
        /\ \A i \in Intents : \/ Entered(L, r)[i] = L[i]
                              \/ L[i].state = "absent" /\ Entered(L, r)[i] = q
    BY <1>1, EnteredRow DEF q
  <1> QED
    BY <1>2, <1>4, <1>5 DEF Aside, Came

LEMMA BothAside ==
    ASSUME NEW L \in [Intents -> IntentRows], \E i \in Intents : L[i].state = "absent",
           NEW ks, NEW r, Fresh(r), r.kind # "startup"
    PROVE  Aside(L, Entered(SupersededIn(L, ks), r))
  <1> DEFINE K == SupersededIn(L, ks)
             M == Entered(K, r)
  <1>1. /\ K \in [Intents -> IntentRows]
        /\ \A i \in Intents : K[i] = IF L[i].state = "queued" /\ L[i].kind \in ks
                                     THEN InState(L[i], "superseded") ELSE L[i]
    BY SupersededRow
  <1>2. \A i \in Intents : /\ K[i] = L[i] \/ Gone(L[i], K[i])
                           /\ K[i].state = "absent" <=> L[i].state = "absent"
    BY <1>1, RowInState DEF Gone, Terminal
  <1> HIDE DEF K
  <1>3. Aside(K, M)
    <2>1. \E i \in Intents : K[i].state = "absent"
      BY <1>2
    <2> QED
      BY <1>1, <2>1, EnteredAside
  <1> HIDE DEF M
  <1>4. ASSUME NEW i \in Intents
        PROVE  M[i] = L[i] \/ Gone(L[i], M[i]) \/ Came(L[i], M[i])
    <2>1. K[i] = L[i] \/ (Gone(L[i], K[i]) /\ K[i].state = "superseded")
      BY <1>1, <1>2, RowInState DEF Gone, Terminal
    <2>2. M[i] = K[i] \/ Gone(K[i], M[i]) \/ Came(K[i], M[i])
      BY <1>3 DEF Aside
    <2> QED
      BY <1>2, <2>1, <2>2 DEF Gone, Came
  <1>5. Aside(L, M)
    BY <1>3, <1>4 DEF Aside
  <1> QED
    BY <1>5 DEF K, M

----------------------------------------------------------------------------
(* Types *)

LoadRecords == [command : Nat, kinds : SUBSET UserKinds, death : Nat, crash : Nat, batch : 0..MaxEpochs,
                checkpoint : 0..MaxCheckpoints, intent : 0..MaxIntents]

LEMMA InitTypeInv == Init => TypeInv
  <1> SUFFICES ASSUME Init PROVE TypeInv
    OBVIOUS
  <1>1. AbsentIntent \in IntentRows
    BY AbsentTyped
  <1>2. row \in [Intents -> IntentRows]
    BY <1>1 DEF Init, NoIntents
  <1>3. /\ task \in [Tasks -> TaskRows] /\ cp \in [Checkpoints -> CheckpointRows]
        /\ approach \in [Tasks -> [Approaches -> Accounts]]
        /\ settled \in [Checkpoints -> Nat \cup {Unset}]
    BY DEF Init, NoTasks, NoCheckpoints, NoAccounts, NoSettlements, TaskRows, CheckpointRows, Accounts,
       Statuses, Dispositions, Unset, None
  <1>4. /\ driven \in [Tasks \cup {None} -> Nat] /\ reserved \in [Checkpoints -> Nat]
        /\ owed \in [task : Tasks \cup {None}, bud : Checkpoints \cup {None}]
    BY DEF Init, NotOwed
  <1>5. epoch \in Seq(EpochRows) /\ Len(epoch) = 0
    BY DEF Init
  <1>6. left \in LoadRecords
    BY SessionAssumption DEF Init, LoadRecords
  <1>7. open \in EpochRows \cup {NoBatch} /\ open = NoBatch
    BY DEF Init
  <1>8. TypeOK
    <2>1. /\ boot \in Nat /\ stale \subseteq Intents /\ pc \in Pcs /\ cur \in Intents \cup {None}
          /\ before \in Checkpoints \cup {None} /\ lc \in Lifecycle
      BY DEF Init, Pcs, Lifecycle
    <2>2. /\ gen \in Nat /\ attempts \in Nat /\ retries \in Nat /\ cursor \in Nat
          /\ mourning \in BOOLEAN /\ alive \in BOOLEAN
      BY DEF Init
    <2>3. Len(epoch) <= MaxEpochs
      BY <1>5, StoreAssumption
    <2> QED
      BY <1>2, <1>3, <1>4, <1>5, <1>6, <1>7, <2>1, <2>2, <2>3 DEF TypeOK, LoadRecords
  <1> QED
    BY <1>7, <1>8 DEF Init, TypeInv, InStep, BoundPcs

(* Room in the ledger is an absent row.                                    *)
LEMMA SpaceIsARow ==
    ASSUME TypeOK, Space
    PROVE  \E i \in Intents : row[i].state = "absent"
  <1>1. left.intent \in 0..MaxIntents
    BY DEF TypeOK
  <1> QED
    BY <1>1, StoreAssumption DEF Space, Intents

(* A step that leaves the row in hand leased keeps the step.               *)
LEMMA AsideKeepsHand ==
    ASSUME NEW L, NEW M, Aside(L, M), NEW i \in Intents, L[i].state = "leased"
    PROVE  M[i] = L[i]
  BY DEF Aside, Gone, Came

LEMMA LoadSpent ==
    ASSUME NEW l \in LoadRecords
    PROVE  /\ l.command > 0 => [l EXCEPT !.command = @ - 1] \in LoadRecords
           /\ l.death > 0 => [l EXCEPT !.death = @ - 1] \in LoadRecords
           /\ l.crash > 0 => [l EXCEPT !.crash = @ - 1] \in LoadRecords
  <1>1. l.command > 0 => [l EXCEPT !.command = @ - 1] \in LoadRecords
    <2> SUFFICES ASSUME l.command > 0 PROVE [l EXCEPT !.command = @ - 1] \in LoadRecords
      OBVIOUS
    <2>1. l.command - 1 \in Nat
      BY DEF LoadRecords
    <2> QED
      BY <2>1, Zenon DEF LoadRecords
  <1>2. l.death > 0 => [l EXCEPT !.death = @ - 1] \in LoadRecords
    <2> SUFFICES ASSUME l.death > 0 PROVE [l EXCEPT !.death = @ - 1] \in LoadRecords
      OBVIOUS
    <2>1. l.death - 1 \in Nat
      BY DEF LoadRecords
    <2> QED
      BY <2>1, Zenon DEF LoadRecords
  <1>3. l.crash > 0 => [l EXCEPT !.crash = @ - 1] \in LoadRecords
    <2> SUFFICES ASSUME l.crash > 0 PROVE [l EXCEPT !.crash = @ - 1] \in LoadRecords
      OBVIOUS
    <2>1. l.crash - 1 \in Nat
      BY DEF LoadRecords
    <2> QED
      BY <2>1, Zenon DEF LoadRecords
  <1> QED
    BY <1>1, <1>2, <1>3

(* Rows come and go beside the step in hand.                               *)
BesideStep == /\ Aside(row, row') /\ pc \in Up
              /\ UNCHANGED <<task, cp, approach, settled, epoch, boot, stale, pc, cur, before, lc,
                             attempts, retries, cursor, open, driven, reserved, owed>>

LEMMA SubmitSound ==
    ASSUME TypeInv, NEW kind \in left.kinds, Submit(kind)
    PROVE  TypeInv' /\ BesideStep
  <1>1. /\ kind \in Kinds /\ Current(task) \in Tasks \cup {None} /\ left \in LoadRecords
        /\ left.command > 0
    BY CurrentTyped DEF TypeInv, TypeOK, Kinds, LoadRecords, Submit
  <1>2. Fresh(New(kind, Current(task))) /\ New(kind, Current(task)).kind # "startup"
    <2>1. kind \in UserKinds
      BY DEF TypeInv, TypeOK
    <2> QED
      BY <1>1, <2>1, NewFresh DEF UserKinds
  <1>3. \E i \in Intents : row[i].state = "absent"
    BY SpaceIsARow DEF TypeInv, Submit
  <1>4. Aside(row, row')
    <2>1. row \in [Intents -> IntentRows]
      BY DEF TypeInv, TypeOK
    <2> QED
      BY <1>2, <1>3, <2>1, BothAside DEF Submit
  <1>5. left' \in LoadRecords
    BY <1>1, LoadSpent DEF Submit
  <1>6. gen' \in Nat
    BY DEF Submit, TypeInv, TypeOK
  <1>7. pc' \in InStep => row'[cur'] = row[cur]
    BY <1>4, AsideKeepsHand DEF Submit, TypeInv
  <1> QED
    BY <1>4, <1>5, <1>6, <1>7, ZenonT(40)
    DEF Submit, TypeInv, TypeOK, BesideStep, Aside, LoadRecords, history, InStep, BoundPcs

LEMMA DieSound ==
    ASSUME TypeInv, Die
    PROVE  TypeInv' /\ BesideStep
  <1>1. left \in LoadRecords /\ left.death > 0 /\ "body_event" \in Kinds
    BY DEF TypeInv, TypeOK, LoadRecords, Die, Kinds
  <1> DEFINE r == New("body_event", None)
             q == [r EXCEPT !.decision = "death"]
  <1>2. Fresh(r) /\ r.kind = "body_event"
    BY <1>1, NewFresh DEF None
  <1> HIDE DEF r
  <1>3. Fresh(q)
    BY <1>2, FilledFresh DEF Decided
  <1>4. q.kind = r.kind
    BY <1>2 DEF Fresh, IntentRows
  <1>5. \E i \in Intents : row[i].state = "absent"
    BY SpaceIsARow DEF TypeInv, Die
  <1>6. Aside(row, row')
    <2>1. row \in [Intents -> IntentRows] /\ row' = Entered(row, q)
      BY DEF TypeInv, TypeOK, Die, r
    <2> HIDE DEF q
    <2> QED
      BY <1>2, <1>3, <1>4, <1>5, <2>1, EnteredAside
  <1>7. left' \in LoadRecords
    BY <1>1, LoadSpent DEF Die
  <1>8. pc' \in InStep => row'[cur'] = row[cur]
    BY <1>6, AsideKeepsHand DEF Die, TypeInv
  <1> QED
    BY <1>6, <1>7, <1>8
    DEF Die, TypeInv, TypeOK, BesideStep, Aside, LoadRecords, history, InStep, BoundPcs

LEMMA WakeUpSound ==
    ASSUME TypeInv, WakeUp
    PROVE  TypeInv' /\ BesideStep
  <1>1. /\ "body_event" \in Kinds /\ Current(task) \in Tasks \cup {None}
        /\ Latest(task) \in Checkpoints \cup {None}
    BY CurrentTyped DEF TypeInv, TypeOK, Kinds
  <1> DEFINE r == New("body_event", Current(task))
             q == [r EXCEPT !.cp = Latest(task)]
  <1>2. Fresh(r) /\ r.kind = "body_event"
    BY <1>1, NewFresh
  <1> HIDE DEF r
  <1>3. Fresh(q)
    BY <1>1, <1>2, FilledFresh
  <1>4. q.kind = r.kind
    BY <1>2 DEF Fresh, IntentRows
  <1>5. \E i \in Intents : row[i].state = "absent"
    BY SpaceIsARow DEF TypeInv, WakeUp
  <1>6. Aside(row, row')
    <2>1. row \in [Intents -> IntentRows] /\ row' = Entered(row, q)
      BY DEF TypeInv, TypeOK, WakeUp, r
    <2> HIDE DEF q
    <2> QED
      BY <1>2, <1>3, <1>4, <1>5, <2>1, EnteredAside
  <1> QED
    BY <1>6 DEF WakeUp, TypeInv, TypeOK, BesideStep, Aside, history, memory, InStep, BoundPcs, Up, Pcs

(* A step begins: the head of the queue is leased, after a recovering      *)
(* session has entered its intent.                                         *)
LeaseStep ==
    /\ pc = "idle" /\ pc' = "apply" /\ cur' \in Intents
    /\ \E M \in [Intents -> IntentRows] :
          /\ Aside(row, M) /\ M[cur'].state = "queued"
          /\ row' = [M EXCEPT ![cur'] = InState(M[cur'], "leased")]
    /\ UNCHANGED <<task, driven, owed>>

LEMMA LeaseSound ==
    ASSUME TypeInv, Lease
    PROVE  TypeInv' /\ LeaseStep
  <1> DEFINE M == WithRecovery
  <1>0. /\ row \in [Intents -> IntentRows] /\ Current(task) \in Tasks \cup {None}
        /\ Latest(task) \in Checkpoints \cup {None}
    BY CurrentTyped DEF TypeInv, TypeOK
  <1>1. Aside(row, M)
    <2>1. CASE lc # "recovering"
      BY <1>0, <2>1 DEF Aside, WithRecovery
    <2>2. CASE lc = "recovering"
      <3> DEFINE r == New("lifecycle", Current(task))
                 q == [r EXCEPT !.key = <<boot, gen, attempts>>]
      <3>1. Fresh(r) /\ r.kind = "lifecycle"
        <4>1. "lifecycle" \in Kinds
          BY DEF Kinds, RecoveryKinds
        <4> QED
          BY <1>0, <4>1, NewFresh
      <3>2. <<boot, gen, attempts>> \in Nat \X Nat \X Nat
        BY DEF TypeInv, TypeOK
      <3>3. M = Entered(row, q)
        BY <2>2 DEF WithRecovery
      <3>4. \E i \in Intents : row[i].state = "absent"
        BY <2>2, SpaceIsARow DEF TypeInv, Lease
      <3> HIDE DEF r
      <3>5. Fresh(q)
        BY <3>1, <3>2, FilledFresh
      <3>6. q.kind = r.kind
        BY <3>1 DEF Fresh, IntentRows
      <3> HIDE DEF q, M
      <3> QED
        BY <1>0, <3>1, <3>3, <3>4, <3>5, <3>6, EnteredAside
    <2> QED
      BY <2>1, <2>2
  <1>2. M \in [Intents -> IntentRows]
    BY <1>1 DEF Aside
  <1> HIDE DEF M
  <1>3. cur' \in Queued(M) /\ row' = [M EXCEPT ![cur'] = InState(M[cur'], "leased")]
    BY <1>2, HeadIsQueued DEF Lease, M, InState
  <1>4. cur' \in Intents /\ M[cur'].state = "queued"
    BY <1>3 DEF Queued
  <1>5. InState(M[cur'], "leased") \in IntentRows /\ InState(M[cur'], "leased").state = "leased"
    BY <1>2, <1>4, RowInState
  <1>6. row' \in [Intents -> IntentRows] /\ row'[cur'].state = "leased"
    BY <1>2, <1>3, <1>4, <1>5
  <1>7. before' \in Checkpoints \cup {None}
    BY <1>0 DEF Lease
  <1>8. TypeInv'
    BY <1>4, <1>6, <1>7 DEF Lease, TypeInv, TypeOK, history, InStep, BoundPcs, Pcs
  <1> QED
    BY <1>1, <1>2, <1>3, <1>4, <1>8 DEF Lease, LeaseStep, history

\* ----- tasks come and go ------------------------------------------------------

(* A task that was, is; one that has left the foreground stays out; one    *)
(* foreground task at most.                                                *)
TaskStep(T, U) ==
    /\ \A t \in Tasks : /\ T[t].status # "absent" => U[t].status # "absent"
                        /\ t \in InFront(U) => t \in InFront(T) \/ T[t].status = "absent"
    /\ Lone(T) => Lone(U)

LEMMA LoneCurrent ==
    ASSUME NEW T \in [Tasks -> TaskRows], Lone(T)
    PROVE  \A t \in Tasks : t \in InFront(T) <=> t = Current(T)
  <1>1. 0 \notin Tasks
    BY DEF Tasks
  <1> QED
    BY <1>1 DEF Lone, InFront, Current, None

LEMMA TransitionStep ==
    ASSUME NEW T \in [Tasks -> TaskRows], NEW t \in InFront(T), NEW status \in Statuses \ {"absent"}
    PROVE  TaskStep(T, Transitioned(T, t, status))
  <1> DEFINE U == Transitioned(T, t, status)
  <1>1. \A u \in Tasks : U[u].status = IF u = t THEN status ELSE T[u].status
    BY DEF Transitioned, TaskRows, InFront
  <1> HIDE DEF U
  <1>2. InFront(U) \subseteq InFront(T)
    BY <1>1 DEF InFront
  <1>3. \A u \in Tasks : T[u].status # "absent" => U[u].status # "absent"
    BY <1>1
  <1>4. TaskStep(T, U)
    BY <1>2, <1>3 DEF TaskStep, Lone
  <1> QED
    BY <1>4 DEF U

LEMMA FirstAbsentTask ==
    ASSUME NEW T, \E t \in Tasks : T[t].status = "absent"
    PROVE  NextTask(T) \in Tasks /\ T[NextTask(T)].status = "absent"
  <1> DEFINE S == {t \in Tasks : T[t].status = "absent"}
  <1>1. S \in SUBSET Nat /\ S # {}
    BY StoreAssumption DEF Tasks
  <1>2. PICK m \in S : \A n \in S : m <= n
    <2> HIDE DEF S
    <2> QED
      BY <1>1, LeastMember
  <1>3. \A u \in 1..(m - 1) : u \in Tasks /\ ~ (m <= u)
    BY StoreAssumption DEF Tasks
  <1>4. T[m].status = "absent" /\ \A u \in 1..(m - 1) : T[u].status # "absent"
    BY <1>2, <1>3
  <1> QED
    BY <1>2, <1>4 DEF NextTask

LEMMA CreatedStep ==
    ASSUME NEW T \in [Tasks -> TaskRows], TaskRoom(T), InFront(T) = {}
    PROVE  TaskStep(T, Created(T))
  <1> DEFINE n == NextTask(T)
             U == Created(T)
  <1>1. n \in Tasks /\ T[n].status = "absent"
    BY FirstAbsentTask DEF TaskRoom
  <1>2. \A u \in Tasks : U[u].status = IF u = n THEN "running" ELSE T[u].status
    BY <1>1 DEF Created
  <1> HIDE DEF n, U
  <1>3. InFront(U) = {n}
    BY <1>1, <1>2 DEF InFront, Foreground
  <1>4. \A u \in Tasks : T[u].status # "absent" => U[u].status # "absent"
    BY <1>2
  <1>5. TaskStep(T, U)
    BY <1>1, <1>3, <1>4 DEF TaskStep, Lone
  <1> QED
    BY <1>5 DEF U

LEMMA ReplacedStep ==
    ASSUME NEW T \in [Tasks -> TaskRows], TaskRoom(T)
    PROVE  TaskStep(T, Replaced(T))
  <1> DEFINE V == [t \in Tasks |-> IF T[t].status \in Foreground
                                   THEN [T[t] EXCEPT !.status = "cancelled", !.rev = @ + 1]
                                   ELSE T[t]]
  <1>1. V \in [Tasks -> TaskRows]
    <2> SUFFICES ASSUME NEW t \in Tasks PROVE V[t] \in TaskRows
      OBVIOUS
    <2>1. T[t] \in TaskRows /\ "cancelled" \in Statuses
      BY DEF Statuses
    <2>2. [T[t] EXCEPT !.status = "cancelled", !.rev = @ + 1] \in TaskRows
      BY <2>1, TaskRowMoved
    <2> QED
      BY <2>1, <2>2
  <1>2. \A t \in Tasks : V[t].status = IF T[t].status \in Foreground THEN "cancelled" ELSE T[t].status
    BY DEF TaskRows
  <1>3. Replaced(T) = Created(V)
    BY DEF Replaced
  <1> HIDE DEF V
  <1>4. InFront(V) = {} /\ \A t \in Tasks : V[t].status = "absent" <=> T[t].status = "absent"
    BY <1>2 DEF InFront, Foreground
  <1>5. TaskStep(V, Created(V))
    BY <1>1, <1>4, CreatedStep DEF TaskRoom
  <1>6. TaskStep(T, Created(V))
    BY <1>4, <1>5 DEF TaskStep, Lone
  <1> QED
    BY <1>3, <1>6

LEMMA CheckpointStep ==
    ASSUME NEW T \in [Tasks -> TaskRows], NEW t \in InFront(T), NEW c, NEW disp \in Dispositions
    PROVE  /\ TaskStep(T, TaskCheckpointed(T, t, c, disp))
           /\ InFront(TaskCheckpointed(T, t, c, disp)) = InFront(T)
  <1> DEFINE U == TaskCheckpointed(T, t, c, disp)
  <1>1. \A u \in Tasks : U[u].status = IF u = t THEN StatusAfter[disp] ELSE T[u].status
    BY DEF TaskCheckpointed, InFront
  <1>2. StatusAfter[disp] \in Foreground
    BY DEF StatusAfter, Dispositions, Foreground
  <1> HIDE DEF U
  <1>3. InFront(U) = InFront(T)
    BY <1>1, <1>2 DEF InFront
  <1>4. \A u \in Tasks : T[u].status # "absent" => U[u].status # "absent"
    BY <1>1, <1>2 DEF Foreground
  <1>5. TaskStep(T, U)
    BY <1>3, <1>4 DEF TaskStep, Lone
  <1> QED
    BY <1>3, <1>5 DEF U

\* ----- a step goes on, or ends ---------------------------------------------------

(* A step that goes on leaves the ledger alone, and is not bound before    *)
(* its admission is written.                                               *)
InsideStep ==
    /\ pc \in InStep /\ pc' \in InStep /\ pc' # "driving"
    /\ pc' \in BoundPcs <=> pc \in BoundPcs
    /\ TaskStep(task, task') /\ (pc \in BoundPcs => InFront(task') = InFront(task))
    /\ UNCHANGED <<row, cur, driven, owed>>

(* A step that ends has settled its row; marks go, none appears.  It ends  *)
(* in the look at terminal truth, or nothing is owed any more, or no mark  *)
(* has gone.                                                               *)
Settles(r, q) == /\ SameRow(q, r)
                 /\ q.orphan => r.orphan
                 /\ q.state = r.state \/ (q.state \in Terminal /\ r.state \in {"queued", "leased"})
EndRows(N) == /\ N \in [Intents -> IntentRows] /\ N[cur].state \in Terminal
              /\ \A i \in Intents : Settles(row[i], N[i]) \/ Came(row[i], N[i])
OrphansKept(N) == \A i \in Intents : row[i].orphan /\ row[i].state = "failed" => N[i].orphan
EndStep ==
    /\ pc \in InStep /\ pc' \in {"verify", "idle", "down"}
    /\ EndRows(row')
    /\ \/ pc' = "verify" \/ owed' = NotOwed
       \/ pc \notin BoundPcs /\ OrphansKept(row')
    /\ owed' \in {owed, NotOwed} /\ driven' = driven
    /\ TaskStep(task, task')

LEMMA TaskStays ==
    ASSUME NEW T
    PROVE  TaskStep(T, T)
  BY DEF TaskStep

LEMMA EndedRows ==
    ASSUME row \in [Intents -> IntentRows], cur \in Intents, row[cur].state = "leased",
           NEW M, Aside(row, M), NEW last \in Terminal
    PROVE  /\ EndRows(Ended(M, last))
           /\ last # "completed" \/ row[cur].kind # "startup" => OrphansKept(Ended(M, last))
  <1> DEFINE N == Ended(M, last)
  <1>1. M \in [Intents -> IntentRows] /\ M[cur] = row[cur]
    BY AsideKeepsHand DEF Aside
  <1>2. /\ N \in [Intents -> IntentRows] /\ N[cur].state = last
        /\ \A j \in Intents \ {cur} : N[j].state = M[j].state
        /\ \A j \in Intents : SameRow(N[j], M[j])
    BY <1>1, EndedRow
  <1>3. \A j \in Intents : N[j].orphan = IF last = "completed" /\ M[cur].kind = "startup" THEN FALSE
                                         ELSE M[j].orphan
    BY <1>1, EndedRow
  <1> HIDE DEF N
  <1>4. ASSUME NEW i \in Intents
        PROVE  Settles(row[i], N[i]) \/ Came(row[i], N[i])
    <2>1. CASE i = cur
      BY <1>1, <1>2, <1>3, <2>1 DEF Settles
    <2>2. CASE i # cur /\ M[i] = row[i]
      BY <1>2, <1>3, <2>2 DEF Settles
    <2>3. CASE i # cur /\ Gone(row[i], M[i])
      <3>1. M[i].state = "superseded" /\ SameRow(M[i], row[i]) /\ row[i].state = "queued"
        BY <2>3, RowInState DEF Gone, Terminal
      <3>2. M[i].orphan = row[i].orphan
        BY <2>3, RowInState DEF Gone, Terminal
      <3> QED
        BY <1>2, <1>3, <2>3, <3>1, <3>2 DEF Settles, SameRow, Terminal
    <2>4. CASE i # cur /\ Came(row[i], M[i])
      <3>1. N[i] \in IntentRows /\ N[i].state = "queued" /\ SameRow(N[i], M[i])
        BY <1>2, <2>4 DEF Came
      <3>2. N[i].orphan = FALSE
        <4>1. M[i].orphan = FALSE
          BY <2>4 DEF Came, Fresh
        <4> QED
          BY <1>3, <4>1
      <3>3. N[i].rec = NoAdmission /\ N[i].kind # "startup" /\ row[i].state = "absent"
        BY <2>4, <3>1 DEF Came, Fresh, SameRow
      <3> QED
        BY <3>1, <3>2, <3>3 DEF Came, Fresh
    <2> QED
      BY <1>1, <2>1, <2>2, <2>3, <2>4 DEF Aside
  <1>5. EndRows(N)
    BY <1>2, <1>4 DEF EndRows
  <1>6. ASSUME last # "completed" \/ row[cur].kind # "startup", NEW i \in Intents,
               row[i].orphan, row[i].state = "failed"
        PROVE  N[i].orphan
    <2>1. M[i] = row[i]
      BY <1>6 DEF Aside, Gone, Came
    <2>2. N[i].orphan = M[i].orphan
      BY <1>1, <1>3, <1>6
    <2> QED
      BY <1>6, <2>1, <2>2
  <1> QED
    BY <1>5, <1>6 DEF N, OrphansKept

LEMMA NothingAside ==
    ASSUME NEW L \in [Intents -> IntentRows]
    PROVE  Aside(L, L)
  BY DEF Aside

(* Every way a step ends: StepEnds, and an exception.                      *)
LEMMA StepEndsSound ==
    ASSUME TypeInv, pc \in InStep, NEW M, Aside(row, M), NEW last \in Terminal, StepEnds(M, last)
    PROVE  /\ EndRows(row') /\ row' \in [Intents -> IntentRows]
           /\ pc' = "verify" /\ cur' = None /\ before' = None /\ cursor' = 0
  BY EndedRows DEF StepEnds, TypeInv, TypeOK, EndRows

LEMMA RaisedSound ==
    ASSUME TypeInv, pc \in InStep, Raised
    PROVE  /\ EndRows(row') /\ row' \in [Intents -> IntentRows] /\ OrphansKept(row')
           /\ pc' = "idle" /\ cur' = None /\ before' = None /\ cursor' = 0
  <1>1. Aside(row, row)
    BY NothingAside DEF TypeInv, TypeOK
  <1>2. EndRows(Ended(row, "failed")) /\ OrphansKept(Ended(row, "failed"))
    BY <1>1, EndedRows DEF TypeInv, TypeOK, Terminal
  <1> QED
    BY <1>2 DEF Raised, EndRows

(* What the next state keeps when the step of pc "apply" has moved on.     *)
LEMMA AppliedSound ==
    ASSUME TypeInv, pc = "apply", NEW turn, Applied(turn)
    PROVE  \/ pc' \in {"confirm", "terminal", "admit"} /\ UNCHANGED <<row, cur, before, cursor>>
           \/ /\ EndRows(row') /\ row' \in [Intents -> IntentRows]
              /\ pc' = "verify" /\ cur' = None /\ before' = None /\ cursor' = 0
  <1>1. CASE Done
    <2>1. Aside(row, row)
      BY NothingAside DEF TypeInv, TypeOK
    <2> QED
      BY <1>1, <2>1, StepEndsSound DEF Done, Terminal, InStep
  <1>2. CASE ~ Done
    BY <1>2 DEF Applied, local
  <1> QED
    BY <1>1, <1>2

MovedOn == pc' \in {"confirm", "terminal", "admit"} /\ UNCHANGED <<row, cur, before, cursor>>
Settled == /\ EndRows(row') /\ row' \in [Intents -> IntentRows]
           /\ cur' = None /\ before' = None /\ cursor' = 0
           /\ pc' = "verify" \/ (pc' = "idle" /\ OrphansKept(row'))

LEMMA ApplyTypes ==
    ASSUME TypeInv, pc = "apply", MovedOn \/ Settled,
           task' \in [Tasks -> TaskRows], TaskStep(task, task'),
           lc' \in Lifecycle, gen' \in Nat, retries' \in Nat,
           UNCHANGED <<cp, approach, settled, epoch, boot, stale, attempts, open, mourning, alive, left,
                       history>>
    PROVE  TypeInv' /\ (InsideStep \/ EndStep)
  <1>1. CASE MovedOn
    <2>1. InsideStep
      BY <1>1 DEF MovedOn, InsideStep, InStep, BoundPcs, history
    <2>2. TypeInv'
      BY <1>1, SMTT(40) DEF MovedOn, TypeInv, TypeOK, InStep, BoundPcs, history, Pcs
    <2> QED
      BY <2>1, <2>2
  <1>2. CASE Settled
    <2>1. EndStep
      BY <1>2 DEF Settled, EndStep, InStep, BoundPcs, history
    <2>2. TypeInv'
      BY <1>2 DEF Settled, TypeInv, TypeOK, InStep, BoundPcs, history, Pcs
    <2> QED
      BY <2>1, <2>2
  <1> QED
    BY <1>1, <1>2

LEMMA FrontIsCurrent ==
    ASSUME NEW T \in [Tasks -> TaskRows], Current(T) # None
    PROVE  Current(T) \in InFront(T)
  BY CurrentTyped DEF InFront

LEMMA AppliedMoves ==
    ASSUME TypeInv, pc = "apply", NEW turn, Applied(turn)
    PROVE  MovedOn \/ Settled
  BY AppliedSound DEF MovedOn, Settled

LEMMA RaisedSettles ==
    ASSUME TypeInv, pc = "apply", Raised
    PROVE  Settled
  BY RaisedSound DEF Settled, InStep

LEMMA DoneSettles ==
    ASSUME TypeInv, pc \in InStep, Done
    PROVE  Settled
  <1>1. Aside(row, row)
    BY NothingAside DEF TypeInv, TypeOK
  <1> QED
    BY <1>1, StepEndsSound DEF Done, Terminal, Settled

LEMMA ResumedTyped == lc \in Lifecycle => ResumedIfWaiting \in Lifecycle
  BY DEF ResumedIfWaiting, Lifecycle

LEMMA ApplyStartSound ==
    ASSUME TypeInv, ApplyStart
    PROVE  TypeInv' /\ (InsideStep \/ EndStep)
  <1>1. lc' \in Lifecycle /\ gen' \in Nat /\ retries' \in Nat
    BY ResumedTyped DEF ApplyStart, TypeInv, TypeOK
  <1>2. task \in [Tasks -> TaskRows]
    BY DEF TypeInv, TypeOK
  <1>3. CASE Current(task) # None
    <2>1. Raised /\ task' = task
      BY <1>3 DEF ApplyStart
    <2>2. Settled /\ TaskStep(task, task')
      BY <2>1, RaisedSettles, TaskStays DEF ApplyStart
    <2> QED
      BY <1>1, <1>2, <2>1, <2>2, ApplyTypes DEF ApplyStart
  <1>4. CASE Current(task) = None
    <2>1. TaskRoom(task) /\ task' = Created(task) /\ Applied(TRUE)
      BY <1>4 DEF ApplyStart
    <2>2. InFront(task) = {}
      BY <1>4 DEF Current, InFront, None, Tasks
    <2>3. task' \in [Tasks -> TaskRows] /\ TaskStep(task, task')
      BY <1>2, <2>1, <2>2, CreatedTyped, CreatedStep
    <2>4. MovedOn \/ Settled
      BY <2>1, AppliedMoves DEF ApplyStart
    <2> QED
      BY <1>1, <2>3, <2>4, ApplyTypes DEF ApplyStart
  <1> QED
    BY <1>3, <1>4

LEMMA ApplyReplaceSound ==
    ASSUME TypeInv, ApplyReplace
    PROVE  TypeInv' /\ (InsideStep \/ EndStep)
  <1>1. lc' \in Lifecycle /\ gen' \in Nat /\ retries' \in Nat
    BY ResumedTyped DEF ApplyReplace, TypeInv, TypeOK
  <1>2. task' \in [Tasks -> TaskRows] /\ TaskStep(task, task')
    BY CreatedTyped, ReplacedStep DEF ApplyReplace, TypeInv, TypeOK
  <1>3. MovedOn \/ Settled
    BY AppliedMoves DEF ApplyReplace
  <1> QED
    BY <1>1, <1>2, <1>3, ApplyTypes DEF ApplyReplace

(* A step writes a new status, or none, into the task in the foreground.   *)
LEMMA MovedTyped ==
    ASSUME task \in [Tasks -> TaskRows], NEW status \in Statuses \ {"absent"},
           \/ task' = task
           \/ Current(task) # None /\ task' = Transitioned(task, Current(task), status)
    PROVE  task' \in [Tasks -> TaskRows] /\ TaskStep(task, task')
  <1>1. CASE task' = task
    BY <1>1, TaskStays
  <1>2. CASE Current(task) # None /\ task' = Transitioned(task, Current(task), status)
    <2>1. Current(task) \in Tasks /\ Current(task) \in InFront(task)
      BY <1>2, CurrentTyped, FrontIsCurrent
    <2> QED
      BY <1>2, <2>1, TransitionTyped, TransitionStep
  <1> QED
    BY <1>1, <1>2

LEMMA ApplyTalkSound ==
    ASSUME TypeInv, ApplyTalk
    PROVE  TypeInv' /\ (InsideStep \/ EndStep)
  <1>1. lc' \in Lifecycle /\ gen' \in Nat /\ retries' \in Nat
    BY ResumedTyped DEF ApplyTalk, TypeInv, TypeOK, StoodDown, Lifecycle
  <1> DEFINE status == IF row[cur].kind = "pause" THEN "paused" ELSE "running"
  <1>2. task' \in [Tasks -> TaskRows] /\ TaskStep(task, task')
    <2>1. status \in Statuses \ {"absent"}
      BY DEF Statuses, Foreground
    <2>2. \/ task' = task
          \/ Current(task) # None /\ task' = Transitioned(task, Current(task), status)
      BY DEF ApplyTalk, StatusAsked
    <2> HIDE DEF status
    <2> QED
      BY <2>1, <2>2, MovedTyped DEF TypeInv, TypeOK
  <1>3. MovedOn \/ Settled
    BY AppliedMoves DEF ApplyTalk
  <1> QED
    BY <1>1, <1>2, <1>3, ApplyTypes DEF ApplyTalk

LEMMA ApplyCancelSound ==
    ASSUME TypeInv, ApplyCancel
    PROVE  TypeInv' /\ (InsideStep \/ EndStep)
  <1>1. lc' \in Lifecycle /\ gen' \in Nat /\ retries' \in Nat
    BY DEF ApplyCancel, TypeInv, TypeOK, StoodDown, Lifecycle
  <1>2. task' \in [Tasks -> TaskRows] /\ TaskStep(task, task')
    <2>1. "cancelled" \in Statuses \ {"absent"}
      BY DEF Statuses, Foreground
    <2> QED
      BY <2>1, MovedTyped DEF ApplyCancel, TypeInv, TypeOK
  <1>3. Settled
    BY DoneSettles DEF ApplyCancel, InStep
  <1> QED
    BY <1>1, <1>2, <1>3, ApplyTypes DEF ApplyCancel

LEMMA ApplyBodyEventSound ==
    ASSUME TypeInv, ApplyBodyEvent
    PROVE  TypeInv' /\ (InsideStep \/ EndStep)
  <1>1. lc' \in Lifecycle /\ gen' \in Nat /\ retries' \in Nat
    BY ResumedTyped DEF ApplyBodyEvent, TypeInv, TypeOK
  <1>2. task' \in [Tasks -> TaskRows] /\ TaskStep(task, task')
    <2>1. "running" \in Statuses \ {"absent"}
      BY DEF Statuses, Foreground
    <2> QED
      BY <2>1, MovedTyped DEF ApplyBodyEvent, TypeInv, TypeOK
  <1>3. MovedOn \/ Settled
    BY AppliedMoves DEF ApplyBodyEvent
  <1> QED
    BY <1>1, <1>2, <1>3, ApplyTypes DEF ApplyBodyEvent

LEMMA ApplyTaskWorkSound ==
    ASSUME TypeInv, ApplyTaskWork
    PROVE  TypeInv' /\ (InsideStep \/ EndStep)
  <1>1. lc' \in Lifecycle /\ gen' \in Nat /\ retries' \in Nat
    BY ResumedTyped DEF ApplyTaskWork, TypeInv, TypeOK
  <1>2. task' \in [Tasks -> TaskRows] /\ TaskStep(task, task')
    BY TaskStays DEF ApplyTaskWork, TypeInv, TypeOK
  <1>3. MovedOn \/ Settled
    BY AppliedMoves DEF ApplyTaskWork
  <1> QED
    BY <1>1, <1>2, <1>3, ApplyTypes DEF ApplyTaskWork

LEMMA ApplyRecoverySound ==
    ASSUME TypeInv, ApplyRecovery
    PROVE  TypeInv' /\ (InsideStep \/ EndStep)
  <1>1. lc' \in Lifecycle /\ gen' \in Nat /\ retries' \in Nat
    BY ResumedTyped DEF ApplyRecovery, TypeInv, TypeOK
  <1>2. task' \in [Tasks -> TaskRows] /\ TaskStep(task, task')
    <2>1. "running" \in Statuses \ {"absent"}
      BY DEF Statuses, Foreground
    <2> QED
      BY <2>1, MovedTyped DEF ApplyRecovery, TypeInv, TypeOK
  <1>3. MovedOn \/ Settled
    BY AppliedMoves DEF ApplyRecovery
  <1> QED
    BY <1>1, <1>2, <1>3, ApplyTypes DEF ApplyRecovery

LEMMA ApplyQuitSound ==
    ASSUME TypeInv, ApplyQuit
    PROVE  TypeInv' /\ EndStep
  <1>1. Aside(row, row) /\ cur \in Intents /\ row[cur].state = "leased" /\ row \in [Intents -> IntentRows]
    BY NothingAside DEF TypeInv, TypeOK, ApplyQuit, InStep
  <1>2. EndRows(row') /\ OrphansKept(row')
    <2>1. row[cur].kind # "startup" /\ "completed" \in Terminal
      BY DEF ApplyQuit, Terminal
    <2> QED
      BY <1>1, <2>1, EndedRows DEF ApplyQuit
  <1>3. EndStep
    BY <1>2, TaskStays DEF ApplyQuit, EndStep, InStep, BoundPcs, ProcessEnds, history
  <1>4. TypeInv'
    BY <1>2 DEF ApplyQuit, TypeInv, TypeOK, InStep, BoundPcs, ProcessEnds, history, EndRows, Pcs, Lifecycle
  <1> QED
    BY <1>3, <1>4

LEMMA ConfirmFailsSound ==
    ASSUME TypeInv, ConfirmFails
    PROVE  TypeInv' /\ EndStep
  <1>1. Settled /\ pc' = "verify"
    BY DoneSettles DEF ConfirmFails, GaveUp, InStep, Done, StepEnds
  <1>2. EndStep
    BY <1>1, TaskStays DEF ConfirmFails, EndStep, Settled, InStep, history
  <1>3. TypeInv'
    BY <1>1 DEF ConfirmFails, GaveUp, Settled, TypeInv, TypeOK, InStep, BoundPcs, history, Pcs,
       StoodDown, Lifecycle
  <1> QED
    BY <1>2, <1>3

(* An episode is closed: the rows of one task that carry an admission, or  *)
(* the attempt in hand, are confirmed, and its driven attempts forgotten.  *)
Closed(r) == [r EXCEPT !.rec.confirmed = TRUE]
ClosedStep(t) ==
    /\ pc \in InStep /\ pc' \in InStep /\ pc' # "driving" /\ (pc' \in BoundPcs <=> pc \in BoundPcs)
    /\ row' \in [Intents -> IntentRows]
    /\ \A j \in Intents : \/ row'[j] = row[j]
                          \/ /\ row[j].admTask = t /\ row'[j] = Closed(row[j])
                             /\ row[j].rec # NoAdmission \/ (j = cur /\ pc = "driving")
    /\ driven' = [driven EXCEPT ![t] = 0]
    /\ UNCHANGED <<task, cur, owed>>

LEMMA RowClosed ==
    ASSUME NEW r \in IntentRows
    PROVE  /\ Closed(r) \in IntentRows
           /\ Closed(r).state = r.state /\ Closed(r).kind = r.kind /\ Closed(r).task = r.task
           /\ Closed(r).bud = r.bud /\ Closed(r).ev = r.ev /\ Closed(r).adm = r.adm
           /\ Closed(r).admTask = r.admTask /\ Closed(r).orphan = r.orphan
           /\ Closed(r).rec.seq = r.rec.seq /\ Closed(r).rec.attempt = r.rec.attempt
           /\ Closed(r).rec.limit = r.rec.limit
  <1>1. Closed(r) \in IntentRows
    BY RowWritten DEF Closed
  <1>2. /\ Closed(r).state = r.state /\ Closed(r).kind = r.kind /\ Closed(r).task = r.task
        /\ Closed(r).bud = r.bud /\ Closed(r).ev = r.ev /\ Closed(r).adm = r.adm
        /\ Closed(r).admTask = r.admTask
    BY DEF Closed, IntentRows
  <1>3. Closed(r).orphan = r.orphan
    BY DEF Closed, IntentRows
  <1>4. /\ Closed(r).rec.seq = r.rec.seq /\ Closed(r).rec.attempt = r.rec.attempt
        /\ Closed(r).rec.limit = r.rec.limit
    BY DEF Closed, IntentRows, Admissions
  <1> QED
    BY <1>1, <1>2, <1>3, <1>4

LEMMA ReconciledRow ==
    ASSUME NEW L \in [Intents -> IntentRows], NEW t
    PROVE  /\ Reconciled(L, t) \in [Intents -> IntentRows]
           /\ \A j \in Intents :
                 \/ Reconciled(L, t)[j] = L[j]
                 \/ /\ Reconciled(L, t)[j] = Closed(L[j])
                    /\ L[j].admTask = t /\ L[j].rec # NoAdmission
  <1> DEFINE js == {j \in Intents : L[j].state # "absent" /\ L[j].admTask = t /\ L[j].rec # NoAdmission}
  <1>1. Reconciled(L, t) = [j \in Intents |-> IF j \in js /\ L[j].rec = LastAdmission(L, js)
                                              THEN Closed(L[j]) ELSE L[j]]
    BY DEF Reconciled, Closed
  <1>2. \A j \in Intents : Closed(L[j]) \in IntentRows
    BY RowClosed
  <1> HIDE DEF js
  <1>3. \A j \in js : L[j].admTask = t /\ L[j].rec # NoAdmission
    BY DEF js
  <1> QED
    BY <1>1, <1>2, <1>3

LEMMA ConfirmPassesSound ==
    ASSUME TypeInv, ConfirmPasses
    PROVE  TypeInv' /\ (InsideStep \/ \E t \in Tasks \cup {None} : ClosedStep(t))
  <1>0. \/ UNCHANGED <<row, driven>>
        \/ /\ alive /\ row' = Reconciled(row, row[cur].task)
           /\ driven' = [driven EXCEPT ![row[cur].task] = 0]
    BY DEF ConfirmPasses
  <1>1. CASE UNCHANGED <<row, driven>>
    <2>1. InsideStep
      BY <1>1, TaskStays DEF ConfirmPasses, InsideStep, InStep, BoundPcs
    <2>2. TypeInv'
      BY <1>1 DEF ConfirmPasses, TypeInv, TypeOK, InStep, BoundPcs, Pcs
    <2> QED
      BY <2>1, <2>2
  <1>2. CASE /\ row' = Reconciled(row, row[cur].task)
             /\ driven' = [driven EXCEPT ![row[cur].task] = 0]
    <2> DEFINE t == row[cur].task
    <2>1. /\ t \in Tasks \cup {None} /\ cur \in Intents /\ row[cur].state = "leased"
          /\ row \in [Intents -> IntentRows] /\ driven \in [Tasks \cup {None} -> Nat]
      BY DEF ConfirmPasses, TypeInv, TypeOK, InStep, IntentRows
    <2>2. /\ row' \in [Intents -> IntentRows]
          /\ \A j \in Intents :
                \/ row'[j] = row[j]
                \/ /\ row'[j] = Closed(row[j]) /\ row[j].admTask = t /\ row[j].rec # NoAdmission
      BY <1>2, <2>1, ReconciledRow
    <2>3. driven' = [driven EXCEPT ![t] = 0]
      BY <1>2
    <2>4. row'[cur].state = "leased"
      BY <2>1, <2>2, RowClosed
    <2> HIDE DEF t
    <2>5. ClosedStep(t)
      BY <2>2, <2>3 DEF ConfirmPasses, ClosedStep, InStep, BoundPcs
    <2>6. driven' \in [Tasks \cup {None} -> Nat]
      BY <2>1, <2>3
    <2>7. TypeInv'
      BY <2>1, <2>2, <2>4, <2>6 DEF ConfirmPasses, TypeInv, TypeOK, InStep, BoundPcs, Pcs
    <2> QED
      BY <2>1, <2>5, <2>7
  <1> QED
    BY <1>0, <1>1, <1>2

LEMMA TerminalStepSound ==
    ASSUME TypeInv, TerminalStep
    PROVE  TypeInv' /\ EndStep
  <1>1. /\ EndRows(row') /\ row' \in [Intents -> IntentRows]
        /\ pc' = "verify" /\ cur' = None /\ before' = None /\ cursor' = 0
    <2>1. Aside(row, row) /\ Aside(row, GoalCompleted(row)) /\ "completed" \in Terminal /\ pc \in InStep
      BY NothingAside, SupersededAside DEF TypeInv, TypeOK, Terminal, GoalCompleted, TerminalStep, InStep
    <2>2. CASE row[cur].decision = "complete"
      <3>1. StepEnds(GoalCompleted(row), "completed")
        BY <2>2 DEF TerminalStep
      <3> QED
        BY <2>1, <3>1, StepEndsSound
    <2>3. CASE row[cur].decision # "complete"
      <3>1. StepEnds(row, "completed")
        BY <2>3 DEF TerminalStep, Done
      <3> QED
        BY <2>1, <3>1, StepEndsSound
    <2> QED
      BY <2>2, <2>3
  <1>2. task' \in [Tasks -> TaskRows] /\ TaskStep(task, task')
    <2>1. "completed" \in Statuses \ {"absent"}
      BY DEF Statuses, Foreground
    <2> QED
      BY <2>1, MovedTyped DEF TerminalStep, TaskCompleted, TypeInv, TypeOK
  <1>3. EndStep
    BY <1>1, <1>2 DEF TerminalStep, EndStep, InStep, history
  <1>4. TypeInv'
    BY <1>1, <1>2 DEF TerminalStep, TypeInv, TypeOK, InStep, BoundPcs, history, Pcs, StoodDown, Lifecycle
  <1> QED
    BY <1>3, <1>4

\* ----- admission, recovery ---------------------------------------------------------

LEMMA OwnerTyped ==
    ASSUME TypeInv, pc \in InStep
    PROVE  Owner \in Checkpoints \cup {None} /\ EvidenceCursor \in Nat
  <1>1. /\ row[cur] \in IntentRows /\ Latest(task) \in Checkpoints \cup {None} /\ Len(epoch) \in Nat
    BY CurrentTyped DEF TypeInv, TypeOK
  <1>2. Owner \in Checkpoints \cup {None}
    BY <1>1 DEF Owner, IntentRows, Unset
  <1>3. EvidenceCursor \in Nat
    BY <1>1 DEF EvidenceCursor, IntentRows, Unset
  <1> QED
    BY <1>2, <1>3

(* A row with its admission written into it.                               *)
Admitting(r, b, e, t) == [r EXCEPT !.bud = b, !.adm = e, !.admTask = t]

LEMMA RowAdmitted ==
    ASSUME NEW r \in IntentRows, NEW b \in Checkpoints \cup {None}, NEW e \in Nat,
           NEW t \in Tasks \cup {None}
    PROVE  /\ Admitting(r, b, e, t) \in IntentRows
           /\ Admitting(r, b, e, t).bud = b /\ Admitting(r, b, e, t).adm = e /\ Admitting(r, b, e, t).admTask = t
           /\ Admitting(r, b, e, t).state = r.state /\ Admitting(r, b, e, t).kind = r.kind
           /\ Admitting(r, b, e, t).task = r.task /\ Admitting(r, b, e, t).rec = r.rec
           /\ Admitting(r, b, e, t).ev = r.ev /\ Admitting(r, b, e, t).orphan = r.orphan
  <1>1. Admitting(r, b, e, t) \in IntentRows
    BY Zenon DEF Admitting, IntentRows
  <1>2. /\ Admitting(r, b, e, t).bud = b /\ Admitting(r, b, e, t).adm = e /\ Admitting(r, b, e, t).admTask = t
        /\ Admitting(r, b, e, t).state = r.state /\ Admitting(r, b, e, t).kind = r.kind
        /\ Admitting(r, b, e, t).task = r.task /\ Admitting(r, b, e, t).rec = r.rec
        /\ Admitting(r, b, e, t).ev = r.ev
    BY DEF Admitting, IntentRows
  <1>3. Admitting(r, b, e, t).orphan = r.orphan
    BY DEF Admitting, IntentRows
  <1> QED
    BY <1>1, <1>2, <1>3

(* The admission is bound to the row in hand; a start-up row takes over    *)
(* from every unknown outcome.                                             *)
BindStep ==
    /\ pc = "admit" /\ pc' \in {"reserve", "prepare"}
    /\ \E b \in Checkpoints \cup {None}, e \in Nat :
          /\ MayBind(row[cur], b, e, Current(task))
          /\ \A j \in Intents :
                LET r == IF j = cur THEN Admitting(row[j], b, e, Current(task)) ELSE row[j]
                IN  row'[j] = IF row[cur].kind = "startup" THEN Unmarked(r) ELSE r
    /\ UNCHANGED <<task, cur, driven, owed>>

\* Row j after the binding of row i
BoundAt(L, i, b, e, t, j) ==
    LET r == IF j = i THEN Admitting(L[j], b, e, t) ELSE L[j]
    IN  IF L[i].kind = "startup" THEN Unmarked(r) ELSE r

LEMMA BoundRow ==
    ASSUME NEW L \in [Intents -> IntentRows], NEW i \in Intents, NEW b \in Checkpoints \cup {None},
           NEW e \in Nat, NEW t \in Tasks \cup {None}
    PROVE  /\ Bound(L, i, b, e, t) \in [Intents -> IntentRows]
           /\ \A j \in Intents : Bound(L, i, b, e, t)[j] = BoundAt(L, i, b, e, t, j)
  <1> DEFINE M == [L EXCEPT ![i] = Admitting(L[i], b, e, t)]
  <1>1. M \in [Intents -> IntentRows] /\ M[i].kind = L[i].kind
    BY RowAdmitted
  <1>2. \A j \in Intents : M[j] = IF j = i THEN Admitting(L[j], b, e, t) ELSE L[j]
    OBVIOUS
  <1>3. [L EXCEPT ![i].bud = b, ![i].adm = e, ![i].admTask = t] = M
    BY DEF Admitting, IntentRows
  <1>4. Bound(L, i, b, e, t) = Retired(M, i)
    BY <1>3 DEF Bound
  <1> HIDE DEF M
  <1>5. /\ Retired(M, i) \in [Intents -> IntentRows]
        /\ \A j \in Intents : Retired(M, i)[j] = IF M[i].kind = "startup" THEN Unmarked(M[j]) ELSE M[j]
    BY <1>1, RetiredRow
  <1> QED
    BY <1>1, <1>2, <1>4, <1>5 DEF BoundAt

LEMMA BindSound ==
    ASSUME TypeInv, pc = "admit", NEW b \in Checkpoints \cup {None}, NEW e \in Nat,
           MayBind(row[cur], b, e, Current(task)), row' = Bound(row, cur, b, e, Current(task)),
           pc' \in {"reserve", "prepare"},
           UNCHANGED <<task, cp, approach, settled, epoch, boot, stale, cur, before, cursor, lc, gen,
                       attempts, retries, open, mourning, alive, left, history>>
    PROVE  TypeInv' /\ BindStep
  <1>1. /\ cur \in Intents /\ row[cur].state = "leased" /\ row[cur] \in IntentRows
        /\ row \in [Intents -> IntentRows]
    BY DEF TypeInv, TypeOK, InStep
  <1>2. PICK t \in Tasks \cup {None} : t = Current(task)
    BY CurrentTyped DEF TypeInv, TypeOK
  <1>3. row' = Bound(row, cur, b, e, t)
    BY <1>2
  <1>4. /\ row' \in [Intents -> IntentRows]
        /\ \A j \in Intents :
              LET r == IF j = cur THEN Admitting(row[j], b, e, t) ELSE row[j]
              IN  row'[j] = IF row[cur].kind = "startup" THEN Unmarked(r) ELSE r
    <2>1. /\ Bound(row, cur, b, e, t) \in [Intents -> IntentRows]
          /\ \A j \in Intents : Bound(row, cur, b, e, t)[j] = BoundAt(row, cur, b, e, t, j)
      BY <1>1, <1>2, BoundRow, Zenon
    <2> QED
      BY <1>3, <2>1 DEF BoundAt
  <1>5. BindStep
    BY <1>2, <1>4 DEF BindStep, history
  <1>6. PICK q \in IntentRows : /\ q = Admitting(row[cur], b, e, t)
                               /\ q.state = "leased" /\ q.bud = b /\ q.adm = e /\ q.admTask = t
    BY <1>1, RowAdmitted
  <1>7. row'[cur] = Unmarked(q) \/ row'[cur] = q
    BY <1>1, <1>4, <1>6
  <1>8. /\ row'[cur].state = "leased" /\ row'[cur].bud = b /\ row'[cur].adm = e
        /\ row'[cur].admTask = t
    <2>1. Unmarked(q).state = q.state /\ SameRow(Unmarked(q), q)
      BY RowUnmarked
    <2>2. /\ Unmarked(q).state = "leased" /\ Unmarked(q).bud = b /\ Unmarked(q).adm = e
          /\ Unmarked(q).admTask = t
      BY <1>6, <2>1 DEF SameRow
    <2> QED
      BY <1>6, <1>7, <2>2
  <1>9. TypeInv'
    BY <1>1, <1>4, <1>8, SMTT(40) DEF TypeInv, TypeOK, InStep, BoundPcs, history, Pcs
  <1> QED
    BY <1>5, <1>9

LEMMA AdmitSound ==
    ASSUME TypeInv, Admit
    PROVE  TypeInv' /\ (EndStep \/ BindStep)
  <1>0. pc = "admit" /\ pc \in InStep
    BY DEF Admit, InStep
  <1>1. ASSUME Settled PROVE TypeInv' /\ EndStep
    <2>1. EndStep
      BY <1>0, <1>1, TaskStays DEF Admit, EndStep, Settled, BoundPcs, history
    <2>2. TypeInv'
      BY <1>1 DEF Admit, Settled, TypeInv, TypeOK, InStep, BoundPcs, history, Pcs
    <2> QED
      BY <2>1, <2>2
  <1>2. CASE Done
    BY <1>0, <1>1, <1>2, DoneSettles
  <1>3. CASE Raised
    <2>1. Settled
      BY <1>0, <1>3, RaisedSound DEF Settled
    <2> QED
      BY <1>1, <2>1
  <1>4. CASE /\ MayBind(row[cur], Owner, EvidenceCursor, Current(task))
             /\ row' = Bound(row, cur, Owner, EvidenceCursor, Current(task)) /\ UNCHANGED local
             /\ pc' = IF lc = "recovering" THEN "reserve" ELSE "prepare"
    <2>1. Owner \in Checkpoints \cup {None} /\ EvidenceCursor \in Nat
      BY <1>0, OwnerTyped
    <2> QED
      BY <1>0, <1>4, <2>1, BindSound DEF Admit, local
  <1> QED
    BY <1>2, <1>3, <1>4 DEF Admit

LEMMA DeniedRow ==
    ASSUME NEW r \in IntentRows
    PROVE  LET q == [r EXCEPT !.denied = TRUE] IN
           q \in IntentRows /\ SameRow(q, r) /\ q.state = r.state /\ q.orphan = r.orphan
  <1>1. [r EXCEPT !.denied = TRUE] \in IntentRows
    BY RowWritten
  <1>2. SameRow([r EXCEPT !.denied = TRUE], r) /\ [r EXCEPT !.denied = TRUE].state = r.state
    BY DEF SameRow, IntentRows
  <1>3. [r EXCEPT !.denied = TRUE].orphan = r.orphan
    BY DEF IntentRows
  <1> QED
    BY <1>1, <1>2, <1>3

LEMMA ReserveFailsSound ==
    ASSUME TypeInv, ReserveFails
    PROVE  TypeInv' /\ EndStep
  <1>0. /\ pc = "reserve" /\ pc \in InStep /\ cur \in Intents /\ row[cur].state = "leased"
        /\ row \in [Intents -> IntentRows] /\ row[cur] \in IntentRows
    BY DEF ReserveFails, TypeInv, TypeOK, InStep
  <1>1. Settled /\ pc' = "verify"
    <2>1. CASE Done
      BY <1>0, <2>1, DoneSettles DEF Done, StepEnds
    <2>2. CASE StepEnds([row EXCEPT ![cur].denied = TRUE], "completed")
      <3> DEFINE q == [row[cur] EXCEPT !.denied = TRUE]
                 M == [row EXCEPT ![cur] = q]
                 N == Ended(M, "completed")
      <3>1. q \in IntentRows /\ SameRow(q, row[cur]) /\ q.state = row[cur].state
        BY <1>0, DeniedRow
      <3>2. q.orphan = row[cur].orphan
        BY <1>0, DeniedRow
      <3>3. row' = N
        BY <1>0, <2>2 DEF StepEnds
      <3> HIDE DEF q
      <3>4. M \in [Intents -> IntentRows] /\ \A j \in Intents : M[j] = IF j = cur THEN q ELSE row[j]
        BY <1>0, <3>1
      <3> HIDE DEF M
      <3>5. /\ N \in [Intents -> IntentRows] /\ N[cur].state = "completed"
            /\ \A j \in Intents \ {cur} : N[j].state = M[j].state
            /\ \A j \in Intents : SameRow(N[j], M[j])
        BY <1>0, <3>4, EndedRow DEF Terminal
      <3>6. \A j \in Intents : N[j].orphan = IF M[cur].kind = "startup" THEN FALSE ELSE M[j].orphan
        BY <1>0, <3>4, EndedRow, ZenonT(40) DEF Terminal
      <3> HIDE DEF N
      <3>7. ASSUME NEW i \in Intents PROVE Settles(row[i], N[i])
        <4>1. SameRow(N[i], row[i])
          BY <3>1, <3>4, <3>5 DEF SameRow
        <4>2. N[i].orphan => row[i].orphan
          BY <3>2, <3>4, <3>6
        <4>3. N[i].state = row[i].state \/ (N[i].state \in Terminal /\ row[i].state = "leased")
          BY <1>0, <3>4, <3>5 DEF Terminal
        <4> QED
          BY <4>1, <4>2, <4>3 DEF Settles
      <3> QED
        BY <1>0, <2>2, <3>3, <3>5, <3>7 DEF Settled, EndRows, StepEnds, Terminal
    <2> QED
      BY <2>1, <2>2 DEF ReserveFails
  <1>2. EndStep
    BY <1>1, TaskStays DEF ReserveFails, EndStep, Settled, InStep, history
  <1>3. TypeInv'
    BY <1>1 DEF ReserveFails, Settled, TypeInv, TypeOK, InStep, BoundPcs, history, Pcs, StoodDown, Lifecycle
  <1> QED
    BY <1>2, <1>3

(* The last admission of a set of rows is one of theirs, and the greatest. *)
LEMMA LastAdmissionRow ==
    ASSUME NEW L \in [Intents -> IntentRows], NEW js \in SUBSET Intents, js # {}
    PROVE  \E j \in js : LastAdmission(L, js) = L[j].rec /\ \A k \in js : L[k].rec.seq <= L[j].rec.seq
  <1> DEFINE f == [i \in Intents |-> L[i].rec.seq]
  <1>1. f \in [1..MaxIntents -> Nat] /\ js \in SUBSET (1..MaxIntents)
    BY DEF Intents, IntentRows, Admissions
  <1>2. \E j \in js : \A k \in js : f[k] <= f[j]
    <2> HIDE DEF f
    <2> QED
      BY <1>1, GreatestPlace, StoreAssumption
  <1>3. \E j \in js : \A k \in js : L[k].rec.seq <= L[j].rec.seq
    BY <1>2
  <1> QED
    BY <1>3 DEF LastAdmission

LEMMA LastAdmissionTyped ==
    ASSUME NEW L \in [Intents -> IntentRows], NEW js \in SUBSET Intents
    PROVE  LastAdmission(L, js) \in Admissions
  <1>1. CASE js = {}
    BY <1>1 DEF LastAdmission, NoAdmission, Admissions
  <1>2. CASE js # {}
    <2>1. PICK j \in js : LastAdmission(L, js) = L[j].rec
      BY <1>2, LastAdmissionRow
    <2> QED
      BY <2>1 DEF IntentRows
  <1> QED
    BY <1>1, <1>2

LEMMA NextAdmissionTyped ==
    ASSUME NEW L \in [Intents -> IntentRows], NEW i \in Intents
    PROVE  NextAdmission(L, i, MaxAttempts) \in Admissions
  <1> DEFINE last == LastAdmission(L, Earlier(L, i))
             lim == IF last.confirmed THEN MaxAttempts ELSE Min({MaxAttempts, last.limit})
  <1>1. last \in Admissions
    BY LastAdmissionTyped DEF Earlier, Owned
  <1>2. MaxAttempts \in Nat
    BY SessionAssumption
  <1> HIDE DEF last
  <1>3. last.limit \in Nat /\ last.seq + 1 \in Nat /\ last.attempt + 1 \in Nat /\ last.episode \in Nat
    BY <1>1 DEF Admissions
  <1>4. lim \in Nat
    BY <1>2, <1>3, LeastOfTwo
  <1>5. i \in Nat /\ 1 \in Nat
    BY StoreAssumption DEF Intents
  <1>6. NextAdmission(L, i, MaxAttempts) =
           [episode |-> IF last.confirmed THEN i ELSE last.episode, seq |-> last.seq + 1,
            attempt |-> IF last.confirmed THEN 1 ELSE last.attempt + 1, limit |-> lim,
            confirmed |-> FALSE]
    BY DEF NextAdmission, last
  <1> HIDE DEF lim
  <1> QED
    BY <1>3, <1>4, <1>5, <1>6 DEF Admissions

(* An attempt is written into the row in hand and the driver called.       *)
WithRec(r, a) == [r EXCEPT !.rec = a]
ReserveStep ==
    LET a == NextAdmission(row, cur, MaxAttempts)  t == row[cur].admTask IN
    /\ pc = "reserve" /\ pc' = "driving" /\ ~ AdmissionRefused(row, cur) /\ a.attempt <= a.limit
    /\ row' = [row EXCEPT ![cur] = WithRec(row[cur], a)]
    /\ driven' = [driven EXCEPT ![t] = @ + 1]
    /\ UNCHANGED <<task, cur, owed>>

LEMMA RowWithRec ==
    ASSUME NEW r \in IntentRows, NEW a \in Admissions
    PROVE  /\ WithRec(r, a) \in IntentRows /\ WithRec(r, a).rec = a
           /\ WithRec(r, a).state = r.state /\ WithRec(r, a).kind = r.kind
           /\ WithRec(r, a).task = r.task /\ WithRec(r, a).bud = r.bud
           /\ WithRec(r, a).ev = r.ev /\ WithRec(r, a).adm = r.adm
           /\ WithRec(r, a).admTask = r.admTask /\ WithRec(r, a).orphan = r.orphan
  <1>1. WithRec(r, a) \in IntentRows
    BY RowWritten DEF WithRec
  <1>2. /\ WithRec(r, a).rec = a /\ WithRec(r, a).state = r.state /\ WithRec(r, a).kind = r.kind
        /\ WithRec(r, a).task = r.task /\ WithRec(r, a).bud = r.bud
        /\ WithRec(r, a).ev = r.ev /\ WithRec(r, a).adm = r.adm /\ WithRec(r, a).admTask = r.admTask
    BY DEF WithRec, IntentRows
  <1>3. WithRec(r, a).orphan = r.orphan
    BY DEF WithRec, IntentRows
  <1> QED
    BY <1>1, <1>2, <1>3

LEMMA ReserveSound ==
    ASSUME TypeInv, Reserve
    PROVE  TypeInv' /\ ReserveStep
  <1>1. /\ cur \in Intents /\ row \in [Intents -> IntentRows] /\ row[cur] \in IntentRows
        /\ row[cur].state = "leased" /\ row[cur].bud \in Checkpoints \cup {None} /\ row[cur].adm \in Nat
        /\ row[cur].admTask \in Tasks \cup {None} /\ driven \in [Tasks \cup {None} -> Nat]
    BY DEF TypeInv, TypeOK, Reserve, InStep, BoundPcs
  <1>2. PICK a \in Admissions : a = NextAdmission(row, cur, MaxAttempts)
    BY <1>1, NextAdmissionTyped
  <1>3. row' = [row EXCEPT ![cur] = WithRec(row[cur], a)] /\ attempts' = a.attempt
    BY <1>2 DEF Reserve, WithRec
  <1>4. ReserveStep
    BY <1>2, <1>3 DEF Reserve, ReserveStep
  <1>5. /\ row' \in [Intents -> IntentRows] /\ row'[cur] = WithRec(row[cur], a)
    BY <1>1, <1>3, RowWithRec
  <1>6. /\ row'[cur].state = "leased" /\ row'[cur].bud = row[cur].bud
        /\ row'[cur].adm = row[cur].adm /\ row'[cur].admTask = row[cur].admTask
    BY <1>1, <1>5, RowWithRec
  <1>7. driven' \in [Tasks \cup {None} -> Nat] /\ attempts' \in Nat
    BY <1>1, <1>3 DEF Reserve, Admissions
  <1>8. TypeInv'
    BY <1>1, <1>5, <1>6, <1>7 DEF TypeInv, TypeOK, Reserve, InStep, BoundPcs, Pcs
  <1> QED
    BY <1>4, <1>8

LEMMA RecoveryFailsSound ==
    ASSUME TypeInv, RecoveryFails
    PROVE  TypeInv' /\ EndStep
  <1>1. Settled /\ pc' = "verify"
    BY DoneSettles DEF RecoveryFails, GaveUp, InStep, Done, StepEnds
  <1>2. EndStep
    BY <1>1, TaskStays DEF RecoveryFails, EndStep, Settled, InStep, history
  <1>3. attempts' \in Nat /\ lc' \in Lifecycle
    BY DEF RecoveryFails, GaveUp, TypeInv, TypeOK, StoodDown, Lifecycle
  <1>4. alive' \in BOOLEAN
    BY DEF RecoveryFails, TypeInv, TypeOK
  <1>5. TypeInv'
    BY <1>1, <1>3, <1>4 DEF RecoveryFails, Settled, TypeInv, TypeOK, InStep, BoundPcs, history, Pcs
  <1> QED
    BY <1>2, <1>5

LEMMA RecoveryConfirmedSound ==
    ASSUME TypeInv, RecoveryConfirmed
    PROVE  TypeInv' /\ \E t \in Tasks \cup {None} : ClosedStep(t)
  <1>1. /\ cur \in Intents /\ row \in [Intents -> IntentRows] /\ row[cur] \in IntentRows
        /\ row[cur].state = "leased" /\ row[cur].bud \in Checkpoints \cup {None} /\ row[cur].adm \in Nat
        /\ row[cur].admTask \in Tasks \cup {None} /\ driven \in [Tasks \cup {None} -> Nat]
    BY DEF TypeInv, TypeOK, RecoveryConfirmed, InStep, BoundPcs
  <1>2. row' = [row EXCEPT ![cur] = Closed(row[cur])]
    BY DEF RecoveryConfirmed, Closed
  <1>3. /\ row' \in [Intents -> IntentRows]
        /\ \A j \in Intents : row'[j] = IF j = cur THEN Closed(row[j]) ELSE row[j]
    BY <1>1, <1>2, RowClosed
  <1>4. /\ row'[cur].state = "leased" /\ row'[cur].bud = row[cur].bud
        /\ row'[cur].adm = row[cur].adm /\ row'[cur].admTask = row[cur].admTask
    BY <1>1, <1>3, RowClosed
  <1>5. driven' \in [Tasks \cup {None} -> Nat] /\ driven' = [driven EXCEPT ![row[cur].admTask] = 0]
    BY <1>1 DEF RecoveryConfirmed
  <1>6. ClosedStep(row[cur].admTask)
    BY <1>3, <1>5 DEF ClosedStep, RecoveryConfirmed, InStep, BoundPcs
  <1>7. TypeInv'
    BY <1>1, <1>3, <1>4, <1>5 DEF TypeInv, TypeOK, RecoveryConfirmed, InStep, BoundPcs, Pcs, Lifecycle
  <1> QED
    BY <1>1, <1>6, <1>7

\* ----- a turn ------------------------------------------------------------------------

LEMMA PrepareSound ==
    ASSUME TypeInv, Prepare
    PROVE  TypeInv' /\ InsideStep
  <1>1. cursor' \in Nat
    <2>1. EvidenceCursor \in Nat /\ Len(epoch) \in Nat /\ cursor \in Nat
      BY OwnerTyped DEF Prepare, InStep, TypeInv, TypeOK
    <2>2. Min({EvidenceCursor, Len(epoch)}) \in Nat
      BY <2>1, LeastOfTwo
    <2> QED
      BY <2>1, <2>2 DEF Prepare
  <1>2. InsideStep
    BY TaskStays DEF Prepare, InsideStep, InStep, BoundPcs, history
  <1>3. TypeInv'
    BY <1>1, SMTT(40) DEF Prepare, TypeInv, TypeOK, InStep, BoundPcs, history, Pcs, Lifecycle
  <1> QED
    BY <1>2, <1>3

(* What a debit and a settlement write into the accounts.                  *)
LEMMA DebitTyped ==
    ASSUME NEW A \in [Tasks -> [Approaches -> Accounts]], NEW t, NEW a, NEW n \in Nat
    PROVE  [A EXCEPT ![t][a].used = @ + n] \in [Tasks -> [Approaches -> Accounts]]
  <1>1. CASE t \in Tasks /\ a \in Approaches
    <2>1. A[t] \in [Approaches -> Accounts] /\ A[t][a] \in Accounts /\ A[t][a].used + n \in Nat
      BY <1>1 DEF Accounts
    <2>2. [A[t][a] EXCEPT !.used = @ + n] \in Accounts
      BY <2>1, Zenon DEF Accounts
    <2>3. [A[t] EXCEPT ![a] = [A[t][a] EXCEPT !.used = @ + n]] \in [Approaches -> Accounts]
      BY <2>1, <2>2
    <2> QED
      BY <1>1, <2>3
  <1>2. CASE t \in Tasks /\ a \notin Approaches
    <2>1. [A[t] EXCEPT ![a].used = @ + n] \in [Approaches -> Accounts]
      BY <1>2
    <2> QED
      BY <1>2, <2>1
  <1>3. CASE t \notin Tasks
    BY <1>3
  <1> QED
    BY <1>1, <1>2, <1>3

LEMMA LimitTyped ==
    ASSUME NEW A \in [Tasks -> [Approaches -> Accounts]], NEW t, NEW a, NEW n \in Nat
    PROVE  [A EXCEPT ![t][a].limit = n] \in [Tasks -> [Approaches -> Accounts]]
  <1>1. CASE t \in Tasks /\ a \in Approaches
    <2>1. A[t] \in [Approaches -> Accounts] /\ A[t][a] \in Accounts
      BY <1>1
    <2>2. [A[t][a] EXCEPT !.limit = n] \in Accounts
      BY <2>1, Zenon DEF Accounts
    <2>3. [A[t] EXCEPT ![a] = [A[t][a] EXCEPT !.limit = n]] \in [Approaches -> Accounts]
      BY <2>1, <2>2
    <2> QED
      BY <1>1, <2>3
  <1>2. CASE t \in Tasks /\ a \notin Approaches
    <2>1. [A[t] EXCEPT ![a].limit = n] \in [Approaches -> Accounts]
      BY <1>2
    <2> QED
      BY <1>2, <2>1
  <1>3. CASE t \notin Tasks
    BY <1>3
  <1> QED
    BY <1>1, <1>2, <1>3

LEMMA OpenBatchSound ==
    ASSUME TypeInv, NEW work \in BOOLEAN, OpenBatch(work)
    PROVE  TypeInv' /\ InsideStep
  <1>1. /\ row[cur].bud \in Checkpoints \cup {None} /\ settled \in [Checkpoints -> Nat \cup {Unset}]
        /\ reserved \in [Checkpoints -> Nat] /\ approach \in [Tasks -> [Approaches -> Accounts]]
    BY DEF OpenBatch, TypeInv, TypeOK, BoundPcs
  <1>2. open' \in EpochRows /\ open' = [budget |-> row[cur].bud, work |-> work]
    BY <1>1 DEF OpenBatch, EpochRows
  <1>3. Len(epoch) < MaxEpochs
    <2>1. left.batch \in 0..MaxEpochs /\ Len(epoch) \in Nat
      BY DEF TypeInv, TypeOK
    <2> QED
      BY <2>1, StoreAssumption DEF OpenBatch
  <1>4. /\ settled' \in [Checkpoints -> Nat \cup {Unset}] /\ reserved' \in [Checkpoints -> Nat]
        /\ approach' \in [Tasks -> [Approaches -> Accounts]]
    <2> DEFINE c == row[cur].bud
    <2>1. CASE /\ c # None /\ work /\ MayReserve(task, cp, approach, settled, c)
               /\ settled' = [settled EXCEPT ![c] = @ + 1]
               /\ approach' = Debited(approach, cp, c)
               /\ reserved' = [reserved EXCEPT ![c] = @ + 1]
      <3>1. c \in Checkpoints /\ settled[c] \in Nat /\ reserved[c] \in Nat
        BY <1>1, <2>1 DEF MayReserve
      <3>2. settled[c] + 1 \in Nat /\ reserved[c] + 1 \in Nat
        BY <3>1
      <3>3. approach' \in [Tasks -> [Approaches -> Accounts]]
        BY <1>1, <2>1, DebitTyped DEF Debited
      <3> QED
        BY <1>1, <2>1, <3>1, <3>2, <3>3
    <2>2. CASE UNCHANGED <<settled, approach, reserved>>
      BY <1>1, <2>2
    <2> QED
      BY <2>1, <2>2 DEF OpenBatch
  <1>5. InsideStep
    BY TaskStays DEF OpenBatch, InsideStep, InStep, BoundPcs
  <1>6. TypeInv'
    BY <1>2, <1>3, <1>4 DEF OpenBatch, TypeInv, TypeOK, InStep, BoundPcs
  <1> QED
    BY <1>5, <1>6

LEMMA FreeCheckpoint ==
    ASSUME TypeOK, CheckpointSpace
    PROVE  NextCheckpoint(cp) \in Checkpoints
  <1> DEFINE S == {c \in Checkpoints : cp[c].task = None}
  <1>1. left.checkpoint \in 0..MaxCheckpoints
    BY DEF TypeOK
  <1>2. S \in SUBSET Nat /\ S # {}
    BY <1>1, StoreAssumption DEF Checkpoints, CheckpointSpace
  <1>3. PICK m \in S : \A n \in S : m <= n
    <2> HIDE DEF S
    <2> QED
      BY <1>2, LeastMember
  <1>4. \A d \in 1..(m - 1) : d \in Checkpoints /\ ~ (m <= d)
    BY StoreAssumption DEF Checkpoints
  <1>5. cp[m].task = None /\ \A d \in 1..(m - 1) : cp[d].task # None
    BY <1>3, <1>4
  <1> QED
    BY <1>3, <1>5 DEF NextCheckpoint

LEMMA CheckpointToolSound ==
    ASSUME TypeInv, NEW disp \in Dispositions, NEW a \in Approaches, NEW b \in Budgets \cup {0},
           CheckpointTool(disp, a, b)
    PROVE  TypeInv' /\ InsideStep
  <1>1. NextCheckpoint(cp) \in Checkpoints
    BY FreeCheckpoint DEF CheckpointTool, TypeInv
  <1>2. Current(task) \in Tasks /\ Current(task) \in InFront(task) /\ b \in Nat /\ cursor \in Nat
    <2>1. task \in [Tasks -> TaskRows] /\ cursor \in Nat
      BY DEF TypeInv, TypeOK
    <2>2. Current(task) # None
      BY DEF CheckpointTool
    <2>3. Current(task) \in Tasks /\ Current(task) \in InFront(task)
      BY <2>1, <2>2, CurrentTyped, FrontIsCurrent
    <2>4. b \in Nat
      BY StoreAssumption
    <2> QED
      BY <2>1, <2>3, <2>4
  <1>3. PICK x \in Approaches \cup {None} : x = IF b = 0 THEN None ELSE a
    OBVIOUS
  <1>4. /\ task' \in [Tasks -> TaskRows] /\ cp' \in [Checkpoints -> CheckpointRows]
        /\ TaskStep(task, task') /\ InFront(task') = InFront(task)
    <2>1. /\ task' = TaskCheckpointed(task, Current(task), NextCheckpoint(cp), disp)
          /\ cp' = CheckpointCreated(cp, task, Current(task), NextCheckpoint(cp), disp, x, b, cursor)
      BY <1>3 DEF CheckpointTool
    <2>2. task \in [Tasks -> TaskRows] /\ cp \in [Checkpoints -> CheckpointRows]
      BY DEF TypeInv, TypeOK
    <2> QED
      BY <1>1, <1>2, <2>1, <2>2, CheckpointTyped, CheckpointStep, ZenonT(40)
  <1>5. InsideStep
    BY <1>4 DEF CheckpointTool, InsideStep, InStep, BoundPcs, memory, history
  <1>6. TypeInv'
    BY <1>4 DEF CheckpointTool, TypeInv, TypeOK, InStep, BoundPcs, memory, history
  <1> QED
    BY <1>5, <1>6

LEMMA ArchivedTyped ==
    ASSUME TypeInv
    PROVE  Archived \in Seq(EpochRows) /\ Len(Archived) <= MaxEpochs
  <1>1. CASE open = NoBatch
    BY <1>1 DEF Archived, TypeInv, TypeOK
  <1>2. CASE open # NoBatch
    <2>1. /\ open \in EpochRows /\ epoch \in Seq(EpochRows) /\ Len(epoch) < MaxEpochs
          /\ Archived = Append(epoch, open)
      BY <1>2 DEF TypeInv, TypeOK, Archived
    <2>2. Append(epoch, open) \in Seq(EpochRows) /\ Len(Append(epoch, open)) = Len(epoch) + 1
      BY <2>1
    <2> QED
      BY <2>1, <2>2, StoreAssumption
  <1> QED
    BY <1>1, <1>2

LEMMA CloseBatchSound ==
    ASSUME TypeInv, CloseBatch
    PROVE  TypeInv' /\ InsideStep
  <1>1. InsideStep
    BY TaskStays DEF CloseBatch, InsideStep, InStep, BoundPcs, history
  <1>2. TypeInv'
    BY ArchivedTyped, SMTT(40) DEF CloseBatch, TypeInv, TypeOK, InStep, BoundPcs, history
  <1> QED
    BY <1>1, <1>2

LEMMA TurnCompletesSound ==
    ASSUME TypeInv, TurnCompletes
    PROVE  TypeInv' /\ InsideStep
  <1>1. InsideStep
    BY TaskStays DEF TurnCompletes, InsideStep, InStep, BoundPcs, history, db
  <1>2. TypeInv'
    BY DEF TurnCompletes, TypeInv, TypeOK, InStep, BoundPcs, history, db, Pcs
  <1> QED
    BY <1>1, <1>2

LEMMA TurnStopsSound ==
    ASSUME TypeInv, TurnStops
    PROVE  TypeInv' /\ InsideStep
  <1>1. InsideStep
    BY TaskStays DEF TurnStops, InsideStep, InStep, BoundPcs, history
  <1>2. lc' \in Lifecycle /\ gen' \in Nat
    BY DEF TurnStops, Lifecycle, TypeInv, TypeOK
  <1>3. TypeInv'
    BY <1>2, ArchivedTyped, ZenonT(40) DEF TurnStops, TypeInv, TypeOK, InStep, BoundPcs, history, Pcs
  <1> QED
    BY <1>1, <1>3

LEMMA TransportFailsSound ==
    ASSUME TypeInv, TransportFails
    PROVE  TypeInv' /\ EndStep
  <1>1. /\ Owner \in Checkpoints \cup {None, Unset} /\ cursor \in Nat
        /\ <<boot, gen, retries + 1>> \in Nat \X Nat \X Nat
        /\ Current(task) \in Tasks \cup {None} /\ row \in [Intents -> IntentRows]
        /\ \E i \in Intents : row[i].state = "absent"
    <2>1. TypeOK /\ Space /\ pc \in InStep
      BY DEF TransportFails, TypeInv, InStep
    <2>2. Owner \in Checkpoints \cup {None}
      BY <2>1, OwnerTyped
    <2>3. \E i \in Intents : row[i].state = "absent"
      BY <2>1, SpaceIsARow
    <2>4. Current(task) \in Tasks \cup {None}
      BY <2>1, CurrentTyped DEF TypeOK
    <2>5. /\ boot \in Nat /\ gen \in Nat /\ retries + 1 \in Nat /\ cursor \in Nat
          /\ row \in [Intents -> IntentRows]
      BY <2>1 DEF TypeOK
    <2> QED
      BY <2>2, <2>3, <2>4, <2>5
  <1> DEFINE r == New("transport", Current(task))
             q == [r EXCEPT !.key = <<boot, gen, retries + 1>>, !.bud = Owner, !.ev = cursor]
  <1>2. Fresh(r) /\ r.kind = "transport"
    <2>1. "transport" \in Kinds
      BY DEF Kinds, RecoveryKinds
    <2> QED
      BY <1>1, <2>1, NewFresh
  <1>3. StepEnds(Entered(row, q), "completed")
    BY DEF TransportFails
  <1> HIDE DEF r
  <1>4. Fresh(q)
    BY <1>1, <1>2, FilledFresh
  <1>5. q.kind = r.kind
    BY <1>2 DEF Fresh, IntentRows
  <1> HIDE DEF q
  <1>6. Aside(row, Entered(row, q))
    BY <1>1, <1>2, <1>4, <1>5, EnteredAside
  <1>7. /\ EndRows(row') /\ row' \in [Intents -> IntentRows]
        /\ pc' = "verify" /\ cur' = None /\ before' = None /\ cursor' = 0
    BY <1>3, <1>6, StepEndsSound DEF TransportFails, InStep, Terminal
  <1>8. EndStep
    BY <1>7, TaskStays DEF TransportFails, EndStep, InStep, history
  <1>9. /\ epoch' \in Seq(EpochRows) /\ Len(epoch') <= MaxEpochs /\ open' = NoBatch
        /\ retries' \in Nat
        /\ UNCHANGED <<task, cp, approach, settled, boot, stale, lc, gen, attempts, mourning, alive,
                       left, history>>
    <2>1. Archived \in Seq(EpochRows) /\ Len(Archived) <= MaxEpochs
      BY ArchivedTyped DEF TypeInv, TypeOK
    <2>2. /\ epoch' = Archived /\ open' = NoBatch /\ retries' = retries + 1
          /\ UNCHANGED <<task, cp, approach, settled, boot, stale, lc, gen, attempts, mourning, alive,
                         left, history>>
      BY Zenon DEF TransportFails
    <2> QED
      BY <1>1, <2>1, <2>2
  <1>10. TypeInv'
    BY <1>7, <1>9 DEF TypeInv, TypeOK, InStep, BoundPcs, history, Pcs
  <1> QED
    BY <1>8, <1>10

LEMMA TurnFailsSound ==
    ASSUME TypeInv, TurnFails
    PROVE  TypeInv' /\ EndStep
  <1>1. /\ Aside(row, row) /\ cur \in Intents /\ row[cur].state = "leased"
        /\ row \in [Intents -> IntentRows] /\ left \in LoadRecords
    BY NothingAside DEF TypeInv, TypeOK, TurnFails, InStep, LoadRecords
  <1>2. EndRows(row')
    BY <1>1, EndedRows DEF TurnFails, Terminal
  <1>3. EndStep
    BY <1>2, TaskStays DEF TurnFails, EndStep, InStep, ProcessEnds
  <1>4. left' \in LoadRecords
    BY <1>1, LoadSpent DEF TurnFails
  <1>5. owed' \in [task : Tasks \cup {None}, bud : Checkpoints \cup {None}]
    BY DEF TurnFails, NotOwed
  <1>6. TypeInv'
    BY <1>2, <1>4, <1>5, ArchivedTyped
    DEF TurnFails, TypeInv, TypeOK, InStep, BoundPcs, ProcessEnds, EndRows, Pcs, Lifecycle, LoadRecords
  <1> QED
    BY <1>3, <1>6

LEMMA PreemptedSound ==
    ASSUME TypeInv, Preempted
    PROVE  TypeInv' /\ EndStep
  <1>1. Aside(row, row) /\ pc \in InStep
    BY NothingAside DEF TypeInv, TypeOK, Preempted, InStep
  <1>2. /\ EndRows(row') /\ row' \in [Intents -> IntentRows]
        /\ pc' = "verify" /\ cur' = None /\ before' = None /\ cursor' = 0
    BY <1>1, StepEndsSound DEF Preempted, Terminal
  <1>3. EndStep
    BY <1>1, <1>2, TaskStays DEF Preempted, EndStep, history
  <1>4. gen' \in Nat
    BY DEF Preempted, TypeInv, TypeOK
  <1>5. alive' \in BOOLEAN
    BY DEF Preempted, TypeInv, TypeOK
  <1>6. TypeInv'
    BY <1>2, <1>4, <1>5, ArchivedTyped DEF Preempted, TypeInv, TypeOK, InStep, BoundPcs, history, Pcs
  <1> QED
    BY <1>3, <1>6

\* ----- a turn is finished ----------------------------------------------------------

LEMMA FinishTypes ==
    ASSUME TypeInv, pc \in {"finish", "stopped"}, NEW M, Aside(row, M), StepEnds(M, "completed"),
           task' \in [Tasks -> TaskRows], TaskStep(task, task'),
           cp' \in [Checkpoints -> CheckpointRows],
           approach' \in [Tasks -> [Approaches -> Accounts]],
           settled' \in [Checkpoints -> Nat \cup {Unset}], lc' \in Lifecycle,
           UNCHANGED <<epoch, boot, stale, gen, attempts, retries, open, mourning, alive, left,
                       history>>
    PROVE  TypeInv' /\ EndStep
  <1>1. /\ EndRows(row') /\ row' \in [Intents -> IntentRows]
        /\ pc' = "verify" /\ cur' = None /\ before' = None /\ cursor' = 0
    BY StepEndsSound DEF InStep, Terminal
  <1>2. EndStep
    BY <1>1 DEF EndStep, InStep, history
  <1>3. TypeInv'
    BY <1>1 DEF TypeInv, TypeOK, InStep, BoundPcs, history, Pcs
  <1> QED
    BY <1>2, <1>3

(* A yield writes a checkpoint into the task in the foreground.            *)
LEMMA YieldTyped ==
    ASSUME TypeInv, CheckpointSpace, Current(task) # None
    PROVE  LET U == TaskCheckpointed(task, Current(task), NextCheckpoint(cp), "yield") IN
           /\ U \in [Tasks -> TaskRows] /\ TaskStep(task, U)
           /\ CheckpointCreated(cp, task, Current(task), NextCheckpoint(cp), "yield", None, 0, 0)
                 \in [Checkpoints -> CheckpointRows]
  <1>1. NextCheckpoint(cp) \in Checkpoints
    BY FreeCheckpoint DEF TypeInv
  <1>2. /\ Current(task) \in Tasks /\ Current(task) \in InFront(task) /\ "yield" \in Dispositions
        /\ None \in Approaches \cup {None} /\ 0 \in Nat
    BY CurrentTyped, FrontIsCurrent DEF TypeInv, TypeOK, Dispositions
  <1>3. task \in [Tasks -> TaskRows] /\ cp \in [Checkpoints -> CheckpointRows]
    BY DEF TypeInv, TypeOK
  <1> QED
    BY <1>1, <1>2, <1>3, CheckpointTyped, CheckpointStep

LEMMA NothingWritten ==
    ASSUME TypeInv
    PROVE  /\ task \in [Tasks -> TaskRows] /\ TaskStep(task, task) /\ cp \in [Checkpoints -> CheckpointRows]
           /\ approach \in [Tasks -> [Approaches -> Accounts]]
           /\ settled \in [Checkpoints -> Nat \cup {Unset}] /\ lc \in Lifecycle
           /\ row \in [Intents -> IntentRows] /\ Aside(row, row)
  BY TaskStays, NothingAside DEF TypeInv, TypeOK

LEMMA FinishOpenSound ==
    ASSUME TypeInv, FinishOpen
    PROVE  TypeInv' /\ EndStep
  <1> DEFINE t == Current(task)
             kind == row[cur].kind
             yields == t # None /\ kind = "task_boundary" /\ task[t].status = "running"
             asks == t # None /\ kind \notin {"task_boundary", "message", "pause"}
             q == [New("task_boundary", t) EXCEPT !.key = <<t, task[t].rev, gen>>, !.bud = Owner,
                                                  !.ev = cursor]
             M == IF asks THEN Entered(row, q) ELSE row
  <1>1. Aside(row, M)
    <2>1. CASE ~ asks
      BY <2>1, NothingWritten
    <2>2. CASE asks
      <3>1. TypeOK /\ Space /\ pc \in InStep
        BY <2>2 DEF FinishOpen, TypeInv, InStep
      <3>2. Owner \in Checkpoints \cup {None, Unset}
        BY <3>1, OwnerTyped
      <3>3. \E i \in Intents : row[i].state = "absent"
        BY <3>1, SpaceIsARow
      <3>4. t \in Tasks
        BY <2>2, <3>1, CurrentTyped DEF TypeOK
      <3>5. /\ t \in Nat /\ task[t].rev \in Nat /\ gen \in Nat /\ cursor \in Nat
            /\ row \in [Intents -> IntentRows]
        BY <3>1, <3>4 DEF TypeOK, TaskRows, Tasks
      <3>6. "task_boundary" \in Kinds
        BY DEF Kinds
      <3> DEFINE r == New("task_boundary", t)
      <3>7. Fresh(r) /\ r.kind = "task_boundary"
        BY <3>4, <3>6, NewFresh
      <3> HIDE DEF r
      <3>8. Fresh([r EXCEPT !.key = <<t, task[t].rev, gen>>, !.bud = Owner, !.ev = cursor])
        <4>1. <<t, task[t].rev, gen>> \in Nat \X Nat \X Nat
          BY <3>5
        <4> HIDE DEF t
        <4> QED
          BY <3>2, <3>5, <3>7, <4>1, FilledFresh
      <3>9. [r EXCEPT !.key = <<t, task[t].rev, gen>>, !.bud = Owner, !.ev = cursor].kind = r.kind
        BY <3>7 DEF Fresh, IntentRows
      <3>10. Fresh(q) /\ q.kind = "task_boundary"
        BY <3>7, <3>8, <3>9 DEF r
      <3> HIDE DEF q, asks
      <3> QED
        BY <2>2, <3>3, <3>5, <3>10, EnteredAside
    <2> QED
      BY <2>1, <2>2
  <1>2. StepEnds(M, "completed")
    BY DEF FinishOpen
  <1>3. /\ task' \in [Tasks -> TaskRows] /\ TaskStep(task, task')
        /\ cp' \in [Checkpoints -> CheckpointRows]
    <2>1. CASE yields
      BY <2>1, YieldTyped DEF FinishOpen
    <2>2. CASE ~ yields
      BY <2>2, NothingWritten DEF FinishOpen
    <2> QED
      BY <2>1, <2>2
  <1>4. lc' \in Lifecycle
    BY NothingWritten DEF FinishOpen, Lifecycle, StoodDown
  <1>5. /\ approach' \in [Tasks -> [Approaches -> Accounts]]
        /\ settled' \in [Checkpoints -> Nat \cup {Unset}]
    BY NothingWritten DEF FinishOpen
  <1> HIDE DEF M
  <1> QED
    BY <1>1, <1>2, <1>3, <1>4, <1>5, FinishTypes DEF FinishOpen

LEMMA FinishClosedSound ==
    ASSUME TypeInv, FinishClosed
    PROVE  TypeInv' /\ EndStep
  <1>1. lc' \in Lifecycle
    BY DEF FinishClosed, Lifecycle, StoodDown
  <1> QED
    BY <1>1, NothingWritten, FinishTypes DEF FinishClosed, Done

LEMMA ConsumedIsNat ==
    ASSUME NEW E \in Seq(EpochRows), NEW n
    PROVE  Consumed(E, n) \in Nat
  <1> DEFINE D == {e \in DOMAIN E : e > n /\ E[e].budget = None /\ E[e].work}
  <1>1. IsFiniteSet(1..Len(E)) /\ D \subseteq 1..Len(E)
    BY FS_Interval
  <1>2. IsFiniteSet(D)
    BY <1>1, FS_Subset
  <1> HIDE DEF D
  <1>3. Cardinality(D) \in Nat
    BY <1>2, FS_CardinalityType
  <1> QED
    BY <1>3 DEF Consumed, D

LEMMA SettledTyped ==
    ASSUME TypeInv, NEW c \in Checkpoints, NEW n \in Nat
    PROVE  /\ ApproachSettled(approach, settled, cp, c, n) \in [Tasks -> [Approaches -> Accounts]]
           /\ CheckpointSettled(settled, c, n) \in [Checkpoints -> Nat \cup {Unset}]
  <1>1. /\ approach \in [Tasks -> [Approaches -> Accounts]] /\ cp[c].budget \in Nat
        /\ settled \in [Checkpoints -> Nat \cup {Unset}]
    BY DEF TypeInv, TypeOK, CheckpointRows
  <1> DEFINE t == cp[c].task
             a == cp[c].approach
             A == IF approach[t][a].limit = 0 THEN [approach EXCEPT ![t][a].limit = cp[c].budget]
                  ELSE approach
  <1>2. A \in [Tasks -> [Approaches -> Accounts]]
    BY <1>1, LimitTyped
  <1>3. ApproachSettled(approach, settled, cp, c, n) =
           IF settled[c] # Unset THEN A ELSE [A EXCEPT ![t][a].used = @ + n]
    BY DEF ApproachSettled
  <1> HIDE DEF A
  <1>4. [A EXCEPT ![t][a].used = @ + n] \in [Tasks -> [Approaches -> Accounts]]
    BY <1>2, DebitTyped
  <1>5. CheckpointSettled(settled, c, n) \in [Checkpoints -> Nat \cup {Unset}]
    BY <1>1 DEF CheckpointSettled
  <1> QED
    BY <1>2, <1>3, <1>4, <1>5

LEMMA FinishContinuedSound ==
    ASSUME TypeInv, FinishContinued
    PROVE  TypeInv' /\ EndStep
  <1> DEFINE c == Latest(task)
             n == Consumed(epoch, cp[c].cursor)
             quitting == \E i \in Queued(row) : row[i].kind = "quit"
             q == [New("task_continue", cp[c].task) EXCEPT !.key = <<c, 0, 0>>, !.cp = c,
                                                           !.ev = cp[c].cursor]
             M == IF quitting THEN row ELSE Entered(row, q)
  <1>1. c \in Checkpoints /\ n \in Nat
    <2>1. c \in Checkpoints
      BY CurrentTyped DEF FinishContinued, NewCheckpoint, TypeInv, TypeOK
    <2>2. epoch \in Seq(EpochRows)
      BY DEF TypeInv, TypeOK
    <2> QED
      BY <2>1, <2>2, ConsumedIsNat
  <1>2. /\ approach' \in [Tasks -> [Approaches -> Accounts]]
        /\ settled' \in [Checkpoints -> Nat \cup {Unset}]
    <2>1. /\ approach' = ApproachSettled(approach, settled, cp, c, n)
          /\ settled' = CheckpointSettled(settled, c, n)
      BY DEF FinishContinued
    <2> HIDE DEF c, n
    <2> QED
      BY <1>1, <2>1, SettledTyped
  <1>3. Aside(row, M)
    <2>1. CASE quitting
      BY <2>1, NothingWritten
    <2>2. CASE ~ quitting
      <3>1. TypeOK /\ Space
        BY <2>2 DEF FinishContinued, TypeInv
      <3>2. \E i \in Intents : row[i].state = "absent"
        BY <3>1, SpaceIsARow
      <3>3. cp[c] \in CheckpointRows /\ row \in [Intents -> IntentRows] /\ c \in Nat
        BY <1>1, <3>1 DEF TypeOK, Checkpoints
      <3>4. cp[c].task \in Tasks \cup {None} /\ cp[c].cursor \in Nat
        BY <3>3 DEF CheckpointRows
      <3> HIDE DEF c
      <3>5. <<c, 0, 0>> \in Nat \X Nat \X Nat
        BY <3>3
      <3>6. "task_continue" \in Kinds
        BY DEF Kinds
      <3> DEFINE r == New("task_continue", cp[c].task)
      <3>7. Fresh(r) /\ r.kind = "task_continue"
        BY <3>4, <3>6, NewFresh
      <3> HIDE DEF r
      <3>8. Fresh([r EXCEPT !.key = <<c, 0, 0>>, !.cp = c, !.ev = cp[c].cursor])
        BY <1>1, <3>4, <3>5, <3>7, FilledFresh
      <3>9. [r EXCEPT !.key = <<c, 0, 0>>, !.cp = c, !.ev = cp[c].cursor].kind = r.kind
        BY <3>7 DEF Fresh, IntentRows
      <3>10. Fresh(q) /\ q.kind = "task_continue"
        BY <3>7, <3>8, <3>9 DEF r
      <3> HIDE DEF q, quitting
      <3> QED
        BY <2>2, <3>2, <3>3, <3>10, EnteredAside
    <2> QED
      BY <2>1, <2>2
  <1>4. StepEnds(M, "completed")
    BY DEF FinishContinued
  <1> HIDE DEF M
  <1> QED
    BY <1>2, <1>3, <1>4, NothingWritten, FinishTypes DEF FinishContinued

LEMMA FinishParkedSound ==
    ASSUME TypeInv, FinishParked
    PROVE  TypeInv' /\ EndStep
  <1> DEFINE quitting == \E i \in Queued(row) : row[i].kind = "quit"
  <1>1. /\ task' \in [Tasks -> TaskRows] /\ TaskStep(task, task')
        /\ cp' \in [Checkpoints -> CheckpointRows]
    <2>1. CASE quitting
      <3>1. Current(task) # None
        BY CurrentTyped DEF FinishParked, NewCheckpoint, TypeInv, TypeOK
      <3> QED
        BY <2>1, <3>1, YieldTyped DEF FinishParked
    <2>2. CASE ~ quitting
      BY <2>2, NothingWritten DEF FinishParked
    <2> QED
      BY <2>1, <2>2
  <1>2. lc' \in Lifecycle
    BY DEF FinishParked, Lifecycle, StoodDown
  <1>3. /\ approach' \in [Tasks -> [Approaches -> Accounts]]
        /\ settled' \in [Checkpoints -> Nat \cup {Unset}]
    BY NothingWritten DEF FinishParked
  <1> QED
    BY <1>1, <1>2, <1>3, NothingWritten, FinishTypes DEF FinishParked, Done

LEMMA FinishStoppedSound ==
    ASSUME TypeInv, FinishStopped
    PROVE  TypeInv' /\ EndStep
  <1> DEFINE t == Current(task)
             asked == lc = "resuming" /\ Queued(row) = {}
             running == t # None /\ task[t].status = "running"
             enters == asked /\ (running \/ mourning)
             u == IF running THEN t ELSE None
             q == [New("resumed", u) EXCEPT !.key = <<boot, gen, attempts>>]
             M == IF enters THEN Entered(row, q) ELSE row
  <1>1. Aside(row, M)
    <2>1. CASE ~ enters
      BY <2>1, NothingWritten
    <2>2. CASE enters
      <3>1. TypeOK /\ Space
        BY <2>2 DEF FinishStopped, TypeInv
      <3>2. \E i \in Intents : row[i].state = "absent"
        BY <3>1, SpaceIsARow
      <3>3. /\ u \in Tasks \cup {None} /\ row \in [Intents -> IntentRows]
            /\ <<boot, gen, attempts>> \in Nat \X Nat \X Nat
        BY <3>1, CurrentTyped DEF TypeOK
      <3>4. "resumed" \in Kinds
        BY DEF Kinds, RecoveryKinds
      <3> HIDE DEF u
      <3> DEFINE r == New("resumed", u)
      <3>5. Fresh(r) /\ r.kind = "resumed"
        BY <3>3, <3>4, NewFresh
      <3> HIDE DEF r
      <3>6. Fresh([r EXCEPT !.key = <<boot, gen, attempts>>])
        BY <3>3, <3>5, FilledFresh
      <3>7. [r EXCEPT !.key = <<boot, gen, attempts>>].kind = r.kind
        BY <3>5 DEF Fresh, IntentRows
      <3>8. Fresh(q) /\ q.kind = "resumed"
        BY <3>5, <3>6, <3>7 DEF r
      <3> HIDE DEF q, enters
      <3> QED
        BY <2>2, <3>2, <3>3, <3>8, EnteredAside
    <2> QED
      BY <2>1, <2>2
  <1>2. StepEnds(M, "completed")
    BY DEF FinishStopped
  <1>3. lc' \in Lifecycle
    BY NothingWritten DEF FinishStopped, Lifecycle, StoodDown
  <1> HIDE DEF M
  <1> QED
    BY <1>1, <1>2, <1>3, NothingWritten, FinishTypes DEF FinishStopped

\* ----- between steps: terminal truth, a crash, a start -------------------------------

(* Terminal truth is looked at when nothing is in hand or owed.            *)
VerifyStep == /\ pc = "verify" /\ pc' \in {"idle", "down"} /\ owed' = NotOwed
              /\ Aside(row, row') /\ TaskStep(task, task') /\ driven' = driven

LEMMA VerifyTypes ==
    ASSUME TypeInv, pc = "verify", pc' = "idle", owed' = NotOwed,
           task' \in [Tasks -> TaskRows], TaskStep(task, task'), Aside(row, row'), lc' \in Lifecycle,
           UNCHANGED <<cp, approach, settled, epoch, boot, stale, cur, before, gen, attempts, retries,
                       cursor, open, mourning, alive, left, driven, reserved>>
    PROVE  TypeInv' /\ VerifyStep
  <1>1. row' \in [Intents -> IntentRows]
    BY DEF Aside
  <1>2. owed' \in [task : Tasks \cup {None}, bud : Checkpoints \cup {None}]
    BY DEF NotOwed
  <1>3. TypeInv'
    BY <1>1, <1>2 DEF TypeInv, TypeOK, InStep, BoundPcs, Pcs
  <1> QED
    BY <1>3 DEF VerifyStep

LEMMA VerifySatisfiedSound ==
    ASSUME TypeInv, VerifySatisfied
    PROVE  TypeInv' /\ VerifyStep
  <1>1. task' \in [Tasks -> TaskRows] /\ TaskStep(task, task')
    <2>1. "completed" \in Statuses \ {"absent"}
      BY DEF Statuses, Foreground
    <2> QED
      BY <2>1, MovedTyped DEF VerifySatisfied, TaskCompleted, TypeInv, TypeOK
  <1>2. Aside(row, row')
    BY SupersededAside DEF VerifySatisfied, GoalCompleted, TypeInv, TypeOK
  <1>3. lc' \in Lifecycle
    BY DEF VerifySatisfied, StoodDown, Lifecycle
  <1> QED
    BY <1>1, <1>2, <1>3, VerifyTypes DEF VerifySatisfied

(* The continuation that a completion request interrupted is a checkpoint. *)
LEMMA GreatestIsMember ==
    ASSUME NEW S \in SUBSET Checkpoints, S # {}
    PROVE  Max(S) \in S
  <1> DEFINE f == [i \in 1..MaxCheckpoints |-> i]
  <1>1. f \in [1..MaxCheckpoints -> Nat]
    OBVIOUS
  <1>2. \E j \in S : \A k \in S : f[k] <= f[j]
    <2> HIDE DEF f
    <2> QED
      BY <1>1, GreatestPlace, StoreAssumption DEF Checkpoints
  <1>3. \E j \in S : \A k \in S : j >= k
    BY <1>2, StoreAssumption DEF Checkpoints
  <1> QED
    BY <1>3 DEF Max

LEMMA ReviewOwnerTyped ==
    ASSUME TypeInv
    PROVE  ReviewOwner(task, cp) \in Checkpoints \cup {None}
  <1> DEFINE mine == {c \in Checkpoints : cp[c].task = Current(task)}
             pending == Max(mine)
             owner == Max(mine \ {pending})
  <1>1. ASSUME Cardinality(mine) >= 2 PROVE owner \in Checkpoints
    <2>1. IsFiniteSet(mine) /\ Cardinality(mine) \in Nat
      <3>1. IsFiniteSet(1..MaxCheckpoints) /\ mine \subseteq 1..MaxCheckpoints
        BY FS_Interval, StoreAssumption DEF Checkpoints
      <3> HIDE DEF mine
      <3> QED
        BY <3>1, FS_Subset, FS_CardinalityType
    <2>2. mine \in SUBSET Checkpoints
      OBVIOUS
    <2> HIDE DEF mine
    <2>3. Cardinality(mine \ {pending}) >= 1 /\ IsFiniteSet(mine \ {pending})
      BY <1>1, <2>1, FS_RemoveElement
    <2>4. mine \ {pending} # {}
      BY <2>3, FS_EmptySet
    <2>5. owner \in mine \ {pending}
      BY <2>2, <2>4, GreatestIsMember
    <2> QED
      BY <2>2, <2>5
  <1>2. ReviewOwner(task, cp) \in {owner, None} /\
        (ReviewOwner(task, cp) # None => Cardinality(mine) >= 2 /\ ReviewOwner(task, cp) = owner)
    BY DEF ReviewOwner
  <1> HIDE DEF mine, owner
  <1> QED
    BY <1>1, <1>2

LEMMA VerifyRejectedSound ==
    ASSUME TypeInv, VerifyRejected
    PROVE  TypeInv' /\ VerifyStep
  <1>1. /\ TypeOK /\ Current(task) \in Tasks /\ Latest(task) \in Checkpoints
        /\ row \in [Intents -> IntentRows]
    BY CurrentTyped DEF TypeInv, TypeOK, VerifyRejected, CompletionRequested
  <1>2. task' \in [Tasks -> TaskRows] /\ TaskStep(task, task')
    <2>1. "running" \in Statuses \ {"absent"}
      BY DEF Statuses, Foreground
    <2> QED
      BY <2>1, MovedTyped DEF VerifyRejected, CompletionRequested, TypeInv, TypeOK
  <1> DEFINE t == Current(task)
             c == Latest(task)
             o == ReviewOwner(task, cp)
             b == IF o = None THEN Unset ELSE o
             r == New("completion_review", t)
             q == [r EXCEPT !.key = <<t, c, 0>>, !.cp = c, !.bud = b]
  <1>3. Aside(row, row')
    <2>1. row' = Entered(row, q)
      BY DEF VerifyRejected
    <2>2. \E i \in Intents : row[i].state = "absent"
      BY <1>1, SpaceIsARow DEF VerifyRejected
    <2>3. b \in Checkpoints \cup {None, Unset} /\ <<t, c, 0>> \in Nat \X Nat \X Nat
      BY <1>1, ReviewOwnerTyped DEF Tasks, Checkpoints
    <2> HIDE DEF t, c, b
    <2>4. Fresh(r) /\ r.kind = "completion_review"
      <3>1. "completion_review" \in Kinds /\ t \in Tasks \cup {None}
        BY <1>1 DEF Kinds, t
      <3> QED
        BY <3>1, NewFresh
    <2> HIDE DEF r
    <2>5. Fresh(q)
      BY <1>1, <2>3, <2>4, FilledFresh DEF c
    <2>6. q.kind = r.kind
      BY <2>4 DEF Fresh, IntentRows
    <2> HIDE DEF q
    <2> QED
      BY <1>1, <2>1, <2>2, <2>4, <2>5, <2>6, EnteredAside
  <1> QED
    BY <1>1, <1>2, <1>3, VerifyTypes DEF VerifyRejected, TypeOK

LEMMA VerifyRejectedCrashSound ==
    ASSUME TypeInv, VerifyRejectedCrash
    PROVE  TypeInv' /\ VerifyStep
  <1>1. task' \in [Tasks -> TaskRows] /\ TaskStep(task, task')
    <2>1. "running" \in Statuses \ {"absent"}
      BY DEF Statuses, Foreground
    <2> QED
      BY <2>1, MovedTyped DEF VerifyRejectedCrash, CompletionRequested, TypeInv, TypeOK
  <1>2. left' \in LoadRecords
    BY LoadSpent DEF VerifyRejectedCrash, TypeInv, TypeOK, LoadRecords
  <1>3. owed' \in [task : Tasks \cup {None}, bud : Checkpoints \cup {None}]
    BY DEF VerifyRejectedCrash, NotOwed
  <1>4. Aside(row, row')
    BY NothingAside DEF VerifyRejectedCrash, TypeInv, TypeOK
  <1>5. VerifyStep
    BY <1>1, <1>4 DEF VerifyRejectedCrash, VerifyStep, ProcessEnds
  <1>6. TypeInv'
    BY <1>1, <1>2, <1>3
    DEF VerifyRejectedCrash, TypeInv, TypeOK, InStep, BoundPcs, ProcessEnds, Pcs, Lifecycle, LoadRecords
  <1> QED
    BY <1>5, <1>6

LEMMA VerifyNothingSound ==
    ASSUME TypeInv, VerifyNothing
    PROVE  TypeInv' /\ VerifyStep
  <1>1. lc' \in Lifecycle /\ task' = task /\ row' = row
    BY DEF VerifyNothing, TypeInv, TypeOK, db
  <1> QED
    BY <1>1, NothingWritten, VerifyTypes DEF VerifyNothing, db

LEMMA CrashSound ==
    ASSUME TypeInv, Crash
    PROVE  TypeInv'
  <1>1. left' \in LoadRecords
    BY LoadSpent DEF Crash, TypeInv, TypeOK, LoadRecords
  <1>2. owed' \in [task : Tasks \cup {None}, bud : Checkpoints \cup {None}]
    <2>1. CASE pc \in BoundPcs
      <3>1. row[cur].admTask \in Tasks \cup {None} /\ row[cur].bud \in Checkpoints \cup {None}
        BY <2>1 DEF TypeInv
      <3> QED
        BY <3>1 DEF Crash, NotOwed, TypeInv, TypeOK
    <2>2. CASE pc \notin BoundPcs
      BY <2>2 DEF Crash, NotOwed, TypeInv, TypeOK, BoundPcs
    <2> QED
      BY <2>1, <2>2
  <1> QED
    BY <1>1, <1>2
    DEF Crash, TypeInv, TypeOK, InStep, BoundPcs, ProcessEnds, Pcs, Lifecycle, LoadRecords, db

(* A start gives up what was leased: its outcome is unknown.               *)
Orphaned(r) == [r EXCEPT !.state = "failed", !.orphan = TRUE]
BootStep ==
    /\ pc = "down" /\ pc' = "reconcile"
    /\ \A i \in Intents :
          IF row[i].state = "leased" THEN row'[i] = Orphaned(row[i])
          ELSE row'[i] = row[i] \/ Gone(row[i], row'[i])
    /\ UNCHANGED <<task, cur, driven, owed>>

LEMMA RowOrphaned ==
    ASSUME NEW r \in IntentRows
    PROVE  /\ Orphaned(r) \in IntentRows /\ SameRow(Orphaned(r), r)
           /\ Orphaned(r).state = "failed"
  <1>1. Orphaned(r) \in IntentRows
    BY Zenon DEF Orphaned, IntentRows, Terminal
  <1>2. SameRow(Orphaned(r), r) /\ Orphaned(r).state = "failed"
    BY DEF Orphaned, SameRow, IntentRows
  <1> QED
    BY <1>1, <1>2

LEMMA RowMarked ==
    ASSUME NEW r \in IntentRows
    PROVE  Orphaned(r).orphan
  BY DEF Orphaned, IntentRows

LEMMA BootSound ==
    ASSUME TypeInv, Boot
    PROVE  TypeInv' /\ BootStep
  <1> DEFINE M == [i \in Intents |-> IF row[i].state # "leased" THEN row[i] ELSE Orphaned(row[i])]
  <1>1. row \in [Intents -> IntentRows]
    BY DEF TypeInv, TypeOK
  <1>2. M \in [Intents -> IntentRows]
    BY <1>1, RowOrphaned
  <1>3. \A i \in Intents : M[i] = IF row[i].state # "leased" THEN row[i] ELSE Orphaned(row[i])
    OBVIOUS
  <1>4. row' = SupersededIn(M, {"quit"})
    BY DEF Boot, Orphaned
  <1> HIDE DEF M
  <1>5. /\ row' \in [Intents -> IntentRows]
        /\ \A i \in Intents : row'[i] = M[i] \/ (M[i].state = "queued" /\ row'[i] = InState(M[i], "superseded"))
    BY <1>2, <1>4, SupersededRow
  <1>6. \A i \in Intents : row[i].state = "leased" => M[i].state = "failed" /\ M[i] = Orphaned(row[i])
    BY <1>1, <1>3, RowOrphaned
  <1>7. BootStep
    BY <1>3, <1>5, <1>6 DEF Boot, BootStep, Gone, history
  <1>8. /\ boot' = boot + 1 /\ pc' = "reconcile"
        /\ UNCHANGED <<task, cp, approach, settled, epoch, stale, cur, before, lc, gen, attempts,
                       retries, cursor, open, mourning, alive, left, history>>
    BY DEF Boot
  <1>9. TypeInv'
    BY <1>5, <1>8, SMTT(40) DEF TypeInv, TypeOK, InStep, BoundPcs, Pcs, history
  <1> QED
    BY <1>7, <1>9

(* What is interrupted has an owner and a cursor.                          *)
LEMMA InterruptedTyped ==
    ASSUME TypeInv, NEW S, S \subseteq Intents
    PROVE  \A i \in Interrupted(S) : /\ i \in Intents /\ row[i].bud \in Checkpoints \cup {None}
                                     /\ CursorOf(row[i]) \in Nat /\ Current(task) \in Tasks
  <1> SUFFICES ASSUME NEW i \in Interrupted(S)
               PROVE  /\ i \in Intents /\ row[i].bud \in Checkpoints \cup {None}
                      /\ CursorOf(row[i]) \in Nat /\ Current(task) \in Tasks
    OBVIOUS
  <1>1. i \in Intents /\ Carrying(row[i]) /\ row[i] \in IntentRows /\ task \in [Tasks -> TaskRows]
    BY DEF Interrupted, TypeInv, TypeOK
  <1>2. /\ Current(task) # None /\ row[i].bud # Unset /\ (row[i].adm # Unset \/ row[i].ev # Unset)
    BY <1>1 DEF Carrying
  <1>3. /\ row[i].bud \in Checkpoints \cup {None, Unset} /\ row[i].adm \in Nat \cup {Unset}
        /\ row[i].ev \in Nat \cup {Unset}
    BY <1>1 DEF IntentRows
  <1>4. CursorOf(row[i]) \in Nat
    BY <1>2, <1>3 DEF CursorOf
  <1> QED
    BY <1>1, <1>2, <1>3, <1>4, CurrentTyped

(* A start goes on only when all that is interrupted has one owner.        *)
LEMMA OneOwner ==
    ASSUME TypeInv, NEW S, S \subseteq Intents,
           Cardinality({row[i].bud : i \in Interrupted(S)}) <= 1
    PROVE  \A i, j \in Interrupted(S) : row[i].bud = row[j].bud
  <1> DEFINE O == {row[i].bud : i \in Interrupted(S)}
  <1> SUFFICES ASSUME NEW i \in Interrupted(S), NEW j \in Interrupted(S), row[i].bud # row[j].bud
               PROVE  FALSE
    OBVIOUS
  <1>1. IsFiniteSet(O) /\ Cardinality(O) \in Nat
    <2>1. IsFiniteSet(0..MaxCheckpoints)
      BY FS_Interval, StoreAssumption
    <2>2. O \subseteq 0..MaxCheckpoints
      BY InterruptedTyped, StoreAssumption DEF Checkpoints, None
    <2> HIDE DEF O
    <2> QED
      BY <2>1, <2>2, FS_Subset, FS_CardinalityType
  <1>2. row[i].bud \in O /\ row[j].bud \in O \ {row[i].bud}
    OBVIOUS
  <1>3. Cardinality(O) <= 1
    OBVIOUS
  <1> HIDE DEF O
  <1>4. IsFiniteSet(O \ {row[i].bud}) /\ Cardinality(O \ {row[i].bud}) = Cardinality(O) - 1
    BY <1>1, <1>2, FS_RemoveElement
  <1>5. Cardinality(O \ {row[i].bud}) \in Nat
    BY <1>4, FS_CardinalityType
  <1>6. Cardinality(O \ {row[i].bud}) = 0
    BY <1>1, <1>3, <1>4, <1>5
  <1> QED
    BY <1>2, <1>4, <1>6, FS_EmptySet

LEMMA StartupTyped ==
    ASSUME TypeInv, NEW d \in Decided
    PROVE  LET r == StartupRow(d) IN
           /\ Fresh(r) /\ r.kind = "startup" /\ r.task = Current(task)
           /\ Interrupted(stale) # {} =>
                \E i \in Interrupted(stale) : /\ r.bud = row[i].bud /\ r.ev \in Nat
                                              /\ r.admTask = Current(task)
  <1>0. stale \subseteq Intents
    BY DEF TypeInv, TypeOK
  <1> DEFINE n == New("startup", Current(task))
             p == [n EXCEPT !.decision = d]
  <1>1. Current(task) \in Tasks \cup {None} /\ "startup" \in Kinds
    BY CurrentTyped DEF TypeInv, TypeOK, Kinds, RecoveryKinds
  <1>2. Fresh(n) /\ n.kind = "startup" /\ n.task = Current(task)
    BY <1>1, NewFresh
  <1> HIDE DEF n
  <1>3. Fresh(p)
    BY <1>2, FilledFresh
  <1>4. p.kind = "startup" /\ p.task = Current(task)
    BY <1>2 DEF Fresh, IntentRows
  <1>5. StartupRow(d) =
           IF Interrupted(stale) = {} THEN p
           ELSE [p EXCEPT !.bud = row[Min(Interrupted(stale))].bud,
                          !.ev = Min({CursorOf(row[i]) : i \in Interrupted(stale)}),
                          !.admTask = Current(task)]
    BY DEF StartupRow, n
  <1> HIDE DEF p
  <1>6. CASE Interrupted(stale) = {}
    BY <1>3, <1>4, <1>5, <1>6
  <1>7. CASE Interrupted(stale) # {}
    <2> DEFINE E == {CursorOf(row[i]) : i \in Interrupted(stale)}
    <2>1. Min(Interrupted(stale)) \in Interrupted(stale)
      <3>1. Interrupted(stale) \in SUBSET Nat
        BY StoreAssumption DEF Interrupted, Intents
      <3> QED
        BY <1>7, <3>1, LeastIsMember
    <2>2. Min(E) \in Nat
      <3>1. E \in SUBSET Nat /\ E # {}
        BY <1>0, <1>7, InterruptedTyped
      <3> HIDE DEF E
      <3> QED
        BY <3>1, LeastIsMember
    <2>3. PICK i \in Interrupted(stale) : i = Min(Interrupted(stale))
      BY <2>1
    <2>4. PICK b \in Checkpoints \cup {None} : b = row[i].bud
      BY <1>0, InterruptedTyped
    <2>5. PICK e \in Nat : e = Min(E)
      BY <2>2
    <2>6. PICK t \in Tasks \cup {None} : t = Current(task)
      BY <1>1
    <2>7. StartupRow(d) = [p EXCEPT !.bud = b, !.ev = e, !.admTask = t]
      BY <1>5, <1>7, <2>3, <2>4, <2>5, <2>6
    <2> DEFINE q == [p EXCEPT !.bud = b, !.ev = e, !.admTask = t]
    <2>8. Fresh(q)
      BY <1>3, FilledFresh
    <2>9. q.kind = p.kind /\ q.task = p.task /\ q.bud = b /\ q.ev = e /\ q.admTask = t
      BY <1>3 DEF Fresh, IntentRows
    <2> HIDE DEF q
    <2>10. StartupRow(d) = q
      BY <2>7 DEF q
    <2> QED
      BY <1>4, <2>4, <2>6, <2>8, <2>9, <2>10
  <1> QED
    BY <1>6, <1>7

(* Older recovery work is superseded when what is interrupted has one      *)
(* owner; then the first intent of the process takes over from it.         *)
SupersedeStep ==
    /\ pc = "reconcile" /\ pc' = "refresh" /\ RefreshInv'
    /\ \A i \in Intents : row'[i] = row[i] \/ Gone(row[i], row'[i])
    /\ UNCHANGED <<task, cur, driven, owed>>
ReconcileStep ==
    /\ pc = "refresh" /\ pc' = "idle"
    /\ \E r \in IntentRows :
          /\ Fresh(r) /\ r.state = "queued" /\ r.kind = "startup" /\ r.task = Current(task)
          /\ Interrupted(stale) # {} =>
                \E j \in Interrupted(stale) : /\ r.admTask = Current(task)
                                              /\ r.bud = row[j].bud /\ r.ev \in Nat
          /\ \A i \in Intents : \/ row'[i] = row[i]
                                \/ row[i].state = "absent" /\ row'[i] = r
    /\ UNCHANGED <<task, cur, driven, owed>>

(* A row in another state is interrupted as before.                        *)
LEMMA SupersedeSound ==
    ASSUME TypeInv, SupersedeStale
    PROVE  TypeInv' /\ SupersedeStep
  <1> DEFINE ks == RecoveryKinds \cup {"body_event", "task_continue"}
             S == StaleRecovery
  <1>1. row \in [Intents -> IntentRows]
    BY DEF TypeInv, TypeOK
  <1>2. S \subseteq Intents
    BY DEF StaleRecovery, Queued
  <1>3. /\ pc = "reconcile" /\ pc' = "refresh" /\ stale' = S
        /\ UNCHANGED <<task, cp, approach, settled, epoch, boot, cur, before, lc, gen, attempts, retries,
                       cursor, open, mourning, alive, left, history>>
    BY DEF SupersedeStale
  <1>4. /\ row' \in [Intents -> IntentRows]
        /\ \A i \in Intents : row'[i] = IF row[i].state = "queued" /\ row[i].kind \in ks
                                        THEN InState(row[i], "superseded") ELSE row[i]
    BY <1>1, SupersededRow DEF SupersedeStale
  <1>5. \A i, j \in Interrupted(S) : row[i].bud = row[j].bud
    BY <1>2, OneOwner DEF SupersedeStale
  <1> HIDE DEF S
  <1>6. ASSUME NEW i \in Intents
        PROVE  /\ SameRow(row'[i], row[i]) /\ row'[i].orphan = row[i].orphan
               /\ ~ (row'[i].state = "queued" /\ row'[i].kind \in RecoveryKinds)
    <2>1. CASE row[i].state = "queued" /\ row[i].kind \in ks
      <3>1. row'[i] = InState(row[i], "superseded")
        BY <1>4, <2>1
      <3> QED
        BY <1>1, <3>1, RowInState DEF Terminal
    <2>2. CASE ~ (row[i].state = "queued" /\ row[i].kind \in ks)
      <3>1. row'[i] = row[i]
        BY <1>4, <2>2
      <3> QED
        BY <2>2, <3>1 DEF SameRow
    <2> QED
      BY <2>1, <2>2
  <1>7. ASSUME NEW i \in Interrupted(stale)'
        PROVE  i \in Interrupted(S) /\ row'[i].bud = row[i].bud
    <2>1. i \in Intents /\ (row'[i].orphan \/ i \in S) /\ Carrying(row[i])'
      BY <1>3 DEF Interrupted
    <2>2. SameRow(row'[i], row[i]) /\ row'[i].orphan = row[i].orphan
      BY <1>6, <2>1
    <2>3. Carrying(row[i])
      BY <1>3, <2>1, <2>2 DEF Carrying, SameRow
    <2> QED
      BY <2>1, <2>2, <2>3 DEF Interrupted, SameRow
  <1>8. RefreshInv'
    BY <1>5, <1>6, <1>7 DEF RefreshInv
  <1>9. SupersedeStep
    BY <1>3, <1>4, <1>8 DEF SupersedeStep, Gone, history
  <1>10. TypeInv'
    BY <1>2, <1>3, <1>4, SMTT(40) DEF TypeInv, TypeOK, InStep, BoundPcs, Pcs, history
  <1> QED
    BY <1>9, <1>10

LEMMA DecisionsTyped == Decisions \subseteq Decided
  BY DEF Decisions, Decided

LEMMA ReconcileSound ==
    ASSUME TypeInv, Reconcile
    PROVE  TypeInv' /\ ReconcileStep
  <1>1. PICK d \in Decided : row' = Entered(row, StartupRow(d))
    BY DecisionsTyped DEF Reconcile
  <1>2. PICK s \in IntentRows :
           /\ s = StartupRow(d) /\ Fresh(s) /\ s.kind = "startup" /\ s.task = Current(task)
           /\ Interrupted(stale) # {} =>
                 \E i \in Interrupted(stale) : /\ s.bud = row[i].bud /\ s.ev \in Nat
                                               /\ s.admTask = Current(task)
    BY StartupTyped DEF Fresh
  <1>3. row \in [Intents -> IntentRows] /\ \E i \in Intents : row[i].state = "absent"
    BY SpaceIsARow DEF Reconcile, TypeInv, TypeOK
  <1> DEFINE r == InState(s, "queued")
  <1>4. /\ row' \in [Intents -> IntentRows]
        /\ \A i \in Intents : row'[i] = row[i] \/ (row[i].state = "absent" /\ row'[i] = r)
    BY <1>1, <1>2, <1>3, EnteredRow
  <1>5. r \in IntentRows /\ SameRow(r, s) /\ r.state = "queued"
    BY <1>2, RowInState
  <1>6. r.orphan = s.orphan
    BY <1>2, RowInState
  <1> HIDE DEF r
  <1>7. Fresh(r) /\ r.kind = "startup" /\ r.task = Current(task)
    BY <1>2, <1>5, <1>6 DEF Fresh, SameRow
  <1>8. Interrupted(stale) # {} =>
           \E j \in Interrupted(stale) : /\ r.admTask = Current(task)
                                         /\ r.bud = row[j].bud /\ r.ev \in Nat
    BY <1>2, <1>5 DEF SameRow
  <1>9. /\ pc = "refresh" /\ pc' = "idle" /\ stale' = {}
        /\ UNCHANGED <<task, cp, approach, settled, epoch, boot, cur, before, lc, gen, attempts, retries,
                       cursor, open, mourning, alive, left, history>>
    BY DEF Reconcile
  <1>10. ReconcileStep
    BY <1>4, <1>5, <1>7, <1>8, <1>9 DEF ReconcileStep, history
  <1>11. TypeInv'
    BY <1>4, <1>9, SMTT(40) DEF TypeInv, TypeOK, InStep, BoundPcs, Pcs, history
  <1> QED
    BY <1>10, <1>11

(* Every step keeps the types, and is of one of twelve shapes; what        *)
(* follows argues about the shapes only.                                   *)
StepShape ==
    \/ BesideStep \/ LeaseStep \/ InsideStep \/ EndStep \/ BindStep
    \/ \E t \in Tasks \cup {None} : ClosedStep(t)
    \/ ReserveStep \/ VerifyStep \/ Crash \/ BootStep \/ SupersedeStep \/ ReconcileStep

LEMMA NextShape ==
    ASSUME TypeInv, Next
    PROVE  TypeInv' /\ StepShape
  <1>1. ASSUME NEW kind \in left.kinds, Submit(kind) PROVE TypeInv' /\ StepShape
    BY <1>1, SubmitSound DEF StepShape
  <1>2. CASE Die \/ WakeUp
    BY <1>2, DieSound, WakeUpSound DEF StepShape
  <1>3. CASE Lease
    BY <1>3, LeaseSound DEF StepShape
  <1>4. CASE Apply
    BY <1>4, ApplyStartSound, ApplyReplaceSound, ApplyTalkSound, ApplyCancelSound, ApplyQuitSound,
       ApplyBodyEventSound, ApplyTaskWorkSound, ApplyRecoverySound DEF StepShape, Apply
  <1>5. CASE ConfirmFails \/ ConfirmPasses \/ TerminalStep
    BY <1>5, ConfirmFailsSound, ConfirmPassesSound, TerminalStepSound DEF StepShape
  <1>6. CASE Admit \/ ReserveFails \/ Reserve
    BY <1>6, AdmitSound, ReserveFailsSound, ReserveSound DEF StepShape
  <1>7. CASE RecoveryFails \/ RecoveryConfirmed
    BY <1>7, RecoveryFailsSound, RecoveryConfirmedSound DEF StepShape
  <1>8. CASE Prepare
    BY <1>8, PrepareSound DEF StepShape
  <1>9. ASSUME NEW work \in BOOLEAN, OpenBatch(work) PROVE TypeInv' /\ StepShape
    BY <1>9, OpenBatchSound DEF StepShape
  <1>10. ASSUME NEW disp \in Dispositions, NEW a \in Approaches, NEW b \in Budgets \cup {0},
                CheckpointTool(disp, a, b)
         PROVE  TypeInv' /\ StepShape
    BY <1>10, CheckpointToolSound DEF StepShape
  <1>11. CASE CloseBatch \/ TurnCompletes \/ TurnStops
    BY <1>11, CloseBatchSound, TurnCompletesSound, TurnStopsSound DEF StepShape
  <1>12. CASE TransportFails \/ TurnFails \/ Preempted
    BY <1>12, TransportFailsSound, TurnFailsSound, PreemptedSound DEF StepShape
  <1>13. CASE Finish
    BY <1>13, FinishOpenSound, FinishClosedSound, FinishContinuedSound, FinishParkedSound,
       FinishStoppedSound DEF StepShape, Finish
  <1>14. CASE Verify
    BY <1>14, VerifySatisfiedSound, VerifyRejectedSound, VerifyRejectedCrashSound,
       VerifyNothingSound DEF StepShape, Verify
  <1>15. CASE Crash
    BY <1>15, CrashSound DEF StepShape
  <1>16. CASE Boot \/ SupersedeStale \/ Reconcile
    BY <1>16, BootSound, SupersedeSound, ReconcileSound DEF StepShape
  <1> QED
    BY <1>1, <1>2, <1>3, <1>4, <1>5, <1>6, <1>7, <1>8, <1>9, <1>10, <1>11, <1>12, <1>13, <1>14,
       <1>15, <1>16 DEF Next

LEMMA StutterTypes == TypeInv /\ UNCHANGED vars => TypeInv'
  BY SMTT(40) DEF TypeInv, TypeOK, vars, db, memory, history

LEMMA TypeInvHolds == Spec => []TypeInv
  <1>1. TypeInv /\ [Next]_vars => TypeInv'
    BY NextShape, StutterTypes
  <1> QED
    BY <1>1, InitTypeInv, PTL DEF Spec

(* Every variable keeps its type, whatever is submitted, dies, crashes or  *)
(* is answered: no operation of the store writes a row of another shape,   *)
(* picks a row, a checkpoint or a head that is not there, or archives more *)
(* batches than there is room for (runtime_state.py, session.py).          *)
THEOREM SessionTypes == Spec => []TypeOK
  BY TypeInvHolds, PTL DEF TypeInv

----------------------------------------------------------------------------
(* The budget of the recovery driver *)

(* A step that leaves every admission where it was keeps the invariant.    *)
RecKept ==
    /\ \A i \in Intents :
          /\ row'[i].rec = row[i].rec
          /\ row[i].rec # NoAdmission => /\ row'[i].admTask = row[i].admTask
                                         /\ row'[i].state # "absent"
    /\ driven' = driven
    /\ pc' # "driving" \/ (pc = "driving" /\ cur' = cur)

LEMMA RecKeptSound ==
    ASSUME RecoveryInv, RecKept
    PROVE  RecoveryInv'
  <1>1. \A t : Admitted(t)' = Admitted(t)
    BY DEF RecKept, Admitted
  <1>2. \A i \in Intents : (row'[i].rec # NoAdmission => Numbered(row'[i]))
    BY DEF RecKept, RecoveryInv, Numbered
  <1>3. \A t : \A j : IsLast(j, t) => IsLast(j, t)'
    <2> SUFFICES ASSUME NEW t, NEW j, IsLast(j, t) PROVE IsLast(j, t)'
      OBVIOUS
    <2>1. Admitted(t) \subseteq Intents /\ j \in Admitted(t)
      BY DEF Admitted, IsLast
    <2> QED
      BY <1>1, <2>1 DEF IsLast, RecKept
  <1>4. \A t \in Tasks \cup {None} :
           \A i, j \in Admitted(t)' : row'[i].rec.seq = row'[j].rec.seq => i = j
    BY <1>1 DEF RecKept, RecoveryInv, Admitted
  <1>5. ASSUME NEW t \in Tasks \cup {None}, driven'[t] > 0
        PROVE  \E j \in Intents : /\ IsLast(j, t)' /\ ~ row'[j].rec.confirmed
                                  /\ driven'[t] <= row'[j].rec.attempt
    <2>1. PICK j \in Intents : /\ IsLast(j, t) /\ ~ row[j].rec.confirmed
                              /\ driven[t] <= row[j].rec.attempt
      BY <1>5 DEF RecKept, RecoveryInv
    <2> QED
      BY <1>3, <2>1 DEF RecKept
  <1>6. pc' = "driving" => IsLast(cur, row[cur].admTask)'
    <2> SUFFICES ASSUME pc' = "driving" PROVE IsLast(cur, row[cur].admTask)'
      OBVIOUS
    <2>1. cur' = cur /\ IsLast(cur, row[cur].admTask)
      BY DEF RecKept, RecoveryInv
    <2>2. cur \in Intents /\ row[cur].rec # NoAdmission
      BY <2>1 DEF IsLast, Admitted
    <2>3. row'[cur].admTask = row[cur].admTask
      BY <2>2 DEF RecKept
    <2>4. PICK t : t = row[cur].admTask /\ IsLast(cur, t)
      BY <2>1
    <2>5. IsLast(cur, t)' /\ row'[cur'].admTask = t
      BY <2>1, <2>3, <2>4, <2>2, <1>1 DEF IsLast, RecKept, Admitted
    <2> QED
      BY <2>5 DEF IsLast, Admitted
  <1> QED
    BY <1>2, <1>4, <1>5, <1>6 DEF RecoveryInv

LEMMA InitRecoveryInv == Init => RecoveryInv
  <1> SUFFICES ASSUME Init PROVE RecoveryInv
    OBVIOUS
  <1>1. \A i \in Intents : row[i].rec = NoAdmission
    BY DEF Init, NoIntents, AbsentIntent
  <1>2. /\ \A t \in Tasks \cup {None} : driven[t] = 0
        /\ pc = "idle"
    BY DEF Init
  <1> QED
    BY <1>1, <1>2 DEF RecoveryInv, Admitted

(* Rows that come and go carry no admission.                               *)
LEMMA AsideRec ==
    ASSUME RecoveryInv, row \in [Intents -> IntentRows], NEW M, Aside(row, M)
    PROVE  \A i \in Intents : /\ M[i].rec = row[i].rec
                              /\ row[i].rec # NoAdmission => /\ M[i].admTask = row[i].admTask
                                                             /\ M[i].state # "absent"
  <1> SUFFICES ASSUME NEW i \in Intents
               PROVE  /\ M[i].rec = row[i].rec
                      /\ row[i].rec # NoAdmission => /\ M[i].admTask = row[i].admTask
                                                     /\ M[i].state # "absent"
    OBVIOUS
  <1>1. row[i].rec # NoAdmission => row[i].state # "absent"
    BY DEF RecoveryInv, Numbered
  <1>2. CASE M[i] = row[i]
    BY <1>1, <1>2
  <1>3. CASE Gone(row[i], M[i])
    <2>1. SameRow(M[i], row[i]) /\ M[i].state = "superseded"
      BY <1>3, RowInState DEF Gone, Terminal
    <2> QED
      BY <2>1 DEF SameRow
  <1>4. CASE Came(row[i], M[i])
    BY <1>1, <1>4 DEF Came, Fresh
  <1> QED
    BY <1>2, <1>3, <1>4 DEF Aside

LEMMA BesideRec == TypeInv /\ RecoveryInv /\ BesideStep => RecKept
  BY AsideRec DEF BesideStep, RecKept, TypeInv, TypeOK

LEMMA VerifyRec == TypeInv /\ RecoveryInv /\ VerifyStep => RecKept
  BY AsideRec DEF VerifyStep, RecKept, TypeInv, TypeOK

LEMMA LeaseRec == TypeInv /\ RecoveryInv /\ LeaseStep => RecKept
  <1> SUFFICES ASSUME TypeInv, RecoveryInv, LeaseStep PROVE RecKept
    OBVIOUS
  <1>1. PICK M \in [Intents -> IntentRows] :
           /\ Aside(row, M) /\ M[cur'].state = "queued"
           /\ row' = [M EXCEPT ![cur'] = InState(M[cur'], "leased")]
    BY DEF LeaseStep
  <1>2. SameRow(InState(M[cur'], "leased"), M[cur']) /\ InState(M[cur'], "leased").state = "leased"
    BY RowInState DEF LeaseStep
  <1>3. \A i \in Intents : /\ row'[i].rec = M[i].rec /\ row'[i].admTask = M[i].admTask
                           /\ row'[i].state = "absent" => M[i].state = "absent"
    BY <1>1, <1>2 DEF SameRow
  <1>4. \A i \in Intents : /\ M[i].rec = row[i].rec
                           /\ row[i].rec # NoAdmission => /\ M[i].admTask = row[i].admTask
                                                          /\ M[i].state # "absent"
    BY <1>1, AsideRec DEF TypeInv, TypeOK
  <1> QED
    BY <1>3, <1>4 DEF LeaseStep, RecKept

LEMMA InsideRec == RecoveryInv /\ InsideStep => RecKept
  BY DEF InsideStep, RecKept, RecoveryInv, Numbered

LEMMA EndRec == TypeInv /\ RecoveryInv /\ EndStep => RecKept
  <1> SUFFICES ASSUME TypeInv, RecoveryInv, EndStep PROVE RecKept
    OBVIOUS
  <1>1. ASSUME NEW i \in Intents
        PROVE  /\ row'[i].rec = row[i].rec
               /\ row[i].rec # NoAdmission => /\ row'[i].admTask = row[i].admTask
                                              /\ row'[i].state # "absent"
    <2>1. row[i].rec # NoAdmission => row[i].state # "absent"
      BY DEF RecoveryInv, Numbered
    <2>2. CASE Settles(row[i], row'[i])
      BY <2>1, <2>2 DEF Settles, SameRow, Terminal
    <2>3. CASE Came(row[i], row'[i])
      BY <2>1, <2>3 DEF Came, Fresh
    <2> QED
      BY <2>2, <2>3 DEF EndStep, EndRows
  <1> QED
    BY <1>1 DEF EndStep, RecKept

LEMMA BindRec == TypeInv /\ RecoveryInv /\ BindStep => RecKept
  <1> SUFFICES ASSUME TypeInv, RecoveryInv, BindStep PROVE RecKept
    OBVIOUS
  <1>1. PICK b \in Checkpoints \cup {None}, e \in Nat :
          /\ MayBind(row[cur], b, e, Current(task))
          /\ \A j \in Intents :
                LET r == IF j = cur THEN Admitting(row[j], b, e, Current(task)) ELSE row[j]
                IN  row'[j] = IF row[cur].kind = "startup" THEN Unmarked(r) ELSE r
    BY DEF BindStep
  <1>2. PICK t \in Tasks \cup {None} : t = Current(task)
    BY CurrentTyped DEF TypeInv, TypeOK
  <1>3. ASSUME NEW i \in Intents
        PROVE  /\ row'[i].rec = row[i].rec
               /\ row[i].rec # NoAdmission => /\ row'[i].admTask = row[i].admTask
                                              /\ row'[i].state # "absent"
    <2>1. /\ row[i].rec # NoAdmission => /\ row[i].state # "absent"
                                         /\ row[i].admTask \in Tasks \cup {None}
          /\ row[i] \in IntentRows
      BY DEF RecoveryInv, Numbered, TypeInv, TypeOK
    <2> DEFINE r == IF i = cur THEN Admitting(row[i], b, e, t) ELSE row[i]
    <2>2. row'[i] = IF row[cur].kind = "startup" THEN Unmarked(r) ELSE r
      BY <1>1, <1>2
    <2>3. r \in IntentRows /\ r.rec = row[i].rec /\ r.state = row[i].state
      BY <2>1, RowAdmitted
    <2>4. row[i].rec # NoAdmission => r.admTask = row[i].admTask
      <3>1. CASE i = cur
        <4>1. row[i].admTask \in {Unset, t} /\ r.admTask = t
          BY <1>1, <1>2, <2>1, <3>1, RowAdmitted DEF MayBind
        <4> QED
          BY <2>1, <4>1 DEF Unset, None, Tasks
      <3>2. CASE i # cur
        BY <3>2
      <3> QED
        BY <3>1, <3>2
    <2> HIDE DEF r
    <2>5. SameRow(Unmarked(r), r) /\ Unmarked(r).state = r.state
      BY <2>3, RowUnmarked
    <2> QED
      BY <2>1, <2>2, <2>3, <2>4, <2>5 DEF SameRow
  <1> QED
    BY <1>3 DEF BindStep, RecKept

LEMMA BootRec == TypeInv /\ RecoveryInv /\ BootStep => RecKept
  <1> SUFFICES ASSUME TypeInv, RecoveryInv, BootStep PROVE RecKept
    OBVIOUS
  <1>1. ASSUME NEW i \in Intents
        PROVE  /\ row'[i].rec = row[i].rec
               /\ row[i].rec # NoAdmission => /\ row'[i].admTask = row[i].admTask
                                              /\ row'[i].state # "absent"
    <2>1. (row[i].rec # NoAdmission => row[i].state # "absent") /\ row[i] \in IntentRows
      BY DEF RecoveryInv, Numbered, TypeInv, TypeOK
    <2>2. CASE row'[i] = Orphaned(row[i])
      BY <2>1, <2>2, RowOrphaned DEF SameRow
    <2>3. CASE row'[i] = row[i]
      BY <2>1, <2>3
    <2>4. CASE Gone(row[i], row'[i])
      BY <2>1, <2>4, RowInState DEF Gone, SameRow, Terminal
    <2> QED
      BY <2>2, <2>3, <2>4 DEF BootStep
  <1> QED
    BY <1>1 DEF BootStep, RecKept

LEMMA SupersedeRec == TypeInv /\ RecoveryInv /\ SupersedeStep => RecKept
  <1> SUFFICES ASSUME TypeInv, RecoveryInv, SupersedeStep PROVE RecKept
    OBVIOUS
  <1>1. ASSUME NEW i \in Intents
        PROVE  /\ row'[i].rec = row[i].rec
               /\ row[i].rec # NoAdmission => /\ row'[i].admTask = row[i].admTask
                                              /\ row'[i].state # "absent"
    <2>1. (row[i].rec # NoAdmission => row[i].state # "absent") /\ row[i] \in IntentRows
      BY DEF RecoveryInv, Numbered, TypeInv, TypeOK
    <2>2. CASE row'[i] = row[i]
      BY <2>1, <2>2
    <2>3. CASE Gone(row[i], row'[i])
      BY <2>1, <2>3, RowInState DEF Gone, SameRow, Terminal
    <2> QED
      BY <2>2, <2>3 DEF SupersedeStep
  <1> QED
    BY <1>1 DEF SupersedeStep, RecKept

LEMMA ReconcileRec == TypeInv /\ RecoveryInv /\ ReconcileStep => RecKept
  <1> SUFFICES ASSUME TypeInv, RecoveryInv, ReconcileStep PROVE RecKept
    OBVIOUS
  <1>1. PICK r \in IntentRows :
          /\ Fresh(r) /\ r.state = "queued"
          /\ \A i \in Intents : \/ row'[i] = row[i]
                                \/ row[i].state = "absent" /\ row'[i] = r
    BY DEF ReconcileStep
  <1>2. ASSUME NEW i \in Intents
        PROVE  /\ row'[i].rec = row[i].rec
               /\ row[i].rec # NoAdmission => /\ row'[i].admTask = row[i].admTask
                                              /\ row'[i].state # "absent"
    <2>1. (row[i].rec # NoAdmission => row[i].state # "absent") /\ row[i] \in IntentRows
      BY DEF RecoveryInv, Numbered, TypeInv, TypeOK
    <2>2. CASE row'[i] = row[i]
      BY <2>1, <2>2
    <2>3. CASE row[i].state = "absent" /\ row'[i] = r
      BY <1>1, <2>1, <2>3 DEF Fresh
    <2> QED
      BY <1>1, <2>2, <2>3
  <1> QED
    BY <1>2 DEF ReconcileStep, RecKept

LEMMA CrashRec == RecoveryInv /\ Crash => RecKept
  BY DEF Crash, ProcessEnds, db, RecKept, RecoveryInv, Numbered

LEMMA StutterRec == RecoveryInv /\ UNCHANGED vars => RecKept
  BY DEF vars, db, memory, history, RecKept, RecoveryInv, Numbered

(* Closing an episode leaves the other tasks' admissions alone and asks    *)
(* nothing of its own task's.                                              *)
LEMMA ClosedRec ==
    ASSUME TypeInv, RecoveryInv, NEW t \in Tasks \cup {None}, ClosedStep(t)
    PROVE  RecoveryInv'
  <1>0. row \in [Intents -> IntentRows] /\ driven \in [Tasks \cup {None} -> Nat]
    BY DEF TypeInv, TypeOK
  <1>1. ASSUME NEW i \in Intents
        PROVE  /\ row'[i].admTask = row[i].admTask /\ row'[i].state = row[i].state
               /\ row'[i].rec.seq = row[i].rec.seq /\ row'[i].rec.attempt = row[i].rec.attempt
               /\ row'[i].rec.limit = row[i].rec.limit
    BY <1>0, RowClosed DEF ClosedStep
  <1>2. ASSUME NEW i \in Intents
        PROVE  /\ row[i].rec # NoAdmission <=> row'[i].rec # NoAdmission
               /\ row[i].admTask # t => row'[i] = row[i]
    <2>1. CASE row'[i] = row[i]
      BY <2>1
    <2>2. CASE row[i].admTask = t /\ row[i].rec # NoAdmission
      <3>1. row[i].rec.seq > 0
        BY <2>2 DEF RecoveryInv, Numbered
      <3>2. row'[i].rec.seq > 0
        BY <1>1, <3>1
      <3> QED
        BY <2>2, <3>2 DEF NoAdmission
    <2>3. CASE row[i].admTask = t /\ i = cur /\ pc = "driving"
      <3>1. row[i].rec # NoAdmission
        BY <2>3 DEF RecoveryInv, IsLast, Admitted
      <3> QED
        BY <2>2, <2>3, <3>1
    <2> QED
      BY <2>1, <2>2, <2>3 DEF ClosedStep
  <1>3. \A u : Admitted(u)' = Admitted(u)
    BY <1>1, <1>2 DEF Admitted
  <1>4. \A i \in Intents : row'[i].rec # NoAdmission => Numbered(row'[i])
    BY <1>1, <1>2 DEF RecoveryInv, Numbered
  <1>5. \A u \in Tasks \cup {None} :
           \A i, j \in Admitted(u)' : row'[i].rec.seq = row'[j].rec.seq => i = j
    <2> SUFFICES ASSUME NEW u \in Tasks \cup {None}, NEW i \in Admitted(u)', NEW j \in Admitted(u)',
                        row'[i].rec.seq = row'[j].rec.seq
                 PROVE  i = j
      OBVIOUS
    <2>1. i \in Admitted(u) /\ j \in Admitted(u)
      BY <1>3
    <2>2. i \in Intents /\ j \in Intents
      BY <2>1 DEF Admitted
    <2>3. row[i].rec.seq = row[j].rec.seq
      BY <1>1, <2>2
    <2> QED
      BY <2>1, <2>3 DEF RecoveryInv
  <1>6. ASSUME NEW u \in Tasks \cup {None}, driven'[u] > 0
        PROVE  \E j \in Intents : /\ IsLast(j, u)' /\ ~ row'[j].rec.confirmed
                                  /\ driven'[u] <= row'[j].rec.attempt
    <2>1. driven' = [driven EXCEPT ![t] = 0]
      BY DEF ClosedStep
    <2>2. u # t /\ driven'[u] = driven[u]
      BY <1>0, <1>6, <2>1
    <2>3. PICK j \in Intents : /\ IsLast(j, u) /\ ~ row[j].rec.confirmed
                              /\ driven[u] <= row[j].rec.attempt
      BY <1>6, <2>2 DEF RecoveryInv
    <2>4. row[j].admTask = u
      BY <2>3 DEF IsLast, Admitted
    <2>5. row'[j] = row[j]
      BY <1>2, <2>2, <2>4
    <2>6. IsLast(j, u)'
      <3>1. j \in Admitted(u)' /\ \A k \in Admitted(u)' : k \in Intents /\ k \in Admitted(u)
        BY <1>3, <2>3 DEF IsLast, Admitted
      <3>2. \A k \in Admitted(u)' : row'[k].rec.seq <= row'[j].rec.seq
        BY <1>1, <2>3, <3>1 DEF IsLast
      <3> QED
        BY <3>1, <3>2 DEF IsLast
    <2> QED
      BY <2>2, <2>3, <2>5, <2>6
  <1>7. pc' # "driving"
    BY DEF ClosedStep
  <1> QED
    BY <1>4, <1>5, <1>6, <1>7 DEF RecoveryInv

(* The next attempt is numbered after every other of its task, and counts  *)
(* one more than the last of an open episode.                              *)
LEMMA ReserveRec ==
    ASSUME TypeInv, RecoveryInv, ReserveStep
    PROVE  RecoveryInv'
  <1>0. /\ row \in [Intents -> IntentRows] /\ driven \in [Tasks \cup {None} -> Nat]
        /\ cur \in Intents /\ row[cur] \in IntentRows /\ row[cur].state = "leased"
        /\ MaxAttempts \in Nat /\ MaxAttempts > 0
    BY SessionAssumption DEF TypeInv, TypeOK, ReserveStep, InStep
  <1>1. PICK t \in Tasks \cup {None} : t = row[cur].admTask
    BY DEF TypeInv, ReserveStep, BoundPcs
  <1>2. PICK a \in Admissions : a = NextAdmission(row, cur, MaxAttempts)
    BY <1>0, NextAdmissionTyped
  <1>3. row[cur].rec = NoAdmission
    BY DEF ReserveStep, AdmissionRefused
  <1>4. Earlier(row, cur) = Admitted(t)
    BY <1>0, <1>1, <1>3 DEF Earlier, Owned, Admitted, RecoveryInv, Numbered
  <1>5. PICK last \in Admissions : last = LastAdmission(row, Admitted(t))
    BY <1>0, LastAdmissionTyped DEF Admitted
  <1>6. /\ a.seq = last.seq + 1 /\ a.confirmed = FALSE
        /\ a.attempt = IF last.confirmed THEN 1 ELSE last.attempt + 1
        /\ a.limit = IF last.confirmed THEN MaxAttempts ELSE Min({MaxAttempts, last.limit})
    BY <1>2, <1>4, <1>5 DEF NextAdmission
  <1>7. /\ last.seq \in Nat /\ last.attempt \in Nat /\ last.limit \in Nat
        /\ a.seq \in Nat /\ a.attempt \in Nat /\ a.limit \in Nat
    BY DEF Admissions
  <1>8. a.attempt <= a.limit
    BY <1>2 DEF ReserveStep
  <1>9. a.limit <= MaxAttempts
    BY <1>0, <1>6, <1>7, LeastOfTwo
  <1>10. a.seq > 0 /\ a.attempt > 0
    BY <1>6, <1>7
  <1>11. a # NoAdmission
    BY <1>10 DEF NoAdmission
  <1>12. \A k \in Admitted(t) : k \in Intents /\ k # cur /\ row[k].rec.seq <= last.seq
    <2> SUFFICES ASSUME NEW k \in Admitted(t)
                 PROVE  k \in Intents /\ k # cur /\ row[k].rec.seq <= last.seq
      OBVIOUS
    <2>1. Admitted(t) \in SUBSET Intents /\ Admitted(t) # {}
      BY DEF Admitted
    <2>2. PICK j \in Admitted(t) : /\ last = row[j].rec
                                   /\ \A i \in Admitted(t) : row[i].rec.seq <= row[j].rec.seq
      BY <1>0, <1>5, <2>1, LastAdmissionRow
    <2> QED
      BY <1>3, <2>2 DEF Admitted
  <1>13. /\ WithRec(row[cur], a).rec = a /\ WithRec(row[cur], a).state = "leased"
         /\ WithRec(row[cur], a).admTask = t
    BY <1>0, <1>1, RowWithRec
  <1>14. row' = [row EXCEPT ![cur] = WithRec(row[cur], a)]
    BY <1>2 DEF ReserveStep
  <1>15. /\ row'[cur].rec = a /\ row'[cur].state = "leased" /\ row'[cur].admTask = t
         /\ \A i \in Intents \ {cur} : row'[i] = row[i]
    BY <1>0, <1>13, <1>14
  <1>16. Admitted(t)' = Admitted(t) \cup {cur}
    BY <1>0, <1>11, <1>15 DEF Admitted
  <1>17. \A u : u # t => Admitted(u)' = Admitted(u) /\ cur \notin Admitted(u)
    BY <1>0, <1>1, <1>15 DEF Admitted
  <1>18. \A i \in Intents : row'[i].rec # NoAdmission => Numbered(row'[i])
    <2> SUFFICES ASSUME NEW i \in Intents, row'[i].rec # NoAdmission PROVE Numbered(row'[i])
      OBVIOUS
    <2>1. CASE i = cur
      BY <1>8, <1>9, <1>10, <1>15, <2>1 DEF Numbered
    <2>2. CASE i # cur
      BY <1>15, <2>2 DEF RecoveryInv
    <2> QED
      BY <2>1, <2>2
  <1>19. ASSUME NEW u \in Tasks \cup {None}, NEW i \in Admitted(u)', NEW j \in Admitted(u)',
                row'[i].rec.seq = row'[j].rec.seq
         PROVE  i = j
    <2>1. CASE u # t
      <3>1. i \in Admitted(u) /\ j \in Admitted(u) /\ i # cur /\ j # cur /\ i \in Intents /\ j \in Intents
        BY <1>17, <2>1 DEF Admitted
      <3> QED
        BY <1>15, <1>19, <3>1 DEF RecoveryInv
    <2>2. CASE u = t
      <3>1. \A k \in Admitted(t)' : k # cur => k \in Admitted(t) /\ row'[k] = row[k]
        BY <1>12, <1>15, <1>16
      <3>2. \A k \in Admitted(t) : row[k].rec.seq \in Nat /\ row[k].rec.seq # a.seq
        <4>1. \A k \in Admitted(t) : row[k].rec.seq \in Nat
          BY <1>0, <1>12 DEF IntentRows, Admissions
        <4> QED
          BY <1>6, <1>7, <1>12, <4>1
      <3>3. i # cur /\ j # cur => i = j
        BY <1>19, <2>2, <3>1 DEF RecoveryInv
      <3>4. (i = cur) <=> (j = cur)
        BY <1>15, <1>19, <2>2, <3>1, <3>2
      <3> QED
        BY <3>3, <3>4
    <2> QED
      BY <2>1, <2>2
  <1>20. IsLast(cur, t)'
    <2>1. \A k \in Admitted(t)' : row'[k].rec.seq <= row'[cur].rec.seq
      <3> SUFFICES ASSUME NEW k \in Admitted(t)' PROVE row'[k].rec.seq <= a.seq
        BY <1>15
      <3>1. CASE k = cur
        BY <1>7, <1>15, <3>1
      <3>2. CASE k # cur
        <4>1. k \in Admitted(t) /\ row'[k] = row[k] /\ row[k].rec.seq <= last.seq
          BY <1>12, <1>15, <1>16, <3>2
        <4>2. row[k].rec.seq \in Nat
          BY <1>0, <1>12, <4>1 DEF IntentRows, Admissions
        <4> QED
          BY <1>6, <1>7, <4>1, <4>2
      <3> QED
        BY <3>1, <3>2
    <2>2. cur \in Admitted(t)'
      BY <1>16
    <2>3. cur' = cur
      BY DEF ReserveStep
    <2> QED
      BY <2>1, <2>2, <2>3 DEF IsLast
  <1>21. driven' = [driven EXCEPT ![t] = driven[t] + 1]
    BY <1>1 DEF ReserveStep
  <1>22. driven[t] + 1 <= a.attempt
    <2>1. CASE driven[t] = 0
      BY <1>7, <1>10, <2>1
    <2>2. CASE driven[t] # 0
      <3>1. driven[t] \in Nat /\ driven[t] > 0
        BY <1>0, <2>2
      <3>2. PICK j \in Intents : /\ IsLast(j, t) /\ ~ row[j].rec.confirmed
                                /\ driven[t] <= row[j].rec.attempt
        BY <3>1 DEF RecoveryInv
      <3>3. Admitted(t) \in SUBSET Intents /\ Admitted(t) # {} /\ j \in Admitted(t)
        BY <3>2 DEF IsLast, Admitted
      <3>4. PICK k \in Admitted(t) : /\ last = row[k].rec
                                     /\ \A i \in Admitted(t) : row[i].rec.seq <= row[k].rec.seq
        BY <1>0, <1>5, <3>3, LastAdmissionRow
      <3>5. row[j].rec.seq \in Nat /\ row[k].rec.seq \in Nat
        BY <1>0, <1>12, <3>3 DEF IntentRows, Admissions
      <3>6. row[k].rec.seq <= row[j].rec.seq /\ row[j].rec.seq <= row[k].rec.seq
        BY <3>2, <3>3, <3>4 DEF IsLast
      <3>7. j = k
        BY <3>3, <3>5, <3>6 DEF RecoveryInv
      <3>8. ~ last.confirmed /\ driven[t] <= last.attempt
        BY <3>2, <3>4, <3>7
      <3> QED
        BY <1>6, <1>7, <3>1, <3>8
    <2> QED
      BY <2>1, <2>2
  <1>23. ASSUME NEW u \in Tasks \cup {None}, driven'[u] > 0
         PROVE  \E j \in Intents : /\ IsLast(j, u)' /\ ~ row'[j].rec.confirmed
                                   /\ driven'[u] <= row'[j].rec.attempt
    <2>1. CASE u = t
      <3>1. driven'[u] = driven[t] + 1
        BY <1>0, <1>21, <2>1
      <3>2. ~ row'[cur].rec.confirmed /\ row'[cur].rec.attempt = a.attempt
        BY <1>6, <1>15
      <3>3. PICK c \in Intents : c = cur /\ c = cur'
        BY <1>0 DEF ReserveStep
      <3>4. IsLast(c, u)'
        BY <1>20, <2>1, <3>3 DEF IsLast
      <3> QED
        BY <1>22, <3>1, <3>2, <3>3, <3>4
    <2>2. CASE u # t
      <3>1. driven'[u] = driven[u]
        BY <1>0, <1>21, <2>2
      <3>2. PICK j \in Intents : /\ IsLast(j, u) /\ ~ row[j].rec.confirmed
                                /\ driven[u] <= row[j].rec.attempt
        BY <1>23, <3>1 DEF RecoveryInv
      <3>3. j # cur /\ Admitted(u)' = Admitted(u) /\ \A k \in Admitted(u) : k \in Intents \ {cur}
        BY <1>17, <2>2, <3>2 DEF IsLast, Admitted
      <3>4. row'[j] = row[j] /\ \A k \in Admitted(u) : row'[k] = row[k]
        BY <1>15, <3>3
      <3>5. IsLast(j, u)'
        BY <3>2, <3>3, <3>4 DEF IsLast
      <3> QED
        BY <3>1, <3>2, <3>4, <3>5
    <2> QED
      BY <2>1, <2>2
  <1>24. IsLast(cur, row[cur].admTask)'
    BY <1>15, <1>20 DEF IsLast, ReserveStep
  <1> QED
    BY <1>18, <1>19, <1>23, <1>24 DEF RecoveryInv

LEMMA RecoveryInvKept ==
    ASSUME TypeInv, RecoveryInv, [Next]_vars
    PROVE  RecoveryInv'
  <1>1. CASE UNCHANGED vars
    BY <1>1, StutterRec, RecKeptSound
  <1>2. CASE Next
    <2>1. StepShape
      BY <1>2, NextShape
    <2>2. CASE BesideStep \/ LeaseStep \/ InsideStep \/ EndStep \/ BindStep
      BY <2>2, BesideRec, LeaseRec, InsideRec, EndRec, BindRec, RecKeptSound
    <2>3. ASSUME NEW t \in Tasks \cup {None}, ClosedStep(t) PROVE RecoveryInv'
      BY <2>3, ClosedRec
    <2>4. CASE ReserveStep
      BY <2>4, ReserveRec
    <2>5. CASE VerifyStep \/ Crash \/ BootStep \/ SupersedeStep \/ ReconcileStep
      BY <2>5, VerifyRec, CrashRec, BootRec, SupersedeRec, ReconcileRec, RecKeptSound
    <2> QED
      BY <2>1, <2>2, <2>3, <2>4, <2>5 DEF StepShape
  <1> QED
    BY <1>1, <1>2

LEMMA RecoveryInvHolds == Spec => [](TypeInv /\ RecoveryInv)
  <1>1. Init => TypeInv /\ RecoveryInv
    BY InitTypeInv, InitRecoveryInv
  <1>2. TypeInv /\ RecoveryInv /\ [Next]_vars => (TypeInv /\ RecoveryInv)'
    BY NextShape, StutterTypes, RecoveryInvKept
  <1> QED
    BY <1>1, <1>2, PTL DEF Spec

(* However often the process dies or the step is preempted, the recovery   *)
(* driver is called at most max_recovery_attempts times for one task       *)
(* before the Body has been seen alive again: the count outlives the       *)
(* process because it is in the rows (next_recovery_admission,             *)
(* recovery_admission.py).                                                 *)
THEOREM RecoveryStaysWithinLimit == Spec => []RecoveryWithinLimit
  <1>1. TypeInv /\ RecoveryInv => RecoveryWithinLimit
    <2> SUFFICES ASSUME TypeInv, RecoveryInv, NEW t \in Tasks \cup {None}
                 PROVE  driven[t] <= MaxAttempts
      BY DEF RecoveryWithinLimit
    <2>1. driven[t] \in Nat /\ MaxAttempts \in Nat
      BY SessionAssumption DEF TypeInv, TypeOK
    <2>2. CASE driven[t] > 0
      <3>1. PICK j \in Intents : IsLast(j, t) /\ driven[t] <= row[j].rec.attempt
        BY <2>2 DEF RecoveryInv
      <3>2. Numbered(row[j])
        BY <3>1 DEF IsLast, Admitted, RecoveryInv
      <3>3. row[j].rec.attempt \in Nat /\ row[j].rec.limit \in Nat
        BY DEF TypeInv, TypeOK, IntentRows, Admissions
      <3> QED
        BY <2>1, <3>1, <3>2, <3>3 DEF Numbered
    <2>3. CASE ~ (driven[t] > 0)
      BY <2>1, <2>3
    <2> QED
      BY <2>2, <2>3
  <1> QED
    BY <1>1, RecoveryInvHolds, PTL

----------------------------------------------------------------------------
(* The owner that interrupted work keeps *)

LEMMA InitOwnerInv == Init => OwnerInv
  <1> SUFFICES ASSUME Init PROVE OwnerInv
    OBVIOUS
  <1>1. Lone(task) /\ ~ Owing /\ OwedIsKnown /\ AdmittedIsCurrent
    BY DEF Init, NoTasks, Lone, InFront, Foreground, Owing, NotOwed, OwedIsKnown, AdmittedIsCurrent,
       BoundPcs
  <1>2. Marks
    BY DEF Init, NoIntents, AbsentIntent, Marks
  <1> QED
    BY <1>1, <1>2 DEF OwnerInv, OwnerWaits, OwnerCarried

LEMMA CarriesSame ==
    ASSUME NEW r, NEW q, SameRow(q, r), NEW o, Carries(r, o)
    PROVE  Carries(q, o)
  BY DEF SameRow, Carries

(* A step owes nothing new: what it owes afterwards it owed before.        *)
OwesNoMore == TaskStep(task, task') /\ (owed' = owed \/ owed' = NotOwed)

LEMMA OwedBefore ==
    ASSUME TypeInv, TypeInv', OwnerInv, OwesNoMore
    PROVE  Lone(task)' /\ OwedIsKnown' /\ (Owing' => Owing /\ owed' = owed)
  <1>1. Lone(task)'
    BY DEF OwesNoMore, TaskStep, OwnerInv, Lone
  <1>2. CASE owed' = NotOwed
    BY <1>1, <1>2 DEF NotOwed, OwedIsKnown, Owing
  <1>3. CASE owed' = owed
    <2>1. owed.task \in Tasks \cup {None}
      BY DEF TypeInv, TypeOK
    <2>2. OwedIsKnown'
      BY <1>3, <2>1 DEF OwnerInv, OwedIsKnown, OwesNoMore, TaskStep
    <2>3. ASSUME Owing' PROVE Owing
      <3>1. owed.task \in Tasks /\ owed.task = Current(task')
        BY <1>3, <2>1, <2>3 DEF Owing
      <3>2. owed.task \in InFront(task')
        BY <1>1, <3>1, LoneCurrent DEF TypeInv, TypeOK
      <3>3. owed.task \in InFront(task)
        BY <3>1, <3>2 DEF OwesNoMore, TaskStep, OwnerInv, OwedIsKnown, None, Tasks
      <3>4. owed.task = Current(task)
        BY <3>1, <3>3, LoneCurrent DEF TypeInv, TypeOK, OwnerInv
      <3> QED
        BY <3>1, <3>4 DEF Owing, None, Tasks
    <2> QED
      BY <1>1, <1>3, <2>2, <2>3
  <1> QED
    BY <1>2, <1>3 DEF OwesNoMore

(* A row that comes or goes is neither marked nor in hand, and a start-up  *)
(* row among them does not run.                                            *)
Inert(r, q) == /\ r.state \in {"absent", "queued"} /\ q.state \in {"queued", "superseded"}
               /\ ~ q.orphan /\ (q.kind = "startup" => q.state = "superseded")

LEMMA AsideOwner ==
    ASSUME row \in [Intents -> IntentRows], Marks, NEW M, Aside(row, M)
    PROVE  \A i \in Intents : M[i] = row[i] \/ Inert(row[i], M[i])
  <1> SUFFICES ASSUME NEW i \in Intents, M[i] # row[i] PROVE Inert(row[i], M[i])
    OBVIOUS
  <1>1. CASE Gone(row[i], M[i])
    <2>1. ~ row[i].orphan
      BY <1>1 DEF Marks, Gone
    <2>2. InState(row[i], "superseded").orphan = row[i].orphan
      BY RowInState DEF Terminal
    <2>3. ~ M[i].orphan
      BY <1>1, <2>1, <2>2 DEF Gone
    <2>4. M[i].state = "superseded" /\ row[i].state = "queued"
      BY <1>1, RowInState DEF Gone, Terminal
    <2> QED
      BY <2>3, <2>4 DEF Inert
  <1>2. CASE Came(row[i], M[i])
    <2>1. ~ M[i].orphan
      BY <1>2 DEF Came, Fresh
    <2> QED
      BY <1>2, <2>1 DEF Inert, Came
  <1> QED
    BY <1>1, <1>2 DEF Aside

LEMMA BesideOwner ==
    ASSUME TypeInv, TypeInv', OwnerInv, BesideStep
    PROVE  OwnerInv'
  <1>1. \A i \in Intents : row'[i] = row[i] \/ Inert(row[i], row'[i])
    BY AsideOwner DEF BesideStep, OwnerInv, TypeInv, TypeOK
  <1>2. UNCHANGED <<task, pc, cur, owed>>
    BY DEF BesideStep
  <1>3. OwesNoMore
    BY <1>2, TaskStays DEF OwesNoMore
  <1>4. Lone(task)' /\ OwedIsKnown' /\ (Owing' => Owing /\ owed' = owed)
    BY <1>3, OwedBefore
  <1>5. AdmittedIsCurrent'
    BY <1>1, <1>2 DEF AdmittedIsCurrent, OwnerInv, BoundPcs, InStep, TypeInv, Inert
  <1>6. Marks'
    BY <1>1, <1>2 DEF Marks, OwnerInv, Inert
  <1>7. ASSUME Owing', pc' # "verify"
        PROVE  \E i \in Intents : Carries(row'[i], owed') /\ Held(i)'
    <2>1. PICK i \in Intents : Carries(row[i], owed) /\ Held(i)
      BY <1>2, <1>4, <1>7 DEF OwnerInv, OwnerWaits
    <2>2. row[i].state \in {"failed", "leased"}
      BY <2>1 DEF Held, OwnerInv, Marks, TypeInv, BoundPcs, InStep
    <2>3. row'[i] = row[i]
      BY <1>1, <2>2 DEF Inert
    <2> QED
      BY <1>2, <2>1, <2>3 DEF Held
  <1>8. OwnerCarried'
    BY <1>1, <1>2, <1>4 DEF OwnerCarried, OwnerInv, Inert
  <1> QED
    BY <1>4, <1>5, <1>6, <1>7, <1>8 DEF OwnerInv, OwnerWaits

LEMMA VerifyOwner ==
    ASSUME TypeInv, TypeInv', OwnerInv, VerifyStep
    PROVE  OwnerInv'
  <1>1. \A i \in Intents : row'[i] = row[i] \/ Inert(row[i], row'[i])
    BY AsideOwner DEF VerifyStep, OwnerInv, TypeInv, TypeOK
  <1>2. OwesNoMore
    BY DEF OwesNoMore, VerifyStep
  <1>3. Lone(task)' /\ OwedIsKnown'
    BY <1>2, OwedBefore
  <1>4. ~ Owing' /\ AdmittedIsCurrent'
    BY DEF VerifyStep, Owing, NotOwed, AdmittedIsCurrent, BoundPcs
  <1>5. \A i \in Intents : row[i].state # "leased"
    BY DEF OwnerInv, Marks, VerifyStep, InStep
  <1>6. Marks'
    BY <1>1, <1>5 DEF Marks, OwnerInv, Inert
  <1> QED
    BY <1>3, <1>4, <1>6 DEF OwnerInv, OwnerWaits, OwnerCarried

LEMMA LeaseOwner ==
    ASSUME TypeInv, TypeInv', OwnerInv, LeaseStep
    PROVE  OwnerInv'
  <1>1. PICK M \in [Intents -> IntentRows] :
           /\ Aside(row, M) /\ M[cur'].state = "queued"
           /\ row' = [M EXCEPT ![cur'] = InState(M[cur'], "leased")]
    BY DEF LeaseStep
  <1>2. cur' \in Intents /\ pc = "idle" /\ pc' = "apply" /\ task' = task /\ owed' = owed
    BY DEF LeaseStep
  <1>3. \A i \in Intents : M[i] = row[i] \/ Inert(row[i], M[i])
    BY <1>1, AsideOwner DEF OwnerInv, TypeInv, TypeOK
  <1>4. OwesNoMore
    BY <1>2, TaskStays DEF OwesNoMore
  <1>5. Lone(task)' /\ OwedIsKnown' /\ (Owing' => Owing /\ owed' = owed)
    BY <1>4, OwedBefore
  <1>6. AdmittedIsCurrent'
    BY <1>2 DEF AdmittedIsCurrent, BoundPcs
  <1>7. /\ SameRow(row'[cur'], M[cur']) /\ row'[cur'].state = "leased"
        /\ \A i \in Intents : i # cur' => row'[i] = M[i]
    BY <1>1, <1>2, RowInState
  <1>8. row'[cur'].orphan = M[cur'].orphan
    BY <1>1, <1>2, RowInState
  <1>9. \A i \in Intents : row[i].state # "leased"
    BY <1>2 DEF OwnerInv, Marks, InStep
  <1>10. ~ M[cur'].orphan
    BY <1>1, <1>2, <1>3 DEF OwnerInv, Marks, Inert
  <1>11. Marks'
    <2> SUFFICES ASSUME NEW i \in Intents
                 PROVE  /\ row'[i].orphan => row'[i].state = "failed"
                        /\ row'[i].state = "leased" => i = cur'
      BY <1>2 DEF Marks, InStep
    <2>1. CASE i = cur'
      BY <1>8, <1>10, <2>1
    <2>2. CASE i # cur'
      BY <1>3, <1>7, <1>9, <2>2 DEF OwnerInv, Marks, Inert
    <2> QED
      BY <2>1, <2>2
  <1>12. ASSUME Owing' PROVE \E i \in Intents : Carries(row'[i], owed') /\ Held(i)'
    <2>1. PICK i \in Intents : Carries(row[i], owed) /\ Held(i)
      BY <1>2, <1>5, <1>12 DEF OwnerInv, OwnerWaits
    <2>2. row[i].orphan /\ row[i].state = "failed"
      BY <1>2, <2>1 DEF Held, OwnerInv, Marks, BoundPcs
    <2>3. row'[i] = row[i]
      <3>1. M[i] = row[i]
        BY <1>3, <2>2 DEF Inert
      <3> QED
        BY <1>1, <1>7, <2>2, <3>1
    <2> QED
      BY <1>2, <2>1, <2>2, <2>3 DEF Held
  <1>13. ASSUME Owing', NEW i \in Intents, row'[i].kind = "startup", row'[i].state \in {"queued", "leased"}
         PROVE  Carries(row'[i], owed') /\ row'[i].task = owed'.task
    <2>1. SameRow(row'[i], M[i]) /\ M[i].state \in {"queued", "leased"}
      BY <1>1, <1>7, <1>13 DEF SameRow
    <2>2. M[i] = row[i]
      BY <1>3, <1>13, <2>1 DEF Inert, SameRow
    <2>3. Carries(row[i], owed) /\ row[i].task = owed.task
      BY <1>2, <1>5, <1>13, <2>1, <2>2 DEF OwnerInv, OwnerCarried, SameRow
    <2> QED
      BY <1>2, <2>1, <2>2, <2>3, CarriesSame DEF SameRow
  <1> QED
    BY <1>5, <1>6, <1>11, <1>12, <1>13 DEF OwnerInv, OwnerWaits, OwnerCarried

LEMMA InsideOwner ==
    ASSUME TypeInv, TypeInv', OwnerInv, InsideStep
    PROVE  OwnerInv'
  <1>1. UNCHANGED <<row, cur, owed>> /\ (pc' \in BoundPcs <=> pc \in BoundPcs)
        /\ pc \in InStep /\ pc' \in InStep
    BY DEF InsideStep
  <1>2. OwesNoMore
    BY DEF InsideStep, OwesNoMore
  <1>3. Lone(task)' /\ OwedIsKnown' /\ (Owing' => Owing /\ owed' = owed)
    BY <1>2, OwedBefore
  <1>4. AdmittedIsCurrent'
    <2> SUFFICES ASSUME pc \in BoundPcs PROVE row[cur].admTask = Current(task')
      BY <1>1 DEF AdmittedIsCurrent
    <2>1. row[cur].admTask = Current(task) /\ InFront(task') = InFront(task)
      BY DEF OwnerInv, AdmittedIsCurrent, InsideStep
    <2>2. /\ \A t \in Tasks : t \in InFront(task) <=> t = Current(task)
          /\ \A t \in Tasks : t \in InFront(task') <=> t = Current(task')
      BY <1>3, LoneCurrent DEF OwnerInv, TypeInv, TypeOK
    <2>3. Current(task) \in Tasks \cup {None} /\ Current(task') \in Tasks \cup {None}
      BY CurrentTyped DEF TypeInv, TypeOK
    <2> QED
      BY <2>1, <2>2, <2>3
  <1>5. Marks'
    BY <1>1 DEF Marks, OwnerInv, InStep
  <1>6. ASSUME Owing' PROVE \E i \in Intents : Carries(row'[i], owed') /\ Held(i)'
    <2>1. PICK i \in Intents : Carries(row[i], owed) /\ Held(i)
      BY <1>1, <1>3, <1>6 DEF OwnerInv, OwnerWaits, InStep
    <2> QED
      BY <1>1, <2>1 DEF Held, InStep
  <1>7. OwnerCarried'
    BY <1>1, <1>3 DEF OwnerCarried, OwnerInv, InStep
  <1> QED
    BY <1>3, <1>4, <1>5, <1>6, <1>7 DEF OwnerInv, OwnerWaits

LEMMA EndOwner ==
    ASSUME TypeInv, TypeInv', OwnerInv, EndStep
    PROVE  OwnerInv'
  <1>1. /\ pc \in InStep /\ pc' \in {"verify", "idle", "down"} /\ cur \in Intents
        /\ row'[cur].state \in Terminal
        /\ \A i \in Intents : Settles(row[i], row'[i]) \/ Came(row[i], row'[i])
    BY DEF EndStep, EndRows, TypeInv
  <1>2. OwesNoMore
    BY DEF EndStep, OwesNoMore
  <1>3. Lone(task)' /\ OwedIsKnown' /\ (Owing' => Owing /\ owed' = owed)
    BY <1>2, OwedBefore
  <1>4. AdmittedIsCurrent'
    BY <1>1 DEF AdmittedIsCurrent, BoundPcs
  <1>5. ASSUME NEW i \in Intents
        PROVE  /\ row'[i].orphan => row'[i].state = "failed"
               /\ row'[i].state # "leased"
    <2>1. CASE Came(row[i], row'[i])
      <3>1. ~ row'[i].orphan /\ row'[i].state = "queued"
        BY <2>1 DEF Came, Fresh
      <3> QED
        BY <3>1
    <2>2. CASE Settles(row[i], row'[i])
      <3>1. row'[i].orphan => row'[i].state = "failed"
        BY <2>2 DEF Settles, OwnerInv, Marks
      <3>2. row'[i].state = "leased" => i = cur
        BY <1>1, <2>2 DEF Settles, OwnerInv, Marks, Terminal, InStep
      <3> QED
        BY <1>1, <3>1, <3>2 DEF Terminal
    <2> QED
      BY <1>1, <2>1, <2>2
  <1>6. Marks'
    BY <1>5 DEF Marks
  <1>7. ASSUME Owing', pc' # "verify"
        PROVE  \E i \in Intents : Carries(row'[i], owed') /\ Held(i)'
    <2>1. Owing /\ owed' = owed /\ pc \notin BoundPcs /\ OrphansKept(row')
      BY <1>3, <1>7 DEF EndStep, Owing, NotOwed
    <2>2. PICK i \in Intents : Carries(row[i], owed) /\ Held(i)
      BY <1>1, <2>1 DEF OwnerInv, OwnerWaits, InStep
    <2>3. row[i].orphan /\ row[i].state = "failed"
      BY <1>1, <2>1, <2>2 DEF Held, OwnerInv, Marks, InStep
    <2>4. row'[i].orphan
      BY <2>1, <2>3 DEF OrphansKept
    <2>5. SameRow(row'[i], row[i])
      BY <1>1, <2>3 DEF Settles, Came
    <2> QED
      BY <2>1, <2>2, <2>4, <2>5, CarriesSame DEF Held
  <1>8. ASSUME Owing', NEW i \in Intents, row'[i].kind = "startup", row'[i].state \in {"queued", "leased"}
         PROVE  Carries(row'[i], owed') /\ row'[i].task = owed'.task
    <2>1. SameRow(row'[i], row[i]) /\ row[i].state = row'[i].state
      BY <1>1, <1>8 DEF Settles, Came, Terminal
    <2>2. Carries(row[i], owed) /\ row[i].task = owed.task
      BY <1>1, <1>3, <1>8, <2>1 DEF OwnerInv, OwnerCarried, SameRow, InStep
    <2> QED
      BY <1>3, <1>8, <2>1, <2>2, CarriesSame DEF SameRow
  <1> QED
    BY <1>3, <1>4, <1>6, <1>7, <1>8 DEF OwnerInv, OwnerWaits, OwnerCarried

(* Only the recovery admission of a row is written.                        *)
OnlyRec(r, q) == /\ q.state = r.state /\ q.kind = r.kind /\ q.task = r.task /\ q.bud = r.bud
                 /\ q.ev = r.ev /\ q.adm = r.adm /\ q.admTask = r.admTask
                 /\ (q.orphan <=> r.orphan)

LEMMA OnlyRecOwner ==
    ASSUME TypeInv, TypeInv', OwnerInv, \A i \in Intents : OnlyRec(row[i], row'[i]),
           pc \in InStep, pc' \in InStep, pc' \in BoundPcs <=> pc \in BoundPcs,
           UNCHANGED <<task, cur, owed>>
    PROVE  OwnerInv'
  <1>1. OwesNoMore
    BY TaskStays DEF OwesNoMore
  <1>2. Lone(task)' /\ OwedIsKnown' /\ (Owing' => Owing /\ owed' = owed)
    BY <1>1, OwedBefore
  <1>3. AdmittedIsCurrent'
    BY DEF AdmittedIsCurrent, OnlyRec, OwnerInv, TypeInv
  <1>4. Marks'
    BY DEF Marks, OwnerInv, InStep, OnlyRec
  <1>5. \A i \in Intents : Carries(row[i], owed) <=> Carries(row'[i], owed)
    BY DEF Carries, OnlyRec
  <1>6. \A i \in Intents : Held(i) => Held(i)'
    BY DEF Held, OnlyRec, InStep
  <1>7. ASSUME Owing' PROVE \E i \in Intents : Carries(row'[i], owed') /\ Held(i)'
    <2>1. PICK i \in Intents : Carries(row[i], owed) /\ Held(i)
      BY <1>2, <1>7 DEF OwnerInv, OwnerWaits, InStep
    <2> QED
      BY <1>5, <1>6, <2>1
  <1>8. OwnerCarried'
    BY <1>2, <1>5 DEF OwnerCarried, OwnerInv, InStep, OnlyRec
  <1> QED
    BY <1>2, <1>3, <1>4, <1>7, <1>8 DEF OwnerInv, OwnerWaits

LEMMA ClosedOwner ==
    ASSUME TypeInv, TypeInv', OwnerInv, NEW t, ClosedStep(t)
    PROVE  OwnerInv'
  <1>1. ASSUME NEW i \in Intents PROVE OnlyRec(row[i], row'[i])
    <2>1. CASE row'[i] = row[i]
      BY <2>1 DEF OnlyRec
    <2>2. CASE row'[i] = Closed(row[i])
      <3>1. row[i] \in IntentRows
        BY DEF TypeInv, TypeOK
      <3>2. Closed(row[i]).orphan <=> row[i].orphan
        BY <3>1, RowClosed
      <3> QED
        BY <2>2, <3>1, <3>2, RowClosed DEF OnlyRec
    <2> QED
      BY <2>1, <2>2 DEF ClosedStep
  <1> QED
    BY <1>1, OnlyRecOwner DEF ClosedStep

LEMMA ReserveOwner ==
    ASSUME TypeInv, TypeInv', OwnerInv, ReserveStep
    PROVE  OwnerInv'
  <1>1. row[cur] \in IntentRows /\ row \in [Intents -> IntentRows] /\ cur \in Intents
    BY DEF TypeInv, TypeOK, ReserveStep, InStep
  <1>2. PICK a \in Admissions : a = NextAdmission(row, cur, MaxAttempts)
    BY <1>1, NextAdmissionTyped
  <1>3. \A i \in Intents : row'[i] = IF i = cur THEN WithRec(row[cur], a) ELSE row[i]
    BY <1>1, <1>2 DEF ReserveStep
  <1>4. WithRec(row[cur], a).orphan <=> row[cur].orphan
    BY <1>1, RowWithRec
  <1>5. OnlyRec(row[cur], WithRec(row[cur], a))
    BY <1>1, <1>4, RowWithRec DEF OnlyRec
  <1>6. \A i \in Intents : OnlyRec(row[i], row'[i])
    BY <1>3, <1>5 DEF OnlyRec
  <1> QED
    BY <1>6, OnlyRecOwner DEF ReserveStep, InStep, BoundPcs

(* A start-up intent that carries what is owed is bound to it.             *)
LEMMA BindOwner ==
    ASSUME TypeInv, TypeInv', OwnerInv, BindStep
    PROVE  OwnerInv'
  <1>1. PICK b \in Checkpoints \cup {None}, e \in Nat :
          /\ MayBind(row[cur], b, e, Current(task))
          /\ \A j \in Intents :
                LET r == IF j = cur THEN Admitting(row[j], b, e, Current(task)) ELSE row[j]
                IN  row'[j] = IF row[cur].kind = "startup" THEN Unmarked(r) ELSE r
    BY DEF BindStep
  <1>2. PICK t \in Tasks \cup {None} : t = Current(task)
    BY CurrentTyped DEF TypeInv, TypeOK
  <1>3. /\ cur \in Intents /\ row[cur].state = "leased" /\ \A i \in Intents : row[i] \in IntentRows
        /\ pc = "admit" /\ pc' \in {"reserve", "prepare"} /\ task' = task /\ cur' = cur /\ owed' = owed
    BY DEF BindStep, TypeInv, TypeOK, InStep
  <1>4. ASSUME NEW i \in Intents, i # cur
        PROVE  /\ SameRow(row'[i], row[i]) /\ row'[i].state = row[i].state
               /\ row[cur].kind # "startup" => row'[i] = row[i]
    <2>1. row'[i] = IF row[cur].kind = "startup" THEN Unmarked(row[i]) ELSE row[i]
      BY <1>1, <1>4
    <2>2. SameRow(row[i], row[i])
      BY DEF SameRow
    <2> QED
      BY <1>3, <2>1, <2>2, RowUnmarked
  <1>5. /\ row'[cur].state = row[cur].state /\ row'[cur].kind = row[cur].kind
        /\ row'[cur].task = row[cur].task /\ row'[cur].bud = b /\ row'[cur].adm = e
        /\ row'[cur].admTask = t
    <2>1. PICK q \in IntentRows : /\ q = Admitting(row[cur], b, e, t)
                                  /\ q.state = row[cur].state /\ q.kind = row[cur].kind
                                  /\ q.task = row[cur].task /\ q.bud = b /\ q.adm = e /\ q.admTask = t
      BY <1>3, RowAdmitted
    <2>2. row'[cur] = IF row[cur].kind = "startup" THEN Unmarked(q) ELSE q
      BY <1>1, <1>2, <1>3, <2>1
    <2>3. SameRow(Unmarked(q), q) /\ Unmarked(q).state = q.state
      BY RowUnmarked
    <2> QED
      BY <2>1, <2>2, <2>3 DEF SameRow
  <1>6. ASSUME NEW i \in Intents, row'[i].orphan PROVE row[i].orphan
    <2> DEFINE r == IF i = cur THEN Admitting(row[i], b, e, t) ELSE row[i]
    <2>1. row'[i] = IF row[cur].kind = "startup" THEN Unmarked(r) ELSE r
      BY <1>1, <1>2
    <2>2. r \in IntentRows
      BY <1>3, RowAdmitted
    <2>3. r.orphan <=> row[i].orphan
      BY <1>3, RowAdmitted
    <2> HIDE DEF r
    <2>4. ~ Unmarked(r).orphan
      BY <2>2, RowUnmarked
    <2> QED
      BY <1>6, <2>1, <2>3, <2>4
  <1>7. \A i \in Intents : row'[i].state = row[i].state /\ row'[i].kind = row[i].kind
    BY <1>4, <1>5 DEF SameRow
  <1>8. OwesNoMore
    BY <1>3, TaskStays DEF OwesNoMore
  <1>9. Lone(task)' /\ OwedIsKnown' /\ (Owing' => Owing /\ owed' = owed)
    BY <1>8, OwedBefore
  <1>10. AdmittedIsCurrent'
    BY <1>2, <1>3, <1>5 DEF AdmittedIsCurrent
  <1>11. Marks'
    BY <1>3, <1>6, <1>7 DEF Marks, OwnerInv, InStep
  <1>12. ASSUME Owing', row[cur].kind = "startup"
         PROVE  Carries(row'[cur], owed') /\ row'[cur].task = owed'.task
    <2>1. Carries(row[cur], owed) /\ row[cur].task = owed.task
      BY <1>3, <1>9, <1>12 DEF OwnerInv, OwnerCarried
    <2>2. owed.bud \in Checkpoints \cup {None} /\ owed.task = t
      BY <1>2, <1>9, <1>12 DEF TypeInv, TypeOK, Owing
    <2>3. b = owed.bud
      BY <1>1, <2>1, <2>2 DEF MayBind, Carries, Checkpoints, None, Unset
    <2>4. e # Unset
      BY DEF Unset
    <2> QED
      BY <1>3, <1>5, <2>1, <2>2, <2>3, <2>4 DEF Carries
  <1>13. ASSUME Owing' PROVE \E i \in Intents : Carries(row'[i], owed') /\ Held(i)'
    <2>1. CASE row[cur].kind = "startup"
      BY <1>3, <1>5, <1>12, <1>13, <2>1 DEF Held, BoundPcs
    <2>2. CASE row[cur].kind # "startup"
      <3>1. PICK i \in Intents : Carries(row[i], owed) /\ Held(i)
        BY <1>3, <1>9, <1>13 DEF OwnerInv, OwnerWaits
      <3>2. row[i].orphan /\ i # cur
        BY <1>3, <3>1 DEF Held, BoundPcs, OwnerInv, Marks
      <3>3. row'[i] = row[i]
        BY <1>4, <2>2, <3>2
      <3> QED
        BY <1>3, <3>1, <3>2, <3>3 DEF Held
    <2> QED
      BY <2>1, <2>2
  <1>14. ASSUME Owing', NEW i \in Intents, row'[i].kind = "startup", row'[i].state \in {"queued", "leased"}
         PROVE  Carries(row'[i], owed') /\ row'[i].task = owed'.task
    <2>1. CASE i = cur
      BY <1>5, <1>12, <1>14, <2>1
    <2>2. CASE i # cur
      <3>1. SameRow(row'[i], row[i]) /\ row[i].state = row'[i].state
        BY <1>4, <2>2
      <3>2. Carries(row[i], owed) /\ row[i].task = owed.task
        BY <1>3, <1>9, <1>14, <3>1 DEF OwnerInv, OwnerCarried, SameRow
      <3> QED
        BY <1>3, <3>1, <3>2, CarriesSame DEF SameRow
    <2> QED
      BY <2>1, <2>2
  <1> QED
    BY <1>9, <1>10, <1>11, <1>13, <1>14 DEF OwnerInv, OwnerWaits, OwnerCarried

(* A crash owes what the step in hand was bound to, or goes on owing what  *)
(* no start-up turn has taken over.                                        *)
LEMMA CrashOwner ==
    ASSUME TypeInv, TypeInv', OwnerInv, Crash
    PROVE  OwnerInv'
  <1> DEFINE kept == /\ pc \in BoundPcs /\ row[cur].task \in {None, row[cur].admTask}
  <1>1. pc' = "down" /\ UNCHANGED <<task, row>>
    BY DEF Crash, ProcessEnds, db
  <1>2. kept => owed' = [task |-> row[cur].admTask, bud |-> row[cur].bud]
    BY DEF Crash, BoundPcs
  <1>3. ~ kept => owed' = IF pc = "verify" THEN NotOwed ELSE owed
    BY DEF Crash, BoundPcs
  <1>4. pc # "down"
    BY DEF Crash
  <1>5. Lone(task)' /\ AdmittedIsCurrent' /\ OwnerCarried' /\ Marks'
    BY <1>1 DEF OwnerInv, Lone, InFront, AdmittedIsCurrent, BoundPcs, OwnerCarried, Marks
  <1>6. kept => /\ cur \in Intents /\ row[cur].state = "leased" /\ row[cur].adm # Unset
                /\ row[cur].admTask = Current(task) /\ row[cur].admTask \in Tasks \cup {None}
    BY DEF TypeInv, OwnerInv, AdmittedIsCurrent, BoundPcs, InStep, Unset
  <1>7. OwedIsKnown'
    <2>1. CASE kept
      <3>1. row[cur].admTask # None => row[cur].admTask \in InFront(task)
        BY <1>6, <2>1, LoneCurrent DEF OwnerInv, TypeInv, TypeOK
      <3> QED
        BY <1>1, <1>2, <2>1, <3>1 DEF OwedIsKnown, InFront, Foreground
    <2>2. CASE ~ kept
      BY <1>1, <1>3, <2>2 DEF OwedIsKnown, OwnerInv, NotOwed
    <2> QED
      BY <2>1, <2>2
  <1>8. ASSUME Owing' PROVE \E i \in Intents : Carries(row'[i], owed') /\ Held(i)'
    <2>1. CASE kept
      <3>1. Carries(row'[cur], owed')
        BY <1>1, <1>2, <1>6, <2>1 DEF Carries
      <3>2. PICK i \in Intents : i = cur
        BY <1>6, <2>1
      <3>3. row'[i].state = "leased"
        BY <1>1, <1>6, <2>1, <3>2
      <3>4. Held(i)'
        BY <1>1, <3>3 DEF Held
      <3> QED
        BY <3>1, <3>2, <3>4
    <2>2. CASE ~ kept
      <3>1. pc # "verify" /\ owed' = owed /\ Owing
        BY <1>1, <1>3, <1>8, <2>2 DEF Owing, NotOwed
      <3>2. PICK i \in Intents : Carries(row[i], owed) /\ Held(i)
        BY <3>1 DEF OwnerInv, OwnerWaits
      <3>3. row[i].orphan
        BY <1>4, <2>2, <3>2 DEF Held, Carries
      <3> QED
        BY <1>1, <3>1, <3>2, <3>3 DEF Held
    <2> QED
      BY <2>1, <2>2
  <1> QED
    BY <1>5, <1>7, <1>8 DEF OwnerInv, OwnerWaits

(* A start marks what was leased.                                          *)
LEMMA BootOwner ==
    ASSUME TypeInv, TypeInv', OwnerInv, BootStep
    PROVE  OwnerInv'
  <1>1. pc = "down" /\ pc' = "reconcile" /\ UNCHANGED <<task, owed>>
    BY DEF BootStep
  <1>2. \A i \in Intents : row[i] \in IntentRows
    BY DEF TypeInv, TypeOK
  <1>3. OwesNoMore
    BY <1>1, TaskStays DEF OwesNoMore
  <1>4. Lone(task)' /\ OwedIsKnown' /\ (Owing' => Owing /\ owed' = owed)
    BY <1>3, OwedBefore
  <1>5. ASSUME NEW i \in Intents
        PROVE  /\ row'[i].state # "leased"
               /\ row'[i].orphan => row'[i].state = "failed"
               /\ row[i].state = "leased" => SameRow(row'[i], row[i])
               /\ row[i].state = "failed" => row'[i] = row[i]
    <2>1. CASE row[i].state = "leased"
      BY <1>2, <2>1, RowOrphaned DEF BootStep
    <2>2. CASE row[i].state # "leased" /\ row'[i] = row[i]
      BY <2>2 DEF OwnerInv, Marks
    <2>3. CASE Gone(row[i], row'[i])
      <3>1. row[i].state = "queued" /\ row'[i] = InState(row[i], "superseded")
        BY <2>3 DEF Gone
      <3>2. row'[i].state = "superseded"
        BY <1>2, <3>1, RowInState DEF Terminal
      <3>3. ~ row[i].orphan
        BY <3>1 DEF OwnerInv, Marks
      <3>4. InState(row[i], "superseded").orphan = row[i].orphan
        BY <1>2, RowInState DEF Terminal
      <3>5. ~ row'[i].orphan
        BY <3>1, <3>3, <3>4
      <3> QED
        BY <3>1, <3>2, <3>5
    <2> QED
      BY <2>1, <2>2, <2>3 DEF BootStep
  <1>6. AdmittedIsCurrent' /\ Marks' /\ OwnerCarried'
    BY <1>1, <1>5 DEF AdmittedIsCurrent, BoundPcs, Marks, OwnerCarried
  <1>7. ASSUME Owing' PROVE \E i \in Intents : Carries(row'[i], owed') /\ Held(i)'
    <2>1. PICK i \in Intents : Carries(row[i], owed) /\ Held(i)
      BY <1>1, <1>4, <1>7 DEF OwnerInv, OwnerWaits
    <2>2. CASE row[i].state = "leased"
      <3>1. row'[i] = Orphaned(row[i]) /\ SameRow(row'[i], row[i])
        BY <1>5, <2>2 DEF BootStep
      <3>2. row'[i].orphan
        BY <1>2, <3>1, RowMarked
      <3> QED
        BY <1>4, <1>7, <2>1, <3>1, <3>2, CarriesSame DEF Held
    <2>3. CASE row[i].state # "leased"
      <3>1. row[i].orphan
        BY <1>1, <2>1, <2>3 DEF Held, BoundPcs
      <3>2. row'[i] = row[i]
        BY <1>5, <3>1 DEF OwnerInv, Marks
      <3> QED
        BY <1>4, <1>7, <2>1, <3>1, <3>2 DEF Held
    <2> QED
      BY <2>2, <2>3
  <1> QED
    BY <1>4, <1>6, <1>7 DEF OwnerInv, OwnerWaits

(* What is superseded was queued, so it is not what waits.                 *)
LEMMA SupersedeOwner ==
    ASSUME TypeInv, TypeInv', OwnerInv, SupersedeStep
    PROVE  OwnerInv'
  <1>1. pc = "reconcile" /\ pc' = "refresh" /\ UNCHANGED <<task, owed>>
    BY DEF SupersedeStep
  <1>2. OwesNoMore
    BY <1>1, TaskStays DEF OwesNoMore
  <1>3. Lone(task)' /\ OwedIsKnown' /\ (Owing' => Owing /\ owed' = owed)
    BY <1>2, OwedBefore
  <1>4. \A i \in Intents : row[i].state # "leased" /\ (row[i].orphan => row[i].state = "failed")
    BY <1>1 DEF OwnerInv, Marks, InStep
  <1>5. ASSUME NEW i \in Intents
        PROVE  /\ row'[i].state # "leased" /\ (row'[i].orphan => row'[i].state = "failed")
               /\ row[i].orphan => row'[i] = row[i]
    <2>1. CASE row'[i] = row[i]
      BY <1>4, <2>1
    <2>2. CASE Gone(row[i], row'[i])
      <3>1. row[i] \in IntentRows /\ row[i].state = "queued" /\ row'[i] = InState(row[i], "superseded")
        BY <2>2 DEF Gone, TypeInv, TypeOK
      <3>2. InState(row[i], "superseded").state = "superseded"
        BY <3>1, RowInState DEF Terminal
      <3>3. InState(row[i], "superseded").orphan = row[i].orphan
        BY <3>1, RowInState DEF Terminal
      <3>4. ~ row[i].orphan
        BY <1>4, <3>1
      <3> QED
        BY <3>1, <3>2, <3>3, <3>4
    <2> QED
      BY <2>1, <2>2 DEF SupersedeStep
  <1>6. AdmittedIsCurrent' /\ Marks' /\ OwnerCarried'
    BY <1>1, <1>5 DEF AdmittedIsCurrent, BoundPcs, Marks, OwnerCarried
  <1>7. ASSUME Owing' PROVE \E i \in Intents : Carries(row'[i], owed') /\ Held(i)'
    <2>1. PICK w \in Intents : Carries(row[w], owed) /\ Held(w)
      BY <1>1, <1>3, <1>7 DEF OwnerInv, OwnerWaits
    <2>2. row[w].orphan
      BY <1>1, <2>1 DEF Held, BoundPcs
    <2>3. row'[w] = row[w]
      BY <1>5, <2>2
    <2> QED
      BY <1>3, <1>7, <2>1, <2>2, <2>3 DEF Held
  <1> QED
    BY <1>3, <1>6, <1>7 DEF OwnerInv, OwnerWaits

(* The start-up intent carries what is owed: a marked row with that owner  *)
(* is among those that are interrupted, and they have one owner.           *)
LEMMA ReconcileOwner ==
    ASSUME TypeInv, TypeInv', OwnerInv, RefreshInv, ReconcileStep
    PROVE  OwnerInv'
  <1>1. pc = "refresh" /\ pc' = "idle" /\ UNCHANGED <<task, owed>>
    BY DEF ReconcileStep
  <1>2. PICK r \in IntentRows :
          /\ Fresh(r) /\ r.state = "queued" /\ r.task = Current(task)
          /\ Interrupted(stale) # {} =>
                \E j \in Interrupted(stale) : /\ r.admTask = Current(task)
                                              /\ r.bud = row[j].bud /\ r.ev \in Nat
          /\ \A i \in Intents : \/ row'[i] = row[i]
                                \/ row[i].state = "absent" /\ row'[i] = r
    BY DEF ReconcileStep
  <1>3. OwesNoMore
    BY <1>1, TaskStays DEF OwesNoMore
  <1>4. Lone(task)' /\ OwedIsKnown' /\ (Owing' => Owing /\ owed' = owed)
    BY <1>3, OwedBefore
  <1>5. \A i \in Intents : row[i].state # "leased" /\ (row[i].orphan => row[i].state = "failed")
    BY <1>1 DEF OwnerInv, Marks, InStep
  <1>6. ~ r.orphan
    BY <1>2 DEF Fresh
  <1>7. \A i \in Intents : row'[i].state # "leased" /\ (row'[i].orphan => row'[i].state = "failed")
    BY <1>2, <1>5, <1>6
  <1>8. AdmittedIsCurrent' /\ Marks'
    BY <1>1, <1>7 DEF AdmittedIsCurrent, BoundPcs, Marks
  <1>9. ASSUME Owing'
        PROVE  \E w \in Intents : Carries(row[w], owed) /\ row[w].orphan /\ row[w].state = "failed"
    <2>1. PICK w \in Intents : Carries(row[w], owed) /\ Held(w)
      BY <1>1, <1>4, <1>9 DEF OwnerInv, OwnerWaits
    <2> QED
      BY <1>1, <1>5, <2>1 DEF Held, BoundPcs
  <1>10. ASSUME Owing' PROVE \E i \in Intents : Carries(row'[i], owed') /\ Held(i)'
    <2>1. PICK w \in Intents : Carries(row[w], owed) /\ row[w].orphan /\ row[w].state = "failed"
      BY <1>9, <1>10
    <2>2. row'[w] = row[w]
      BY <1>2, <2>1
    <2> QED
      BY <1>4, <1>10, <2>1, <2>2 DEF Held
  <1>11. ASSUME Owing' PROVE Carries(r, owed) /\ r.task = owed.task
    <2>1. PICK w \in Intents : Carries(row[w], owed) /\ row[w].orphan /\ row[w].state = "failed"
      BY <1>9, <1>11
    <2>2. owed.task # None /\ owed.task = Current(task) /\ owed.bud # Unset
      <3>1. owed.task # None /\ owed.task = Current(task)
        BY <1>4, <1>11 DEF Owing
      <3>2. owed.bud \in Checkpoints \cup {None}
        BY DEF TypeInv, TypeOK
      <3>3. \A n \in Checkpoints \cup {None} : n # Unset
        BY StoreAssumption DEF Checkpoints, None, Unset
      <3> QED
        BY <3>1, <3>2, <3>3
    <2>3. w \in Interrupted(stale)
      BY <2>1, <2>2 DEF Interrupted, Carrying, Carries
    <2>4. \A j \in Interrupted(stale) : row[j].bud = row[w].bud
      BY <1>1, <2>3 DEF RefreshInv
    <2>5. PICK j \in Interrupted(stale) : /\ r.admTask = Current(task)
                                          /\ r.bud = row[j].bud /\ r.ev \in Nat
      BY <1>2, <2>3
    <2>6. row[j].bud = row[w].bud
      BY <2>4
    <2>7. r.admTask = owed.task /\ r.task = owed.task /\ r.bud = owed.bud /\ r.ev \in Nat
      BY <1>2, <2>1, <2>2, <2>5, <2>6 DEF Carries
    <2> QED
      BY <2>7 DEF Carries, Unset
  <1>12. ASSUME Owing', NEW i \in Intents, row'[i].kind = "startup", row'[i].state \in {"queued", "leased"}
         PROVE  Carries(row'[i], owed') /\ row'[i].task = owed'.task
    <2>1. ~ (row[i].state = "queued" /\ row[i].kind = "startup")
      BY <1>1 DEF RefreshInv, RecoveryKinds
    <2>2. row'[i] = r
      BY <1>2, <1>7, <1>12, <2>1
    <2> QED
      BY <1>4, <1>11, <1>12, <2>2
  <1> QED
    BY <1>4, <1>8, <1>10, <1>12 DEF OwnerInv, OwnerWaits, OwnerCarried

(* No other step leads to the point where the start-up intent is made.     *)
LEMMA RefreshInvKept ==
    ASSUME TypeInv, RefreshInv, [Next]_vars
    PROVE  RefreshInv'
  <1>1. CASE UNCHANGED vars
    BY <1>1 DEF vars, db, memory, history, RefreshInv, Interrupted, Carrying
  <1>2. CASE Next
    <2>1. StepShape
      BY <1>2, NextShape
    <2>2. CASE BesideStep \/ LeaseStep \/ InsideStep \/ EndStep \/ BindStep
      BY <2>2 DEF BesideStep, LeaseStep, InsideStep, EndStep, BindStep, Up, InStep, RefreshInv
    <2>3. ASSUME NEW t \in Tasks \cup {None}, ClosedStep(t) PROVE RefreshInv'
      BY <2>3 DEF ClosedStep, InStep, RefreshInv
    <2>4. CASE ReserveStep \/ VerifyStep \/ Crash \/ BootStep \/ ReconcileStep
      BY <2>4 DEF ReserveStep, VerifyStep, Crash, ProcessEnds, BootStep, ReconcileStep, RefreshInv
    <2>5. CASE SupersedeStep
      BY <2>5 DEF SupersedeStep
    <2> QED
      BY <2>1, <2>2, <2>3, <2>4, <2>5 DEF StepShape
  <1> QED
    BY <1>1, <1>2

LEMMA StutterOwner == OwnerInv /\ UNCHANGED vars => OwnerInv'
  BY DEF vars, db, memory, history, OwnerInv, Lone, InFront, AdmittedIsCurrent, Marks, OwedIsKnown,
     OwnerWaits, OwnerCarried, Owing, Carries, Held

LEMMA OwnerInvKept ==
    ASSUME TypeInv, OwnerInv, RefreshInv, [Next]_vars
    PROVE  OwnerInv'
  <1>1. CASE UNCHANGED vars
    BY <1>1, StutterOwner
  <1>2. CASE Next
    <2>1. TypeInv' /\ StepShape
      BY <1>2, NextShape
    <2>2. CASE BesideStep \/ LeaseStep \/ InsideStep \/ EndStep \/ BindStep
      BY <2>1, <2>2, BesideOwner, LeaseOwner, InsideOwner, EndOwner, BindOwner
    <2>3. ASSUME NEW t \in Tasks \cup {None}, ClosedStep(t) PROVE OwnerInv'
      BY <2>1, <2>3, ClosedOwner
    <2>4. CASE ReserveStep \/ VerifyStep
      BY <2>1, <2>4, ReserveOwner, VerifyOwner
    <2>5. CASE Crash \/ BootStep \/ SupersedeStep \/ ReconcileStep
      BY <2>1, <2>5, CrashOwner, BootOwner, SupersedeOwner, ReconcileOwner
    <2> QED
      BY <2>1, <2>2, <2>3, <2>4, <2>5 DEF StepShape
  <1> QED
    BY <1>1, <1>2

LEMMA OwnerInvHolds == Spec => [](TypeInv /\ OwnerInv /\ RefreshInv)
  <1>1. Init => TypeInv /\ OwnerInv /\ RefreshInv
    BY InitTypeInv, InitOwnerInv DEF Init, RefreshInv
  <1>2. TypeInv /\ OwnerInv /\ RefreshInv /\ [Next]_vars => (TypeInv /\ OwnerInv /\ RefreshInv)'
    BY NextShape, StutterTypes, OwnerInvKept, RefreshInvKept
  <1> QED
    BY <1>1, <1>2, PTL DEF Spec

(* The turn of a start-up intent runs under the budget owner that the turn *)
(* a crash cut off ran under, although the task may have a later           *)
(* checkpoint by then: the orphan keeps its admission, the start-up intent *)
(* takes it over (enqueue_startup_reconciliation), and the mark goes only  *)
(* with the binding (bind_work_intent_admission, runtime_state.py).        *)
THEOREM CrashKeepsOwner == Spec => []OwnerKept
  <1>1. TypeInv /\ OwnerInv => OwnerKept
    <2> SUFFICES ASSUME TypeInv, OwnerInv, pc \in {"reserve", "driving", "prepare", "turn"},
                        row[cur].kind = "startup", owed.task # None, owed.task = row[cur].admTask
                 PROVE  row[cur].bud = owed.bud
      BY DEF OwnerKept
    <2>1. cur \in Intents /\ row[cur].state = "leased"
      BY DEF TypeInv, InStep
    <2>2. Owing
      BY DEF OwnerInv, AdmittedIsCurrent, BoundPcs, Owing
    <2>3. Carries(row[cur], owed)
      BY <2>1, <2>2 DEF OwnerInv, OwnerCarried
    <2> QED
      BY <2>3 DEF Carries
  <1> QED
    BY <1>1, OwnerInvHolds, PTL

----------------------------------------------------------------------------
(* The accounts of an approach *)

\* Checkpoints of a task and approach that have been settled, and what the
\* batches debited to them come to.
Charged(t, a) == {c \in Checkpoints : cp[c].task = t /\ cp[c].approach = a /\ settled[c] # Unset}
Spent(t, a) == Total(reserved, Charged(t, a))

(* The tables of tasks and checkpoints: checkpoints are written in the     *)
(* order of their ids, the latest of a task is its own and its last, and   *)
(* one that asks for a continuation names an approach and a budget.        *)
InOrder(T, C) ==
    /\ \A t \in Tasks : T[t].status = "absent" => T[t].latest = None
    /\ \A t \in Tasks : T[t].latest # None => C[T[t].latest].task = t
    /\ \A c \in Checkpoints : C[c].task # None => c <= T[C[c].task].latest
    /\ \A c, d \in Checkpoints : c < d /\ C[d].task # None => C[c].task # None
    /\ \A c \in Checkpoints : C[c].disp = "continue" => C[c].approach \in Approaches /\ C[c].budget > 0

(* Only a continuation is settled, and only a settled one is debited.  The *)
(* limit of an approach is the budget of its first settled checkpoint, and *)
(* both it and the account cover what has been debited.                    *)
Balanced(t, a) ==
    /\ Charged(t, a) = {} => approach[t][a].limit = 0
    /\ Charged(t, a) # {} => approach[t][a].limit = cp[Min(Charged(t, a))].budget
    /\ Spent(t, a) <= approach[t][a].used /\ Spent(t, a) <= approach[t][a].limit
AccountInv ==
    /\ InOrder(task, cp)
    /\ \A c \in Checkpoints : settled[c] # Unset => cp[c].task # None /\ cp[c].disp = "continue"
    /\ \A c \in Checkpoints : settled[c] = Unset => reserved[c] = 0
    /\ \A t \in Tasks, a \in Approaches : Balanced(t, a)

\* ----- the four ways a step treats these tables

(* Tasks keep their latest checkpoint; a new one has none.                 *)
SameLatest(T, U) ==
    \A t \in Tasks : /\ \/ U[t].latest = T[t].latest
                        \/ T[t].status = "absent" /\ U[t].latest = None
                     /\ U[t].status = "absent" => T[t].status = "absent"
BooksAside == SameLatest(task, task') /\ UNCHANGED <<cp, approach, settled, reserved>>
BooksWritten ==
    \E t \in InFront(task), c \in Checkpoints, disp \in Dispositions, x \in Approaches \cup {None},
       b \in Nat, n \in Nat :
       /\ cp[c].task = None /\ \A d \in Checkpoints : d < c => cp[d].task # None
       /\ disp = "continue" => x \in Approaches /\ b > 0
       /\ task' = TaskCheckpointed(task, t, c, disp)
       /\ cp' = CheckpointCreated(cp, task, t, c, disp, x, b, n)
       /\ UNCHANGED <<approach, settled, reserved>>
BooksSettled ==
    \E c \in Checkpoints, n \in Nat :
       /\ c = Latest(task) /\ cp[c].disp = "continue"
       /\ approach' = ApproachSettled(approach, settled, cp, c, n)
       /\ settled' = CheckpointSettled(settled, c, n)
       /\ UNCHANGED <<task, cp, reserved>>
BooksDebited ==
    \E c \in Checkpoints :
       /\ MayReserve(task, cp, approach, settled, c)
       /\ settled' = [settled EXCEPT ![c] = @ + 1]
       /\ approach' = Debited(approach, cp, c)
       /\ reserved' = [reserved EXCEPT ![c] = @ + 1]
       /\ UNCHANGED <<task, cp>>

LEMMA TransitionLatest ==
    ASSUME NEW T \in [Tasks -> TaskRows], NEW t \in Tasks, NEW status \in Statuses \ {"absent"}
    PROVE  SameLatest(T, Transitioned(T, t, status)) /\ SameLatest(T, T)
  BY DEF SameLatest, Transitioned, TaskRows

LEMMA CreatedLatest ==
    ASSUME NEW T \in [Tasks -> TaskRows], TaskRoom(T)
    PROVE  SameLatest(T, Created(T)) /\ SameLatest(T, Replaced(T))
  <1>1. ASSUME NEW U \in [Tasks -> TaskRows], TaskRoom(U)
        PROVE  SameLatest(U, Created(U))
    <2>1. NextTask(U) \in Tasks /\ U[NextTask(U)].status = "absent"
      BY <1>1, FirstAbsentTask DEF TaskRoom
    <2>2. PICK n \in Tasks : n = NextTask(U)
      BY <2>1
    <2>3. Created(U) = [U EXCEPT ![n] = [status |-> "running", rev |-> 1, latest |-> None]]
      BY <2>2 DEF Created
    <2> QED
      BY <2>1, <2>2, <2>3 DEF SameLatest
  <1> DEFINE V == [t \in Tasks |-> IF T[t].status \in Foreground
                                   THEN [T[t] EXCEPT !.status = "cancelled", !.rev = @ + 1]
                                   ELSE T[t]]
  <1>2. V \in [Tasks -> TaskRows]
    <2> SUFFICES ASSUME NEW t \in Tasks PROVE V[t] \in TaskRows
      OBVIOUS
    <2>1. T[t] \in TaskRows /\ "cancelled" \in Statuses
      BY DEF Statuses
    <2>2. [T[t] EXCEPT !.status = "cancelled", !.rev = @ + 1] \in TaskRows
      BY <2>1, TaskRowMoved
    <2> QED
      BY <2>1, <2>2
  <1>3. \A t \in Tasks : /\ V[t].latest = T[t].latest
                         /\ V[t].status = "absent" <=> T[t].status = "absent"
    BY DEF TaskRows, Foreground
  <1>4. Replaced(T) = Created(V)
    BY DEF Replaced
  <1> HIDE DEF V
  <1>5. SameLatest(V, Created(V))
    BY <1>1, <1>2, <1>3 DEF TaskRoom
  <1>6. SameLatest(T, Created(V))
    BY <1>3, <1>5 DEF SameLatest
  <1> QED
    BY <1>1, <1>4, <1>6

LEMMA ApplyAside ==
    ASSUME TypeInv, Apply
    PROVE  BooksAside
  <1>1. task \in [Tasks -> TaskRows]
    BY DEF TypeInv, TypeOK
  <1>2. \A status \in Statuses \ {"absent"} :
           /\ SameLatest(task, task)
           /\ Current(task) # None => SameLatest(task, Transitioned(task, Current(task), status))
    BY <1>1, CurrentTyped, TransitionLatest DEF SameLatest
  <1>3. /\ "running" \in Statuses \ {"absent"} /\ "paused" \in Statuses \ {"absent"}
        /\ "cancelled" \in Statuses \ {"absent"}
    BY DEF Statuses, Foreground
  <1>4. CASE ApplyStart \/ ApplyReplace
    <2>1. SameLatest(task, task')
      BY <1>1, <1>2, <1>3, <1>4, CreatedLatest DEF ApplyStart, ApplyReplace
    <2> QED
      BY <1>4, <2>1 DEF ApplyStart, ApplyReplace, BooksAside, history
  <1>5. CASE ApplyTalk
    <2> DEFINE kind == row[cur].kind
    <2>1. kind \in {"pause", "continue", "message"}
          /\ task' = IF Current(task) # None /\ kind # "message"
                     THEN Transitioned(task, Current(task), StatusAsked[kind]) ELSE task
      BY <1>5 DEF ApplyTalk
    <2>2. kind # "message" => StatusAsked[kind] \in Statuses \ {"absent"}
      BY <1>3, <2>1 DEF StatusAsked
    <2>3. SameLatest(task, task')
      BY <1>2, <1>3, <2>1, <2>2
    <2> QED
      BY <1>5, <2>3 DEF ApplyTalk, BooksAside, history
  <1>6. CASE ApplyCancel \/ ApplyQuit
    <2>1. SameLatest(task, task')
      BY <1>2, <1>3, <1>6 DEF ApplyCancel, ApplyQuit
    <2> QED
      BY <1>6, <2>1 DEF ApplyCancel, ApplyQuit, BooksAside, history
  <1>7. CASE ApplyBodyEvent
    <2>1. SameLatest(task, task')
      BY <1>2, <1>3, <1>7 DEF ApplyBodyEvent
    <2> QED
      BY <1>7, <2>1 DEF ApplyBodyEvent, BooksAside, history
  <1>8. CASE ApplyTaskWork \/ ApplyRecovery
    <2>1. SameLatest(task, task')
      BY <1>2, <1>3, <1>8 DEF ApplyTaskWork, ApplyRecovery
    <2> QED
      BY <1>8, <2>1 DEF ApplyTaskWork, ApplyRecovery, BooksAside, history
  <1> QED
    BY <1>4, <1>5, <1>6, <1>7, <1>8 DEF Apply

(* The first free checkpoint is where the next one is written.             *)
LEMMA FirstFree ==
    ASSUME TypeOK, CheckpointSpace
    PROVE  LET c == NextCheckpoint(cp) IN
           /\ c \in Checkpoints /\ cp[c].task = None
           /\ \A d \in Checkpoints : d < c => cp[d].task # None
  <1> DEFINE S == {c \in Checkpoints : cp[c].task = None}
  <1>1. left.checkpoint \in 0..MaxCheckpoints
    BY DEF TypeOK
  <1>2. S \in SUBSET Nat /\ S # {}
    BY <1>1, StoreAssumption DEF Checkpoints, CheckpointSpace
  <1>3. PICK m \in S : \A n \in S : m <= n
    <2> HIDE DEF S
    <2> QED
      BY <1>2, LeastMember
  <1>4. \A d \in 1..(m - 1) : d \in Checkpoints /\ ~ (m <= d)
    BY StoreAssumption DEF Checkpoints
  <1>5. cp[m].task = None /\ \A d \in 1..(m - 1) : cp[d].task # None
    BY <1>3, <1>4
  <1>6. PICK c \in Checkpoints : /\ c = NextCheckpoint(cp) /\ cp[c].task = None
                                 /\ \A d \in 1..(c - 1) : cp[d].task # None
    BY <1>3, <1>5 DEF NextCheckpoint
  <1>7. \A d \in Checkpoints : d < c => d \in 1..(c - 1)
    BY StoreAssumption DEF Checkpoints
  <1> QED
    BY <1>6, <1>7

LEMMA YieldWritten ==
    ASSUME TypeInv, CheckpointSpace, Current(task) # None,
           task' = TaskCheckpointed(task, Current(task), NextCheckpoint(cp), "yield"),
           cp' = CheckpointCreated(cp, task, Current(task), NextCheckpoint(cp), "yield", None, 0, 0),
           UNCHANGED <<approach, settled, reserved>>
    PROVE  BooksWritten
  <1>1. Current(task) \in InFront(task) /\ "yield" \in Dispositions
    BY FrontIsCurrent DEF TypeInv, TypeOK, Dispositions
  <1>2. PICK c \in Checkpoints : /\ c = NextCheckpoint(cp) /\ cp[c].task = None
                                 /\ \A d \in Checkpoints : d < c => cp[d].task # None
    BY FirstFree DEF TypeInv
  <1>3. /\ None \in Approaches \cup {None} /\ 0 \in Nat /\ "yield" # "continue"
        /\ task' = TaskCheckpointed(task, Current(task), c, "yield")
        /\ cp' = CheckpointCreated(cp, task, Current(task), c, "yield", None, 0, 0)
    BY <1>2
  <1> QED
    BY <1>1, <1>2, <1>3 DEF BooksWritten

LEMMA CheckpointToolBooks ==
    ASSUME TypeInv, NEW disp \in Dispositions, NEW a \in Approaches, NEW b \in Budgets \cup {0},
           CheckpointTool(disp, a, b)
    PROVE  BooksWritten
  <1>1. Current(task) \in InFront(task)
    BY FrontIsCurrent DEF TypeInv, TypeOK, CheckpointTool
  <1>2. PICK c \in Checkpoints : /\ c = NextCheckpoint(cp) /\ cp[c].task = None
                                 /\ \A d \in Checkpoints : d < c => cp[d].task # None
    BY FirstFree DEF TypeInv, CheckpointTool
  <1>3. b \in Nat /\ cursor \in Nat /\ (disp = "continue" => b # 0)
    BY StoreAssumption DEF TypeInv, TypeOK, CheckpointTool
  <1>4. PICK x \in Approaches \cup {None} : x = IF b = 0 THEN None ELSE a
    OBVIOUS
  <1>5. disp = "continue" => x \in Approaches /\ b > 0
    BY <1>3, <1>4
  <1>6. /\ task' = TaskCheckpointed(task, Current(task), c, disp)
        /\ cp' = CheckpointCreated(cp, task, Current(task), c, disp, x, b, cursor)
        /\ UNCHANGED <<approach, settled, reserved>>
    BY <1>2, <1>4 DEF CheckpointTool, history
  <1> QED
    BY <1>1, <1>2, <1>3, <1>5, <1>6 DEF BooksWritten

LEMMA OpenBatchBooks ==
    ASSUME TypeInv, NEW work \in BOOLEAN, OpenBatch(work)
    PROVE  BooksAside \/ BooksDebited
  <1> DEFINE c == row[cur].bud
  <1>1. c \in Checkpoints \cup {None} /\ SameLatest(task, task) /\ task' = task /\ cp' = cp
    BY DEF OpenBatch, TypeInv, BoundPcs, SameLatest
  <1>2. CASE /\ c # None /\ work /\ MayReserve(task, cp, approach, settled, c)
             /\ settled' = [settled EXCEPT ![c] = @ + 1]
             /\ approach' = Debited(approach, cp, c)
             /\ reserved' = [reserved EXCEPT ![c] = @ + 1]
    BY <1>1, <1>2 DEF BooksDebited
  <1>3. CASE UNCHANGED <<settled, approach, reserved>>
    BY <1>1, <1>3 DEF BooksAside
  <1> QED
    BY <1>2, <1>3 DEF OpenBatch

LEMMA FinishBooks ==
    ASSUME TypeInv, Finish
    PROVE  BooksAside \/ BooksWritten \/ BooksSettled
  <1>1. SameLatest(task, task)
    BY DEF SameLatest
  <1>2. task \in [Tasks -> TaskRows]
    BY DEF TypeInv, TypeOK
  <1>3. CASE FinishOpen
    <2> DEFINE yields == /\ Current(task) # None /\ row[cur].kind = "task_boundary"
                         /\ task[Current(task)].status = "running"
    <2>1. CASE yields
      BY <1>3, <2>1, YieldWritten DEF FinishOpen, history
    <2>2. CASE ~ yields
      BY <1>1, <1>3, <2>2 DEF FinishOpen, history, BooksAside
    <2> QED
      BY <2>1, <2>2
  <1>4. CASE FinishClosed \/ FinishStopped
    BY <1>1, <1>4 DEF FinishClosed, FinishStopped, history, BooksAside
  <1>5. CASE FinishContinued
    <2>1. Latest(task) \in Checkpoints
      BY <1>2, <1>5, CurrentTyped DEF FinishContinued, NewCheckpoint
    <2>2. PICK c \in Checkpoints : c = Latest(task)
      BY <2>1
    <2>3. epoch \in Seq(EpochRows)
      BY DEF TypeInv, TypeOK
    <2>4. PICK n \in Nat : n = Consumed(epoch, cp[c].cursor)
      BY <2>3, ConsumedIsNat
    <2> QED
      BY <1>5, <2>2, <2>4 DEF FinishContinued, history, BooksSettled
  <1>6. CASE FinishParked
    <2> DEFINE quitting == \E i \in Queued(row) : row[i].kind = "quit"
    <2>1. Current(task) # None
      BY <1>2, <1>6, CurrentTyped DEF FinishParked, NewCheckpoint
    <2>2. CASE quitting
      BY <1>6, <2>1, <2>2, YieldWritten DEF FinishParked, history
    <2>3. CASE ~ quitting
      BY <1>1, <1>6, <2>3 DEF FinishParked, history, BooksAside
    <2> QED
      BY <2>2, <2>3
  <1> QED
    BY <1>3, <1>4, <1>5, <1>6 DEF Finish

LEMMA BooksShape ==
    ASSUME TypeInv, [Next]_vars
    PROVE  BooksAside \/ BooksWritten \/ BooksSettled \/ BooksDebited
  <1>1. SameLatest(task, task)
    BY DEF SameLatest
  <1>2. Current(task) # None =>
           /\ SameLatest(task, Transitioned(task, Current(task), "completed"))
           /\ SameLatest(task, Transitioned(task, Current(task), "running"))
    BY CurrentTyped, TransitionLatest DEF TypeInv, TypeOK, Statuses, Foreground
  <1>3. SameLatest(task, TaskCompleted)
    BY <1>1, <1>2 DEF TaskCompleted
  <1>4. CASE UNCHANGED vars
    BY <1>1, <1>4 DEF vars, db, history, BooksAside
  <1>5. ASSUME NEW kind \in left.kinds, Submit(kind) PROVE BooksAside
    BY <1>1, <1>5 DEF Submit, history, BooksAside
  <1>6. CASE Die \/ WakeUp \/ Lease
    BY <1>1, <1>6 DEF Die, WakeUp, Lease, history, BooksAside
  <1>7. CASE Apply
    BY <1>7, ApplyAside
  <1>8. CASE ConfirmFails \/ ConfirmPasses \/ Admit \/ ReserveFails \/ Reserve
    BY <1>1, <1>8 DEF ConfirmFails, ConfirmPasses, Admit, ReserveFails, Reserve, history, BooksAside
  <1>9. CASE TerminalStep
    BY <1>1, <1>3, <1>9 DEF TerminalStep, history, BooksAside
  <1>10. CASE RecoveryFails \/ RecoveryConfirmed \/ Prepare \/ CloseBatch \/ TurnCompletes
    BY <1>1, <1>10 DEF RecoveryFails, RecoveryConfirmed, Prepare, CloseBatch, TurnCompletes, db, history,
       BooksAside
  <1>11. CASE TurnStops \/ TransportFails \/ TurnFails \/ Preempted
    BY <1>1, <1>11 DEF TurnStops, TransportFails, TurnFails, Preempted, history, BooksAside
  <1>12. ASSUME NEW work \in BOOLEAN, OpenBatch(work) PROVE BooksAside \/ BooksDebited
    BY <1>12, OpenBatchBooks
  <1>13. ASSUME NEW disp \in Dispositions, NEW a \in Approaches, NEW b \in Budgets \cup {0},
                CheckpointTool(disp, a, b)
         PROVE  BooksWritten
    BY <1>13, CheckpointToolBooks
  <1>14. CASE Finish
    BY <1>14, FinishBooks
  <1>15. CASE VerifySatisfied
    BY <1>3, <1>15 DEF VerifySatisfied, BooksAside
  <1>16. CASE VerifyRejected \/ VerifyRejectedCrash
    BY <1>2, <1>16 DEF VerifyRejected, VerifyRejectedCrash, CompletionRequested, BooksAside
  <1>17. CASE VerifyNothing \/ Crash \/ Boot \/ SupersedeStale \/ Reconcile
    BY <1>1, <1>17 DEF VerifyNothing, Crash, Boot, SupersedeStale, Reconcile, db, history, BooksAside
  <1> QED
    BY <1>4, <1>5, <1>6, <1>7, <1>8, <1>9, <1>10, <1>11, <1>12, <1>13, <1>14, <1>15, <1>16, <1>17
       DEF Next, Verify

\* ----- what each of them does to the accounts

LEMMA ChargedFinite ==
    ASSUME TypeInv, NEW t, NEW a
    PROVE  /\ Charged(t, a) \subseteq Checkpoints /\ IsFiniteSet(Charged(t, a))
           /\ \A x \in Charged(t, a) : reserved[x] \in Nat
           /\ Spent(t, a) \in Nat
           /\ Charged(t, a) # {} => /\ Min(Charged(t, a)) \in Charged(t, a)
                                    /\ \A x \in Charged(t, a) : Min(Charged(t, a)) <= x
  <1>1. IsFiniteSet(Checkpoints) /\ Charged(t, a) \in SUBSET Checkpoints /\ Charged(t, a) \in SUBSET Nat
    BY StoreAssumption, FS_Interval DEF Checkpoints, Charged
  <1>2. IsFiniteSet(Charged(t, a))
    BY <1>1, FS_Subset
  <1>3. \A x \in Charged(t, a) : reserved[x] \in Nat
    BY <1>1 DEF TypeInv, TypeOK
  <1>4. Spent(t, a) \in Nat
    BY <1>2, <1>3, TotalIsCount DEF Spent
  <1> QED
    BY <1>1, <1>2, <1>3, <1>4, LeastIsMember

LEMMA AsideAccounts ==
    ASSUME TypeInv, AccountInv, BooksAside
    PROVE  AccountInv'
  <1>1. InOrder(task', cp')
    <2>1. cp' = cp /\ SameLatest(task, task') /\ InOrder(task, cp)
      BY DEF AccountInv, BooksAside
    <2>2. \A t \in Tasks : /\ task'[t].latest = task[t].latest
                           /\ task'[t].status = "absent" => task[t].status = "absent"
      BY <2>1 DEF SameLatest, InOrder
    <2>3. \A c \in Checkpoints : cp[c].task # None => cp[c].task \in Tasks
      BY DEF TypeInv, TypeOK, CheckpointRows
    <2>4. \A t \in Tasks : /\ task'[t].status = "absent" => task'[t].latest = None
                           /\ task'[t].latest # None => cp[task'[t].latest].task = t
      BY <2>1, <2>2 DEF InOrder
    <2>5. \A c \in Checkpoints : cp[c].task # None => c <= task'[cp[c].task].latest
      BY <2>1, <2>2, <2>3 DEF InOrder
    <2> QED
      BY <2>1, <2>4, <2>5 DEF InOrder
  <1>2. ASSUME NEW t \in Tasks, NEW a \in Approaches
        PROVE  Balanced(t, a)'
    <2>1. Balanced(t, a)
      BY DEF AccountInv
    <2>2. Charged(t, a)' = Charged(t, a) /\ Spent(t, a)' = Spent(t, a)
      BY DEF BooksAside, Charged, Spent
    <2> QED
      BY <2>1, <2>2 DEF Balanced, BooksAside
  <1> QED
    BY <1>1, <1>2 DEF AccountInv, BooksAside

LEMMA WrittenAccounts ==
    ASSUME TypeInv, AccountInv, BooksWritten
    PROVE  AccountInv'
  <1>1. PICK t \in InFront(task), c \in Checkpoints, disp \in Dispositions, x \in Approaches \cup {None},
             b \in Nat, n \in Nat :
               /\ cp[c].task = None /\ \A d \in Checkpoints : d < c => cp[d].task # None
               /\ disp = "continue" => x \in Approaches /\ b > 0
               /\ task' = TaskCheckpointed(task, t, c, disp)
               /\ cp' = CheckpointCreated(cp, task, t, c, disp, x, b, n)
               /\ UNCHANGED <<approach, settled, reserved>>
    BY DEF BooksWritten
  <1>2. t \in Tasks /\ t # None /\ StatusAfter[disp] # "absent"
    BY DEF InFront, Tasks, None, StatusAfter, Dispositions
  <1>3. \A u \in Tasks : /\ u = t => task'[u].latest = c /\ task'[u].status # "absent"
                         /\ u # t => task'[u] = task[u]
    BY <1>1, <1>2 DEF TaskCheckpointed, TypeInv, TypeOK
  <1>4. \A d \in Checkpoints :
           /\ d = c => /\ cp'[d].task = t /\ cp'[d].disp = disp /\ cp'[d].approach = x
                       /\ cp'[d].budget = b
           /\ d # c => cp'[d] = cp[d]
    BY <1>1 DEF CheckpointCreated, TypeInv, TypeOK
  <1>5. c \in Nat /\ \A d \in Checkpoints : d \in Nat /\ (d < c \/ d = c \/ c < d)
    BY DEF Checkpoints
  <1>6. \A d \in Checkpoints : c < d => cp[d].task = None
    BY <1>1 DEF AccountInv, InOrder
  <1>7. InOrder(task', cp')
    <2>1. ASSUME NEW u \in Tasks
          PROVE  /\ task'[u].status = "absent" => task'[u].latest = None
                 /\ task'[u].latest # None => cp'[task'[u].latest].task = u
      <3>1. task[u].latest \in Checkpoints \cup {None}
        BY DEF TypeInv, TypeOK, TaskRows
      <3>2. /\ task[u].status = "absent" => task[u].latest = None
            /\ task[u].latest # None => cp[task[u].latest].task = u
        BY DEF AccountInv, InOrder
      <3>3. u # None
        BY DEF Tasks, None
      <3> QED
        BY <1>1, <1>2, <1>3, <1>4, <3>1, <3>2, <3>3
    <2>2. ASSUME NEW d \in Checkpoints, cp'[d].task # None
          PROVE  d <= task'[cp'[d].task].latest
      <3>1. CASE d = c
        BY <1>2, <1>3, <1>4, <1>5, <3>1
      <3>2. CASE d # c
        <4>1. cp'[d] = cp[d] /\ cp[d].task \in Tasks /\ d <= task[cp[d].task].latest
          BY <1>4, <2>2, <3>2 DEF AccountInv, InOrder, TypeInv, TypeOK, CheckpointRows
        <4>2. d < c
          BY <1>5, <1>6, <3>2, <4>1, <2>2
        <4>3. PICK u \in Tasks : u = cp[d].task
          BY <4>1
        <4>4. CASE u = t
          <5>1. task'[u].latest = c /\ d <= c
            BY <1>3, <1>5, <4>2, <4>4
          <5> QED
            BY <4>1, <4>3, <5>1
        <4>5. CASE u # t
          BY <1>3, <4>1, <4>3, <4>5
        <4> QED
          BY <4>4, <4>5
      <3> QED
        BY <3>1, <3>2
    <2>3. ASSUME NEW d \in Checkpoints, NEW e \in Checkpoints, d < e, cp'[e].task # None
          PROVE  cp'[d].task # None
      <3>1. CASE e = c
        BY <1>1, <1>4, <1>5, <2>3, <3>1
      <3>2. CASE e # c
        <4>1. cp[d].task # None
          BY <1>4, <2>3, <3>2 DEF AccountInv, InOrder
        <4> QED
          BY <1>2, <1>4, <4>1
      <3> QED
        BY <3>1, <3>2
    <2>4. ASSUME NEW d \in Checkpoints, cp'[d].disp = "continue"
          PROVE  cp'[d].approach \in Approaches /\ cp'[d].budget > 0
      BY <1>1, <1>4, <2>4 DEF AccountInv, InOrder
    <2> QED
      BY <2>1, <2>2, <2>3, <2>4 DEF InOrder
  <1>8. settled[c] = Unset
    BY <1>1 DEF AccountInv
  <1>9. \A d \in Checkpoints : settled'[d] # Unset => cp'[d].task # None /\ cp'[d].disp = "continue"
    BY <1>1, <1>4, <1>8 DEF AccountInv
  <1>10. ASSUME NEW u \in Tasks, NEW a \in Approaches
         PROVE  Balanced(u, a)'
    <2>1. Balanced(u, a)
      BY DEF AccountInv
    <2>2. Charged(u, a)' = Charged(u, a)
      BY <1>1, <1>4, <1>8 DEF Charged
    <2>3. Spent(u, a)' = Spent(u, a)
      BY <1>1, <2>2 DEF Spent
    <2>4. Charged(u, a) # {} => cp'[Min(Charged(u, a))] = cp[Min(Charged(u, a))]
      <3>1. c \notin Charged(u, a)
        BY <1>8 DEF Charged
      <3> QED
        BY <1>4, <3>1, ChargedFinite
    <2> QED
      BY <1>1, <2>1, <2>2, <2>3, <2>4 DEF Balanced
  <1> QED
    BY <1>1, <1>7, <1>9, <1>10 DEF AccountInv

(* A checkpoint settled for the first time is the last of its task, so it  *)
(* is the first of its approach or not the first to be settled.            *)
LEMMA SettledAccounts ==
    ASSUME TypeInv, AccountInv, BooksSettled
    PROVE  AccountInv'
  <1>1. PICK c \in Checkpoints, n \in Nat :
               /\ c = Latest(task) /\ cp[c].disp = "continue"
               /\ approach' = ApproachSettled(approach, settled, cp, c, n)
               /\ settled' = CheckpointSettled(settled, c, n)
               /\ UNCHANGED <<task, cp, reserved>>
    BY DEF BooksSettled
  <1>2. PICK t \in Tasks : t = Current(task) /\ c = task[t].latest
    <2>1. Latest(task) # None
      BY <1>1 DEF Checkpoints, None
    <2> QED
      BY <1>1, <2>1, CurrentTyped DEF TypeInv, TypeOK, Latest
  <1>3. cp[c].task = t /\ t # None
    BY <1>2 DEF AccountInv, InOrder, Checkpoints, Tasks, None
  <1>4. PICK a \in Approaches : a = cp[c].approach
    BY <1>1 DEF AccountInv, InOrder
  <1>5. cp[c].budget \in Nat /\ cp[c].budget > 0 /\ settled \in [Checkpoints -> Nat \cup {Unset}]
    BY <1>1 DEF AccountInv, InOrder, TypeInv, TypeOK, CheckpointRows
  <1>6. approach \in [Tasks -> [Approaches -> Accounts]]
    BY DEF TypeInv, TypeOK
  <1>7. approach[t][a].limit \in Nat /\ approach[t][a].used \in Nat
    BY <1>6 DEF Accounts
  <1>8. \A x \in Charged(t, a) : x <= c /\ x \in Nat
    BY <1>2, <1>3 DEF Charged, AccountInv, InOrder, Checkpoints
  <1>9. Charged(t, a) # {} => approach[t][a].limit # 0 /\ approach[t][a].limit = cp[Min(Charged(t, a))].budget
    <2>1. HAVE Charged(t, a) # {}
    <2>2. PICK x \in Checkpoints : x = Min(Charged(t, a)) /\ settled[x] # Unset
      <3>1. Min(Charged(t, a)) \in Charged(t, a)
        BY <2>1, ChargedFinite
      <3>2. \A y \in Charged(t, a) : y \in Checkpoints /\ settled[y] # Unset
        BY DEF Charged
      <3> QED
        BY <3>1, <3>2
    <2>3. cp[x].budget > 0 /\ cp[x].budget \in Nat
      BY <2>2 DEF AccountInv, InOrder, TypeInv, TypeOK, CheckpointRows
    <2>4. approach[t][a].limit = cp[x].budget
      BY <2>1, <2>2 DEF AccountInv, Balanced
    <2> QED
      BY <2>2, <2>3, <2>4
  <1>10. CASE settled[c] # Unset
    <2>1. c \in Charged(t, a)
      BY <1>3, <1>4, <1>10 DEF Charged
    <2>2. approach' = approach /\ settled' = settled
      BY <1>1, <1>3, <1>4, <1>9, <1>10, <2>1 DEF ApproachSettled, CheckpointSettled
    <2>3. ASSUME NEW u \in Tasks, NEW b \in Approaches PROVE Balanced(u, b)'
      <3>1. Charged(u, b)' = Charged(u, b) /\ Spent(u, b)' = Spent(u, b) /\ Balanced(u, b)
        BY <1>1, <2>2 DEF Charged, Spent, AccountInv
      <3> QED
        BY <1>1, <2>2, <3>1 DEF Balanced
    <2> QED
      BY <1>1, <2>2, <2>3 DEF AccountInv
  <1>11. CASE settled[c] = Unset
    <2>1. /\ settled' = [settled EXCEPT ![c] = n]
          /\ n # Unset
      BY <1>1, <1>11 DEF CheckpointSettled, Unset
    <2>2. \A x \in Checkpoints : /\ settled'[x] # Unset <=> x = c \/ settled[x] # Unset
      BY <1>5, <2>1
    <2>3. /\ approach'[t][a].used = approach[t][a].used + n
          /\ approach'[t][a].limit = IF approach[t][a].limit = 0 THEN cp[c].budget
                                     ELSE approach[t][a].limit
          /\ \A u \in Tasks, b \in Approaches : u # t \/ b # a => approach'[u][b] = approach[u][b]
      <3> DEFINE A == IF approach[t][a].limit = 0 THEN [approach EXCEPT ![t][a].limit = cp[c].budget]
                      ELSE approach
      <3>1. A \in [Tasks -> [Approaches -> Accounts]]
        BY <1>5, <1>6, LimitTyped
      <3>2. /\ A[t][a].used = approach[t][a].used
            /\ A[t][a].limit = IF approach[t][a].limit = 0 THEN cp[c].budget ELSE approach[t][a].limit
            /\ \A u \in Tasks, b \in Approaches : u # t \/ b # a => A[u][b] = approach[u][b]
        BY <1>6 DEF Accounts
      <3>3. approach' = [A EXCEPT ![t][a].used = @ + n]
        BY <1>1, <1>3, <1>4, <1>11 DEF ApproachSettled
      <3> HIDE DEF A
      <3>4. /\ approach'[t][a].used = A[t][a].used + n /\ approach'[t][a].limit = A[t][a].limit
            /\ \A u \in Tasks, b \in Approaches : u # t \/ b # a => approach'[u][b] = A[u][b]
        BY <3>1, <3>3 DEF Accounts
      <3> QED
        BY <3>2, <3>4
    <2>4. Charged(t, a)' = Charged(t, a) \cup {c} /\ c \notin Charged(t, a)
      BY <1>1, <1>3, <1>4, <1>11, <2>2 DEF Charged
    <2>5. Spent(t, a)' = Spent(t, a)
      <3> DEFINE S == Charged(t, a) \cup {c}
      <3>1. IsFiniteSet(S) /\ \A x \in S : reserved[x] \in Nat
        <4>1. IsFiniteSet(Charged(t, a)) /\ \A x \in Charged(t, a) : reserved[x] \in Nat
          BY ChargedFinite
        <4>2. reserved[c] \in Nat
          BY DEF TypeInv, TypeOK
        <4> QED
          BY <4>1, <4>2, FS_AddElement
      <3>2. S \ {c} = Charged(t, a) /\ c \in S
        BY <2>4
      <3>3. reserved[c] = 0
        BY <1>11 DEF AccountInv
      <3>4. Total(reserved, S) = reserved[c] + Total(reserved, S \ {c}) /\ Total(reserved, S \ {c}) \in Nat
        BY <3>1, <3>2, TotalSplit
      <3>5. Total(reserved, S) = Total(reserved, Charged(t, a))
        <4> HIDE DEF S
        <4> QED
          BY <3>2, <3>3, <3>4
      <3> QED
        BY <1>1, <2>4, <3>5 DEF Spent
    <2>6. Balanced(t, a)'
      <3>1. Charged(t, a)' # {} /\ Spent(t, a) \in Nat
        BY <2>4, ChargedFinite
      <3>2. Spent(t, a) <= approach[t][a].used /\ Spent(t, a) <= approach[t][a].limit
        BY DEF AccountInv, Balanced
      <3>3. Spent(t, a)' <= approach'[t][a].used
        BY <1>7, <2>3, <2>5, <3>1, <3>2
      <3>4. Spent(t, a)' <= approach'[t][a].limit
        BY <1>5, <1>7, <2>3, <2>5, <3>1, <3>2
      <3>5. approach'[t][a].limit = cp'[Min(Charged(t, a)')].budget
        <4>1. CASE Charged(t, a) = {}
          <5>1. Charged(t, a)' = {c} /\ c \in Nat
            BY <2>4, <4>1 DEF Checkpoints
          <5>2. Min(Charged(t, a)') = c
            <6>1. {c} \in SUBSET Nat /\ {c} # {}
              BY <5>1
            <6>2. Min({c}) \in {c}
              BY <6>1, LeastIsMember
            <6> QED
              BY <5>1, <6>2
          <5>3. approach[t][a].limit = 0
            BY <4>1 DEF AccountInv, Balanced
          <5> QED
            BY <1>1, <2>3, <5>2, <5>3
        <4>2. CASE Charged(t, a) # {}
          <5> DEFINE S == Charged(t, a)
                     m == Min(S)
                     k == Min(S \cup {c})
          <5>1. m \in S /\ (\A x \in S : m <= x) /\ S \subseteq Nat /\ c \in Nat
            BY <1>8, <4>2, ChargedFinite DEF Checkpoints
          <5>2. S \cup {c} \in SUBSET Nat /\ S \cup {c} # {}
            BY <5>1
          <5>3. k \in S \cup {c} /\ \A x \in S \cup {c} : k <= x
            <6> HIDE DEF S
            <6> QED
              BY <5>2, LeastIsMember
          <5>4. m <= c /\ c \notin S
            BY <1>8, <2>4, <5>1
          <5> HIDE DEF S, m, k
          <5>5. m \in Nat /\ k \in Nat
            BY <5>1, <5>2, <5>3
          <5>6. k = m
            <6>1. k <= m
              BY <5>1, <5>3
            <6>2. m <= k
              BY <5>1, <5>3, <5>4
            <6> QED
              BY <5>5, <6>1, <6>2
          <5>7. Min(Charged(t, a)') = Min(Charged(t, a))
            BY <2>4, <5>6 DEF S, m, k
          <5> QED
            BY <1>1, <1>9, <2>3, <4>2, <5>7
        <4> QED
          BY <4>1, <4>2
      <3> QED
        BY <3>1, <3>3, <3>4, <3>5 DEF Balanced
    <2>7. ASSUME NEW u \in Tasks, NEW b \in Approaches, u # t \/ b # a
          PROVE  Balanced(u, b)'
      <3>1. Charged(u, b)' = Charged(u, b)
        BY <1>1, <1>3, <1>4, <2>2, <2>7 DEF Charged
      <3>2. Spent(u, b)' = Spent(u, b) /\ approach'[u][b] = approach[u][b]
        BY <1>1, <2>3, <2>7, <3>1 DEF Spent
      <3>3. Balanced(u, b)
        BY DEF AccountInv
      <3> QED
        BY <1>1, <3>1, <3>2, <3>3 DEF Balanced
    <2>8. \A u \in Tasks, b \in Approaches : Balanced(u, b)'
      BY <2>6, <2>7
    <2>9. /\ \A x \in Checkpoints : settled'[x] # Unset => cp[x].task # None /\ cp[x].disp = "continue"
          /\ \A x \in Checkpoints : settled'[x] = Unset => reserved[x] = 0
      BY <1>1, <1>3, <2>2 DEF AccountInv
    <2> QED
      BY <1>1, <2>8, <2>9 DEF AccountInv
  <1> QED
    BY <1>10, <1>11
LEMMA DebitedAccounts ==
    ASSUME TypeInv, AccountInv, BooksDebited
    PROVE  AccountInv'
  <1>1. PICK c \in Checkpoints :
               /\ MayReserve(task, cp, approach, settled, c)
               /\ settled' = [settled EXCEPT ![c] = @ + 1]
               /\ approach' = Debited(approach, cp, c)
               /\ reserved' = [reserved EXCEPT ![c] = @ + 1]
               /\ UNCHANGED <<task, cp>>
    BY DEF BooksDebited
  <1>2. PICK t \in Tasks : t = cp[c].task
    BY <1>1 DEF MayReserve, TypeInv, TypeOK, CheckpointRows
  <1>3. PICK a \in Approaches : a = cp[c].approach
    BY <1>1 DEF MayReserve, AccountInv, InOrder
  <1>4. settled[c] # Unset /\ approach[t][a].used < approach[t][a].limit
    BY <1>1, <1>2, <1>3 DEF MayReserve
  <1>5. /\ settled \in [Checkpoints -> Nat \cup {Unset}] /\ reserved \in [Checkpoints -> Nat]
        /\ approach \in [Tasks -> [Approaches -> Accounts]]
    BY DEF TypeInv, TypeOK
  <1>6. approach[t][a].limit \in Nat /\ approach[t][a].used \in Nat
    BY <1>5 DEF Accounts
  <1>7. \A x \in Checkpoints : settled'[x] # Unset <=> settled[x] # Unset
    <2>1. settled[c] \in Nat
      BY <1>4, <1>5
    <2>2. settled[c] + 1 # Unset
      BY <2>1 DEF Unset
    <2> QED
      BY <1>1, <1>4, <1>5, <2>2
  <1>8. \A u, b : Charged(u, b)' = Charged(u, b)
    BY <1>1, <1>7 DEF Charged
  <1>9. /\ reserved[c] \in Nat /\ reserved'[c] = reserved[c] + 1
        /\ \A x \in Checkpoints : x # c => reserved'[x] = reserved[x]
    BY <1>1, <1>5
  <1>10. approach' = [approach EXCEPT ![t][a].used = @ + 1]
    BY <1>1, <1>2, <1>3 DEF Debited
  <1>11. /\ approach'[t][a].used = approach[t][a].used + 1
         /\ approach'[t][a].limit = approach[t][a].limit
         /\ \A u \in Tasks, b \in Approaches : u # t \/ b # a => approach'[u][b] = approach[u][b]
    BY <1>5, <1>10 DEF Accounts
  <1>12. Spent(t, a)' = Spent(t, a) + 1
    <2> DEFINE S == Charged(t, a)
    <2>1. c \in S
      BY <1>2, <1>3, <1>4 DEF Charged
    <2>2. IsFiniteSet(S) /\ S \subseteq Checkpoints /\ \A x \in S : reserved[x] \in Nat
      BY ChargedFinite
    <2> HIDE DEF S
    <2>3. \A x \in S : reserved'[x] \in Nat
      BY <1>5, <1>9, <2>2
    <2>4. /\ Total(reserved, S) = reserved[c] + Total(reserved, S \ {c})
          /\ Total(reserved, S \ {c}) \in Nat
      BY <2>1, <2>2, TotalSplit
    <2>5. Total(reserved', S) = reserved'[c] + Total(reserved', S \ {c})
      <3>1. PICK r : r = reserved'
        OBVIOUS
      <3>2. \A x \in S : r[x] \in Nat
        BY <2>3, <3>1
      <3>3. Total(r, S) = r[c] + Total(r, S \ {c})
        BY <2>1, <2>2, <3>2, TotalSplit
      <3> QED
        BY <3>1, <3>3
    <2>6. Total(reserved', S \ {c}) = Total(reserved, S \ {c})
      <3>1. PICK r : r = reserved'
        OBVIOUS
      <3>2. IsFiniteSet(S \ {c}) /\ \A x \in S \ {c} : reserved[x] \in Nat /\ r[x] = reserved[x]
        BY <1>9, <2>2, <3>1, FS_RemoveElement
      <3>3. Total(r, S \ {c}) = Total(reserved, S \ {c})
        BY <3>2, TotalSame
      <3> QED
        BY <3>1, <3>3
    <2>7. Total(reserved', S) = Total(reserved, S) + 1
      BY <1>9, <2>4, <2>5, <2>6
    <2> QED
      BY <1>8, <2>7 DEF Spent, S
  <1>13. Balanced(t, a)'
    <2>1. Spent(t, a) \in Nat /\ Balanced(t, a)
      BY ChargedFinite DEF AccountInv
    <2>2. Spent(t, a)' <= approach'[t][a].used /\ Spent(t, a)' <= approach'[t][a].limit
      BY <1>4, <1>6, <1>11, <1>12, <2>1 DEF Balanced
    <2> QED
      BY <1>1, <1>8, <1>11, <2>1, <2>2 DEF Balanced
  <1>14. ASSUME NEW u \in Tasks, NEW b \in Approaches, u # t \/ b # a
         PROVE  Balanced(u, b)'
    <2>1. c \notin Charged(u, b)
      BY <1>2, <1>3, <1>14 DEF Charged
    <2>2. Spent(u, b)' = Spent(u, b)
      <3> DEFINE S == Charged(u, b)
      <3>1. PICK r : r = reserved'
        OBVIOUS
      <3>2. IsFiniteSet(S) /\ \A x \in S : reserved[x] \in Nat /\ x \in Checkpoints /\ x # c
        BY <2>1, ChargedFinite
      <3> HIDE DEF S
      <3>3. \A x \in S : reserved[x] \in Nat /\ r[x] = reserved[x]
        BY <1>9, <3>1, <3>2
      <3>4. Total(r, S) = Total(reserved, S)
        BY <3>2, <3>3, TotalSame
      <3> QED
        BY <1>8, <3>1, <3>4 DEF Spent, S
    <2>3. Balanced(u, b) /\ approach'[u][b] = approach[u][b]
      BY <1>11, <1>14 DEF AccountInv
    <2> QED
      BY <1>1, <1>8, <2>2, <2>3 DEF Balanced
  <1>15. \A u \in Tasks, b \in Approaches : Balanced(u, b)'
    BY <1>13, <1>14
  <1>16. /\ \A x \in Checkpoints : settled'[x] # Unset => cp'[x].task # None /\ cp'[x].disp = "continue"
         /\ \A x \in Checkpoints : settled'[x] = Unset => reserved'[x] = 0
    BY <1>1, <1>4, <1>7, <1>9 DEF AccountInv
  <1> QED
    BY <1>1, <1>15, <1>16 DEF AccountInv

LEMMA InitAccounts == Init => AccountInv
  <1> SUFFICES ASSUME Init PROVE AccountInv
    OBVIOUS
  <1>1. InOrder(task, cp)
    BY DEF Init, InOrder, NoTasks, NoCheckpoints
  <1>2. /\ \A c \in Checkpoints : settled[c] = Unset
        /\ \A c \in Checkpoints : reserved[c] = 0
    BY DEF Init, NoSettlements
  <1>3. ASSUME NEW t \in Tasks, NEW a \in Approaches PROVE Balanced(t, a)
    <2>1. Charged(t, a) = {}
      BY <1>2 DEF Charged
    <2>2. Spent(t, a) = 0
      BY <2>1, TotalOfNone DEF Spent
    <2>3. approach[t][a].limit = 0 /\ approach[t][a].used = 0
      BY DEF Init, NoAccounts
    <2> QED
      BY <2>1, <2>2, <2>3 DEF Balanced
  <1> QED
    BY <1>1, <1>2, <1>3 DEF AccountInv

LEMMA AccountInvHolds == Spec => [](TypeInv /\ AccountInv)
  <1>1. Init => TypeInv /\ AccountInv
    BY InitTypeInv, InitAccounts
  <1>2. TypeInv /\ AccountInv /\ [Next]_vars => (TypeInv /\ AccountInv)'
    <2> SUFFICES ASSUME TypeInv, AccountInv, [Next]_vars PROVE TypeInv' /\ AccountInv'
      OBVIOUS
    <2>1. TypeInv'
      BY NextShape, StutterTypes
    <2>2. AccountInv'
      BY BooksShape, AsideAccounts, WrittenAccounts, SettledAccounts, DebitedAccounts
    <2> QED
      BY <2>1, <2>2
  <1> QED
    BY <1>1, <1>2, PTL DEF Spec

(* The tool batches debited to the checkpoints of one approach never       *)
(* exceed the budget of the first of them that was settled: a new          *)
(* checkpoint, a crash or a resumed turn buys the approach nothing         *)
(* (settle_continuation_approach, reserve_continuation_epoch).             *)
THEOREM FirstBudgetHolds == Spec => []ApproachWithinFirstBudget
  <1>1. TypeInv /\ AccountInv => ApproachWithinFirstBudget
    <2> SUFFICES ASSUME TypeInv, AccountInv, NEW t \in Tasks, NEW a \in Approaches,
                        Charged(t, a) # {}
                 PROVE  MapThenSumSet(LAMBDA c : reserved[c], Charged(t, a)) <= cp[Min(Charged(t, a))].budget
      BY DEF ApproachWithinFirstBudget, Charged
    <2>1. /\ approach[t][a].limit = cp[Min(Charged(t, a))].budget
          /\ Spent(t, a) <= approach[t][a].limit
      BY DEF AccountInv, Balanced
    <2>2. MapThenSumSet(LAMBDA c : reserved[c], Charged(t, a)) = Spent(t, a)
      BY DEF Spent, Total
    <2> QED
      BY <2>1, <2>2
  <1> QED
    BY <1>1, AccountInvHolds, PTL
----------------------------------------------------------------------------
(* The account and the settlements of an approach *)

Settlements(t, a) == Total(settled, Charged(t, a))
Matched == \A t \in Tasks, a \in Approaches : approach[t][a].used = Settlements(t, a)

LEMMA SettledNumbers ==
    ASSUME TypeInv, NEW t, NEW a
    PROVE  IsFiniteSet(Charged(t, a)) /\ \A x \in Charged(t, a) : x \in Checkpoints /\ settled[x] \in Nat
  <1>1. IsFiniteSet(Charged(t, a))
    BY ChargedFinite
  <1>2. \A x \in Charged(t, a) : x \in Checkpoints /\ settled[x] \in Nat
    BY DEF TypeInv, TypeOK, Charged
  <1> QED
    BY <1>1, <1>2

(* A checkpoint that is not charged to an approach leaves its sum alone.   *)
LEMMA SumElsewhere ==
    ASSUME TypeInv, NEW t, NEW a, Charged(t, a)' = Charged(t, a),
           \A x \in Charged(t, a) : settled'[x] = settled[x]
    PROVE  Settlements(t, a)' = Settlements(t, a)
  <1> DEFINE S == Charged(t, a)
  <1>1. PICK r : r = settled'
    OBVIOUS
  <1>2. IsFiniteSet(S) /\ \A x \in S : settled[x] \in Nat /\ r[x] = settled[x]
    BY <1>1, SettledNumbers
  <1> HIDE DEF S
  <1>3. Total(r, S) = Total(settled, S)
    BY <1>2, TotalSame
  <1> QED
    BY <1>1, <1>3 DEF Settlements, S

(* The sum after a place has been written that was not there, or was.      *)
LEMMA SumWritten ==
    ASSUME NEW S, NEW c, IsFiniteSet(S), NEW f, NEW g,
           \A x \in S \ {c} : f[x] \in Nat /\ g[x] = f[x], g[c] \in Nat
    PROVE  /\ Total(f, S \ {c}) \in Nat
           /\ Total(g, S \cup {c}) = g[c] + Total(f, S \ {c})
  <1> DEFINE R == S \cup {c}
  <1>1. IsFiniteSet(R) /\ IsFiniteSet(S \ {c}) /\ R \ {c} = S \ {c} /\ c \in R
    BY FS_AddElement, FS_RemoveElement
  <1>2. Total(g, S \ {c}) = Total(f, S \ {c})
    BY <1>1, TotalSame
  <1>3. \A x \in R : g[x] \in Nat
    OBVIOUS
  <1> HIDE DEF R
  <1>4. Total(g, R) = g[c] + Total(g, R \ {c}) /\ Total(g, R \ {c}) \in Nat
    BY <1>1, <1>3, TotalSplit
  <1> QED
    BY <1>1, <1>2, <1>4 DEF R

LEMMA SettledMatched ==
    ASSUME TypeInv, AccountInv, Matched, BooksSettled
    PROVE  Matched'
  <1>1. PICK c \in Checkpoints, n \in Nat :
               /\ c = Latest(task) /\ cp[c].disp = "continue"
               /\ approach' = ApproachSettled(approach, settled, cp, c, n)
               /\ settled' = CheckpointSettled(settled, c, n)
               /\ UNCHANGED <<task, cp, reserved>>
    BY DEF BooksSettled
  <1>2. PICK t \in Tasks : t = cp[c].task
    <2>1. Latest(task) # None
      BY <1>1 DEF Checkpoints, None
    <2>2. Current(task) \in Tasks /\ c = task[Current(task)].latest /\ c # None
      BY <1>1, <2>1, CurrentTyped DEF TypeInv, TypeOK, Latest
    <2> QED
      BY <2>2 DEF AccountInv, InOrder
  <1>3. PICK a \in Approaches : a = cp[c].approach
    BY <1>1 DEF AccountInv, InOrder
  <1>4. /\ settled \in [Checkpoints -> Nat \cup {Unset}] /\ cp[c].budget \in Nat
        /\ approach \in [Tasks -> [Approaches -> Accounts]]
    BY DEF TypeInv, TypeOK, CheckpointRows
  <1> DEFINE A == IF approach[t][a].limit = 0 THEN [approach EXCEPT ![t][a].limit = cp[c].budget]
                  ELSE approach
  <1>5. A \in [Tasks -> [Approaches -> Accounts]]
    BY <1>4, LimitTyped
  <1>6. \A u \in Tasks, b \in Approaches : A[u][b].used = approach[u][b].used
    BY <1>4 DEF Accounts
  <1>7. /\ settled[c] # Unset => approach' = A
        /\ settled[c] = Unset => approach' = [A EXCEPT ![t][a].used = @ + n]
    <2>1. CASE settled[c] # Unset
      BY <1>1, <1>2, <1>3, <2>1 DEF ApproachSettled
    <2>2. CASE settled[c] = Unset
      BY <1>1, <1>2, <1>3, <2>2 DEF ApproachSettled
    <2> QED
      BY <2>1, <2>2
  <1> HIDE DEF A
  <1>8. CASE settled[c] # Unset
    <2>1. settled' = settled
      BY <1>1, <1>8 DEF CheckpointSettled
    <2>2. ASSUME NEW u \in Tasks, NEW b \in Approaches
          PROVE  approach'[u][b].used = Settlements(u, b)'
      <3>1. Settlements(u, b)' = Settlements(u, b)
        BY <1>1, <2>1 DEF Settlements, Charged
      <3> QED
        BY <1>6, <1>7, <1>8, <3>1 DEF Matched
    <2> QED
      BY <2>2 DEF Matched
  <1>9. CASE settled[c] = Unset
    <2>1. settled' = [settled EXCEPT ![c] = n] /\ n # Unset
      BY <1>1, <1>9 DEF CheckpointSettled, Unset
    <2>2. \A x \in Checkpoints : settled'[x] = IF x = c THEN n ELSE settled[x]
      BY <1>4, <2>1
    <2>3. /\ approach'[t][a].used = approach[t][a].used + n
          /\ \A u \in Tasks, b \in Approaches : u # t \/ b # a => approach'[u][b].used = approach[u][b].used
      BY <1>5, <1>6, <1>7, <1>9 DEF Accounts
    <2>4. approach'[t][a].used = Settlements(t, a)'
      <3> DEFINE S == Charged(t, a)
      <3>1. PICK g : g = settled'
        OBVIOUS
      <3>2. Charged(t, a)' = S \cup {c} /\ c \notin S
        BY <1>1, <1>2, <1>3, <1>9, <2>1, <2>2 DEF Charged
      <3>3. IsFiniteSet(S) /\ \A x \in S : settled[x] \in Nat /\ g[x] = settled[x]
        BY <2>2, <3>1, <3>2, SettledNumbers
      <3>4. approach[t][a].used = Total(settled, S) /\ approach[t][a].used \in Nat
        BY <1>4 DEF Matched, Settlements, Accounts
      <3> HIDE DEF S
      <3>5. S \ {c} = S /\ g[c] = n
        BY <2>2, <3>1, <3>2
      <3>6. Total(g, S \cup {c}) = n + Total(settled, S)
        <4>1. \A x \in S \ {c} : settled[x] \in Nat /\ g[x] = settled[x]
          BY <3>3
        <4>2. g[c] \in Nat
          BY <3>5
        <4>3. Total(g, S \cup {c}) = g[c] + Total(settled, S \ {c})
          BY <3>3, <4>1, <4>2, SumWritten
        <4> QED
          BY <3>5, <4>3
      <3>7. Settlements(t, a)' = Total(g, S \cup {c})
        BY <3>1, <3>2 DEF Settlements
      <3> QED
        BY <2>3, <3>4, <3>6, <3>7
    <2>5. ASSUME NEW u \in Tasks, NEW b \in Approaches, u # t \/ b # a
          PROVE  approach'[u][b].used = Settlements(u, b)'
      <3>1. Charged(u, b)' = Charged(u, b) /\ c \notin Charged(u, b)
        BY <1>1, <1>2, <1>3, <1>9, <2>2, <2>5 DEF Charged
      <3>2. Settlements(u, b)' = Settlements(u, b)
        BY <2>2, <3>1, SumElsewhere, SettledNumbers
      <3> QED
        BY <2>3, <2>5, <3>2 DEF Matched
    <2>6. \A u \in Tasks, b \in Approaches : approach'[u][b].used = Settlements(u, b)'
      BY <2>4, <2>5
    <2> QED
      BY <2>6 DEF Matched
  <1> QED
    BY <1>8, <1>9

LEMMA DebitedMatched ==
    ASSUME TypeInv, AccountInv, Matched, BooksDebited
    PROVE  Matched'
  <1>1. PICK c \in Checkpoints :
               /\ MayReserve(task, cp, approach, settled, c)
               /\ settled' = [settled EXCEPT ![c] = @ + 1]
               /\ approach' = Debited(approach, cp, c)
               /\ reserved' = [reserved EXCEPT ![c] = @ + 1]
               /\ UNCHANGED <<task, cp>>
    BY DEF BooksDebited
  <1>2. PICK t \in Tasks, a \in Approaches : t = cp[c].task /\ a = cp[c].approach
    BY <1>1 DEF MayReserve, AccountInv, InOrder, TypeInv, TypeOK, CheckpointRows
  <1>3. /\ settled \in [Checkpoints -> Nat \cup {Unset}]
        /\ approach \in [Tasks -> [Approaches -> Accounts]]
    BY DEF TypeInv, TypeOK
  <1>4. settled[c] \in Nat /\ settled[c] # Unset
    BY <1>1, <1>3 DEF MayReserve
  <1>5. \A x \in Checkpoints : settled'[x] = IF x = c THEN settled[c] + 1 ELSE settled[x]
    BY <1>1, <1>3
  <1>6. \A x \in Checkpoints : settled'[x] # Unset <=> settled[x] # Unset
    <2>1. settled[c] + 1 # Unset
      BY <1>4 DEF Unset
    <2> QED
      BY <1>4, <1>5, <2>1
  <1>7. \A u, b : Charged(u, b)' = Charged(u, b)
    BY <1>1, <1>6 DEF Charged
  <1>8. approach' = [approach EXCEPT ![t][a].used = @ + 1]
    BY <1>1, <1>2 DEF Debited
  <1>9. /\ approach'[t][a].used = approach[t][a].used + 1
        /\ \A u \in Tasks, b \in Approaches : u # t \/ b # a => approach'[u][b].used = approach[u][b].used
    BY <1>3, <1>8 DEF Accounts
  <1>10. approach'[t][a].used = Settlements(t, a)'
    <2> DEFINE S == Charged(t, a)
    <2>1. PICK g : g = settled'
      OBVIOUS
    <2>2. c \in S
      BY <1>2, <1>4 DEF Charged
    <2>3. IsFiniteSet(S) /\ \A x \in S : x \in Checkpoints /\ settled[x] \in Nat
      BY SettledNumbers
    <2>4. approach[t][a].used = Total(settled, S) /\ approach[t][a].used \in Nat
      BY <1>3 DEF Matched, Settlements, Accounts
    <2> HIDE DEF S
    <2>5. S \cup {c} = S /\ g[c] = settled[c] + 1 /\ \A x \in S \ {c} : g[x] = settled[x]
      BY <1>5, <2>1, <2>2, <2>3
    <2>6. /\ Total(settled, S \ {c}) \in Nat
          /\ Total(g, S) = g[c] + Total(settled, S \ {c})
      <3>1. \A x \in S \ {c} : settled[x] \in Nat /\ g[x] = settled[x]
        BY <2>3, <2>5
      <3>2. g[c] \in Nat
        BY <1>4, <2>5
      <3>3. /\ Total(settled, S \ {c}) \in Nat
            /\ Total(g, S \cup {c}) = g[c] + Total(settled, S \ {c})
        BY <2>3, <3>1, <3>2, SumWritten
      <3> QED
        BY <2>5, <3>3
    <2>7. Total(settled, S) = settled[c] + Total(settled, S \ {c})
      BY <2>2, <2>3, TotalSplit
    <2>8. Total(g, S) = Total(settled, S) + 1
      BY <1>4, <2>5, <2>6, <2>7
    <2>9. Settlements(t, a)' = Total(g, S)
      BY <1>7, <2>1 DEF Settlements, S
    <2> QED
      BY <1>9, <2>4, <2>8, <2>9
  <1>11. ASSUME NEW u \in Tasks, NEW b \in Approaches, u # t \/ b # a
         PROVE  approach'[u][b].used = Settlements(u, b)'
    <2>1. Charged(u, b)' = Charged(u, b) /\ c \notin Charged(u, b)
      BY <1>2, <1>7, <1>11 DEF Charged
    <2>2. Settlements(u, b)' = Settlements(u, b)
      BY <1>5, <2>1, SumElsewhere, SettledNumbers
    <2> QED
      BY <1>9, <1>11, <2>2 DEF Matched
  <1>12. \A u \in Tasks, b \in Approaches : approach'[u][b].used = Settlements(u, b)'
    BY <1>10, <1>11
  <1> QED
    BY <1>12 DEF Matched

LEMMA OthersMatched ==
    ASSUME TypeInv, AccountInv, Matched, BooksAside \/ BooksWritten
    PROVE  Matched'
  <1>1. UNCHANGED <<approach, settled>>
    BY DEF BooksAside, BooksWritten
  <1>2. \A u, b : Charged(u, b)' = Charged(u, b)
    <2>1. CASE BooksAside
      BY <2>1 DEF BooksAside, Charged
    <2>2. CASE BooksWritten
      <3>1. PICK c \in Checkpoints : cp[c].task = None /\ \A d \in Checkpoints : d # c => cp'[d] = cp[d]
        BY <2>2 DEF BooksWritten, CheckpointCreated, TypeInv, TypeOK
      <3>2. settled[c] = Unset
        BY <3>1 DEF AccountInv
      <3> QED
        BY <1>1, <3>1, <3>2 DEF Charged
    <2> QED
      BY <2>1, <2>2
  <1>3. \A u, b : Settlements(u, b)' = Settlements(u, b)
    BY <1>1, <1>2 DEF Settlements
  <1> QED
    BY <1>1, <1>3 DEF Matched

(* The account of an approach is what its checkpoints were charged:        *)
(* settlement and reservation write both tables or neither, and no later   *)
(* checkpoint, task or recovery touches either alone                       *)
(* (settle_continuation_approach, reserve_continuation_epoch).             *)
THEOREM AccountsMatch == Spec => []SpendMatches
  <1>1. Init => TypeInv /\ AccountInv /\ Matched
    <2> SUFFICES ASSUME Init PROVE Matched
      BY InitTypeInv, InitAccounts
    <2>1. ASSUME NEW t \in Tasks, NEW a \in Approaches PROVE approach[t][a].used = Settlements(t, a)
      <3>1. Charged(t, a) = {}
        BY DEF Init, NoSettlements, Charged
      <3>2. Settlements(t, a) = 0
        BY <3>1, TotalOfNone DEF Settlements
      <3> QED
        BY <3>2 DEF Init, NoAccounts
    <2> QED
      BY <2>1 DEF Matched
  <1>2. TypeInv /\ AccountInv /\ Matched /\ TypeInv' /\ AccountInv' /\ [Next]_vars => Matched'
    BY BooksShape, SettledMatched, DebitedMatched, OthersMatched
  <1>3. Matched => SpendMatches
    <2> SUFFICES ASSUME Matched, NEW t \in Tasks, NEW a \in Approaches
                 PROVE  approach[t][a].used = MapThenSumSet(LAMBDA c : settled[c], Charged(t, a))
      BY DEF SpendMatches, Charged
    <2> QED
      BY DEF Matched, Settlements, Total
  <1> QED
    BY <1>1, <1>2, <1>3, AccountInvHolds, PTL DEF Spec

=============================================================================
