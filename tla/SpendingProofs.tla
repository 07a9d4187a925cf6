--------------------------- MODULE SpendingProofs ---------------------------
(***************************************************************************)
(* Theorems about money: BudgetReservations, for any jobs, keys, limits and*)
(* any interleaving, crash, expiry and redelivery the module allows, and   *)
(* Billing, for any requests, keys, plans, events and failures.  Both need *)
(* sums over finite sets, whose lemmas come first; the two modules share   *)
(* no names.                                                               *)
(***************************************************************************)
EXTENDS BudgetReservations, Billing, FiniteSetTheorems, WellFoundedInduction, TLAPS

-----------------------------------------------------------------------------
(* Sums over finite sets *)

(* Induction over the subsets of a finite set, stated with a set so that it *)
(* can be cited: what holds of T when it holds of all smaller sets holds of S. *)
LEMMA SubsetInduction ==
  ASSUME NEW S, IsFiniteSet(S), NEW P,
         \A T \in SUBSET S : (\A U \in SUBSET T : U # T => U \in P) => T \in P
  PROVE  S \in P
<1> DEFINE Bad == {T \in SUBSET S : T \notin P}
<1> SUFFICES ASSUME Bad # {} PROVE FALSE
  OBVIOUS
<1>1. Bad \subseteq FiniteSubsetsOf(S)
  BY FS_Subset DEF FiniteSubsetsOf
<1>2. IsWellFoundedOn(StrictSubsetOrdering(S), FiniteSubsetsOf(S))
  BY FS_StrictSubsetOrderingWellFounded
<1>3. PICK T \in Bad : \A U \in Bad : ~ (<<U, T>> \in StrictSubsetOrdering(S))
  <2> HIDE DEF Bad
  <2> QED BY <1>1, <1>2, WFMin
<1>4. \A U \in SUBSET T : U # T => U \in P
  BY <1>3 DEF StrictSubsetOrdering
<1>5. QED
  BY <1>3, <1>4

(* The element that is added last, and the set without it. *)
Chosen(T) == CHOOSE x \in T : TRUE
Rest(T) == T \ {Chosen(T)}
(* g is a function the definition of a sum may choose. *)
Adds(g, f, S) ==
  g = [T \in SUBSET S |-> IF T = {} THEN 0 ELSE f[Chosen(T)] + g[Rest(T)]]

(* The sum as the library defines it. *)
LEMMA SumIsAdded ==
  ASSUME NEW f, NEW S
  PROVE  SumFunctionOnSet(f, S) = (CHOOSE g : Adds(g, f, S))[S]
  BY DEF SumFunctionOnSet, FoldFunctionOnSet, MapThenFoldSet, Adds, Chosen, Rest

(* A set is its chosen element and the rest. *)
LEMMA ChosenInSet ==
  ASSUME NEW T, T # {}
  PROVE  Chosen(T) \in T /\ Rest(T) \in SUBSET T /\ Rest(T) # T /\ T = Rest(T) \cup {Chosen(T)}
  BY DEF Chosen, Rest

(* Two such functions agree where both are defined. *)
LEMMA AddsAgree ==
  ASSUME NEW f, NEW R, NEW S, NEW g, NEW h, Adds(g, f, R), Adds(h, f, S),
         IsFiniteSet(R), R \subseteq S
  PROVE  g[R] = h[R]
<1> DEFINE P == {T \in SUBSET R : g[T] = h[T]}
<1>1. ASSUME NEW T \in SUBSET R, \A U \in SUBSET T : U # T => U \in P
      PROVE  T \in P
  <2>1. CASE T = {}
    BY <2>1 DEF Adds
  <2>2. CASE T # {}
    <3>1. Rest(T) \in P
      BY <1>1, <2>2, ChosenInSet
    <3>2. g[T] = f[Chosen(T)] + g[Rest(T)] /\ h[T] = f[Chosen(T)] + h[Rest(T)]
      BY <2>2 DEF Adds
    <3>3. QED
      BY <3>1, <3>2
  <2>3. QED
    BY <2>1, <2>2
<1>2. R \in P
  <2> HIDE DEF P
  <2> QED BY <1>1, SubsetInduction
<1>3. QED
  BY <1>2

(* The function exists. *)
LEMMA AddsExists ==
  ASSUME NEW f, NEW S, IsFiniteSet(S)
  PROVE  \E g : Adds(g, f, S)
<1> DEFINE P == {T \in SUBSET S : \E g : Adds(g, f, T)}
           Total(T) == (CHOOSE g : Adds(g, f, T))[T]
<1>1. ASSUME NEW T \in SUBSET S, \A U \in SUBSET T : U # T => U \in P
      PROVE  T \in P
  <2> DEFINE h == [U \in SUBSET T |-> IF U = {} THEN 0 ELSE
                     IF U = T THEN f[Chosen(T)] + Total(Rest(T)) ELSE Total(U)]
  <2>1. ASSUME NEW U \in SUBSET T, U # {}
        PROVE  h[U] = f[Chosen(U)] + h[Rest(U)]
    <3>1. Rest(U) \in SUBSET T /\ Rest(U) # T /\ Rest(U) \in SUBSET U /\ Rest(U) # U
      BY <2>1, ChosenInSet
    <3>2. h[Rest(U)] = Total(Rest(U))
      <4>1. CASE Rest(U) = {}
        <5>1. \E g : Adds(g, f, {})
          BY <1>1, <3>1, <4>1
        <5>2. Adds(CHOOSE g : Adds(g, f, {}), f, {})
          BY <5>1
        <5>3. Total({}) = 0
          BY <5>2 DEF Adds
        <5>4. QED
          BY <4>1, <5>3, <3>1
      <4>2. CASE Rest(U) # {}
        BY <4>2, <3>1
      <4>3. QED
        BY <4>1, <4>2
    <3>3. CASE U = T
      BY <3>2, <3>3, <2>1
    <3>4. CASE U # T
      <4> DEFINE gU == CHOOSE g : Adds(g, f, U)
                 gR == CHOOSE g : Adds(g, f, Rest(U))
      <4>1. (\E g : Adds(g, f, U)) /\ (\E g : Adds(g, f, Rest(U)))
        BY <1>1, <3>1, <3>4
      <4>2. Adds(gU, f, U) /\ Adds(gR, f, Rest(U))
        BY <4>1
      <4>3. IsFiniteSet(Rest(U))
        BY <3>1, FS_Subset
      <4>4. gR[Rest(U)] = gU[Rest(U)]
        <5> HIDE DEF gU, gR
        <5> QED BY <4>2, <4>3, <3>1, AddsAgree
      <4>5. gU[U] = f[Chosen(U)] + gU[Rest(U)]
        <5> HIDE DEF gU, gR
        <5> QED BY <4>2, <2>1 DEF Adds
      <4>6. Total(U) = gU[U] /\ Total(Rest(U)) = gR[Rest(U)]
        OBVIOUS
      <4>7. h[U] = Total(U)
        BY <2>1, <3>4
      <4>8. QED
        <5> HIDE DEF gU, gR, Total, h
        <5> QED BY <4>4, <4>5, <4>6, <4>7, <3>2
    <3>5. QED
      BY <3>3, <3>4
  <2>2. h[{}] = 0
    OBVIOUS
  <2>3. Adds(h, f, T)
    <3>1. h = [U \in SUBSET T |-> h[U]]
      OBVIOUS
    <3> HIDE DEF h
    <3> QED BY <2>1, <2>2, <3>1 DEF Adds
  <2>4. QED
    <3> HIDE DEF h
    <3> QED BY <2>3
<1>2. S \in P
  <2> HIDE DEF P
  <2> QED BY <1>1, SubsetInduction
<1>3. QED
  BY <1>2

(* The sum over no elements, and over one more. *)
LEMMA SumOfNone == ASSUME NEW f PROVE SumFunctionOnSet(f, {}) = 0
<1>1. \E g : Adds(g, f, {})
  BY AddsExists, FS_EmptySet
<1>2. Adds(CHOOSE g : Adds(g, f, {}), f, {})
  BY <1>1
<1>3. QED
  BY <1>2, SumIsAdded DEF Adds

LEMMA SumOfMore ==
  ASSUME NEW f, NEW S, IsFiniteSet(S), S # {}
  PROVE  SumFunctionOnSet(f, S) = f[Chosen(S)] + SumFunctionOnSet(f, Rest(S))
<1> DEFINE g == CHOOSE h : Adds(h, f, S)
           r == CHOOSE h : Adds(h, f, Rest(S))
<1>1. Rest(S) \subseteq S /\ IsFiniteSet(Rest(S))
  BY ChosenInSet, FS_Subset
<1>2. (\E h : Adds(h, f, S)) /\ (\E h : Adds(h, f, Rest(S)))
  BY <1>1, AddsExists
<1>3. Adds(g, f, S) /\ Adds(r, f, Rest(S))
  BY <1>2
<1>4. SumFunctionOnSet(f, S) = g[S] /\ SumFunctionOnSet(f, Rest(S)) = r[Rest(S)]
  BY SumIsAdded
<1> HIDE DEF g, r
<1>5. r[Rest(S)] = g[Rest(S)]
  BY <1>1, <1>3, AddsAgree
<1>6. g[S] = f[Chosen(S)] + g[Rest(S)]
  BY <1>3 DEF Adds
<1>7. QED
  BY <1>4, <1>5, <1>6

(* What holds of {} and of every set that has it without one element. *)
LEMMA SumInduction ==
  ASSUME NEW S, IsFiniteSet(S), NEW P, {} \in P,
         \A T \in SUBSET S : T # {} /\ (\A x \in T : T \ {x} \in P) => T \in P
  PROVE  S \in P
<1>1. ASSUME NEW T \in SUBSET S, \A U \in SUBSET T : U # T => U \in P
      PROVE  T \in P
  <2>1. \A x \in T : T \ {x} \in SUBSET T /\ T \ {x} # T
    OBVIOUS
  <2>2. QED
    BY <1>1, <2>1
<1>2. QED
  BY <1>1, SubsetInduction

(* A sum of integers is an integer. *)
LEMMA SumIsInt ==
  ASSUME NEW f, NEW S, IsFiniteSet(S), \A x \in S : f[x] \in Int
  PROVE  SumFunctionOnSet(f, S) \in Int
<1> DEFINE P == {T \in SUBSET S : SumFunctionOnSet(f, T) \in Int}
<1>1. {} \in P
  BY SumOfNone
<1>2. ASSUME NEW T \in SUBSET S, T # {}, \A x \in T : T \ {x} \in P
      PROVE  T \in P
  <2>1. Chosen(T) \in T /\ Rest(T) \in P
    BY <1>2, ChosenInSet DEF Rest
  <2>2. IsFiniteSet(T)
    BY FS_Subset
  <2>3. SumFunctionOnSet(f, T) = f[Chosen(T)] + SumFunctionOnSet(f, Rest(T))
    BY <1>2, <2>2, SumOfMore
  <2>4. QED
    BY <2>1, <2>3
<1> HIDE DEF P
<1>3. S \in P
  BY <1>1, <1>2, SumInduction
<1>4. QED
  BY <1>3 DEF P

(* Any element can be the one that is added last. *)
LEMMA SumWithout ==
  ASSUME NEW f, NEW S, IsFiniteSet(S), \A x \in S : f[x] \in Int, NEW x \in S
  PROVE  SumFunctionOnSet(f, S) = f[x] + SumFunctionOnSet(f, S \ {x})
<1> DEFINE P == {T \in SUBSET S : \A y \in T :
                   SumFunctionOnSet(f, T) = f[y] + SumFunctionOnSet(f, T \ {y})}
<1>1. {} \in P
  OBVIOUS
<1>2. ASSUME NEW T \in SUBSET S, T # {}, \A y \in T : T \ {y} \in P
      PROVE  T \in P
  <2> SUFFICES ASSUME NEW y \in T
               PROVE  SumFunctionOnSet(f, T) = f[y] + SumFunctionOnSet(f, T \ {y})
    OBVIOUS
  <2> DEFINE c == Chosen(T)
  <2>1. c \in T /\ Rest(T) = T \ {c} /\ T \ {c} \in P
    BY <1>2, ChosenInSet DEF Rest
  <2>2. SumFunctionOnSet(f, T) = f[c] + SumFunctionOnSet(f, T \ {c})
    <3>1. IsFiniteSet(T) /\ T # {}
      BY FS_Subset
    <3>2. QED
      BY <2>1, <3>1, SumOfMore
  <2>3. CASE y = c
    BY <2>2, <2>3
  <2>4. CASE y # c
    <3>1. SumFunctionOnSet(f, T \ {c}) = f[y] + SumFunctionOnSet(f, (T \ {c}) \ {y})
      BY <2>1, <2>4
    <3>2. (T \ {c}) \ {y} = (T \ {y}) \ {c}
      OBVIOUS
    <3>3. SumFunctionOnSet(f, T \ {y}) = f[c] + SumFunctionOnSet(f, (T \ {c}) \ {y})
      BY <1>2, <2>1, <2>4, <3>2
    <3>4. IsFiniteSet((T \ {c}) \ {y}) /\ \A z \in (T \ {c}) \ {y} : f[z] \in Int
      BY FS_Subset
    <3>5. SumFunctionOnSet(f, (T \ {c}) \ {y}) \in Int
      BY <3>4, SumIsInt
    <3>6. f[c] \in Int /\ f[y] \in Int
      BY <2>1
    <3> DEFINE rest == SumFunctionOnSet(f, (T \ {c}) \ {y})
    <3> HIDE DEF c, P, rest
    <3>7. SumFunctionOnSet(f, T) = f[c] + (f[y] + rest)
      BY <2>2, <3>1 DEF rest
    <3>8. SumFunctionOnSet(f, T \ {y}) = f[c] + rest /\ rest \in Int
      BY <3>3, <3>5 DEF rest
    <3>9. QED
      BY <3>6, <3>7, <3>8
  <2>5. QED
    BY <2>3, <2>4
<1> HIDE DEF P
<1>3. S \in P
  BY <1>1, <1>2, SumInduction
<1>4. QED
  BY <1>3 DEF P

(* A sum depends on the values on its set only. *)
LEMMA SumAgrees ==
  ASSUME NEW f, NEW g, NEW S, IsFiniteSet(S), \A x \in S : f[x] = g[x]
  PROVE  SumFunctionOnSet(f, S) = SumFunctionOnSet(g, S)
<1> DEFINE P == {T \in SUBSET S : SumFunctionOnSet(f, T) = SumFunctionOnSet(g, T)}
<1>1. {} \in P
  BY SumOfNone
<1>2. ASSUME NEW T \in SUBSET S, T # {}, \A x \in T : T \ {x} \in P
      PROVE  T \in P
  <2>1. Chosen(T) \in T /\ Rest(T) \in P
    BY <1>2, ChosenInSet DEF Rest
  <2>2. IsFiniteSet(T)
    BY FS_Subset
  <2>3. /\ SumFunctionOnSet(f, T) = f[Chosen(T)] + SumFunctionOnSet(f, Rest(T))
        /\ SumFunctionOnSet(g, T) = g[Chosen(T)] + SumFunctionOnSet(g, Rest(T))
    BY <1>2, <2>2, SumOfMore
  <2>4. QED
    BY <2>1, <2>3
<1> HIDE DEF P
<1>3. S \in P
  BY <1>1, <1>2, SumInduction
<1>4. QED
  BY <1>3 DEF P

(* A sum of sums is the sum of the sums. *)
LEMMA SumOfSums ==
  ASSUME NEW f, NEW g, NEW h, NEW S, IsFiniteSet(S),
         \A x \in S : f[x] \in Int /\ g[x] \in Int /\ h[x] = f[x] + g[x]
  PROVE  SumFunctionOnSet(h, S) = SumFunctionOnSet(f, S) + SumFunctionOnSet(g, S)
<1> DEFINE P == {T \in SUBSET S : SumFunctionOnSet(h, T)
                                    = SumFunctionOnSet(f, T) + SumFunctionOnSet(g, T)}
<1>1. {} \in P
  BY SumOfNone
<1>2. ASSUME NEW T \in SUBSET S, T # {}, \A x \in T : T \ {x} \in P
      PROVE  T \in P
  <2>1. Chosen(T) \in T /\ Rest(T) \in P
    BY <1>2, ChosenInSet DEF Rest
  <2>2. IsFiniteSet(T) /\ IsFiniteSet(Rest(T)) /\ Rest(T) \subseteq S
    BY FS_Subset DEF Rest
  <2>3. /\ SumFunctionOnSet(f, T) = f[Chosen(T)] + SumFunctionOnSet(f, Rest(T))
        /\ SumFunctionOnSet(g, T) = g[Chosen(T)] + SumFunctionOnSet(g, Rest(T))
        /\ SumFunctionOnSet(h, T) = h[Chosen(T)] + SumFunctionOnSet(h, Rest(T))
    BY <1>2, <2>2, SumOfMore
  <2>4. SumFunctionOnSet(f, Rest(T)) \in Int /\ SumFunctionOnSet(g, Rest(T)) \in Int
    BY <2>2, SumIsInt
  <2>5. SumFunctionOnSet(h, Rest(T)) = SumFunctionOnSet(f, Rest(T)) + SumFunctionOnSet(g, Rest(T))
    BY <2>1
  <2>6. Chosen(T) \in S
    BY <2>1
  <2> HIDE DEF P
  <2>7. SumFunctionOnSet(h, T) = SumFunctionOnSet(f, T) + SumFunctionOnSet(g, T)
    BY <2>3, <2>4, <2>5, <2>6
  <2>8. QED
    BY <2>7 DEF P
<1> HIDE DEF P
<1>3. S \in P
  BY <1>1, <1>2, SumInduction
<1>4. QED
  BY <1>3 DEF P

(* One value changes by d, and so does the sum. *)
LEMMA SumChanges ==
  ASSUME NEW f, NEW g, NEW S, IsFiniteSet(S), \A x \in S : f[x] \in Int /\ g[x] \in Int,
         NEW s \in S, NEW d \in Int, g[s] = f[s] + d, \A x \in S \ {s} : g[x] = f[x]
  PROVE  SumFunctionOnSet(g, S) = SumFunctionOnSet(f, S) + d
<1>1. /\ SumFunctionOnSet(f, S) = f[s] + SumFunctionOnSet(f, S \ {s})
      /\ SumFunctionOnSet(g, S) = g[s] + SumFunctionOnSet(g, S \ {s})
  BY SumWithout
<1>2. IsFiniteSet(S \ {s})
  BY FS_Subset
<1>3. /\ SumFunctionOnSet(g, S \ {s}) = SumFunctionOnSet(f, S \ {s})
      /\ SumFunctionOnSet(f, S \ {s}) \in Int
  BY <1>2, SumAgrees, SumIsInt
<1>4. QED
  BY <1>1, <1>3

(* Of naturals, a part sums to a natural that is no more than the whole. *)
LEMMA SumOfPart ==
  ASSUME NEW f, NEW S, IsFiniteSet(S), \A x \in S : f[x] \in Nat, NEW R \in SUBSET S
  PROVE  /\ SumFunctionOnSet(f, R) \in Nat /\ SumFunctionOnSet(f, S) \in Nat
         /\ SumFunctionOnSet(f, R) <= SumFunctionOnSet(f, S)
<1> DEFINE P == {T \in SUBSET S : /\ SumFunctionOnSet(f, T) \in Nat
                                  /\ \A U \in SUBSET T : /\ SumFunctionOnSet(f, U) \in Nat
                                       /\ SumFunctionOnSet(f, U) <= SumFunctionOnSet(f, T)}
<1>1. {} \in P
  BY SumOfNone
<1>2. ASSUME NEW T \in SUBSET S, T # {}, \A x \in T : T \ {x} \in P
      PROVE  T \in P
  <2> DEFINE c == Chosen(T)
  <2>1. c \in T /\ Rest(T) = T \ {c} /\ Rest(T) \in P /\ f[c] \in Nat
    BY <1>2, ChosenInSet DEF Rest
  <2>2. IsFiniteSet(T)
    BY FS_Subset
  <2>3. SumFunctionOnSet(f, T) = f[c] + SumFunctionOnSet(f, Rest(T))
    BY <1>2, <2>2, SumOfMore
  <2>4. SumFunctionOnSet(f, Rest(T)) \in Nat
    BY <2>1
  <2>5. SumFunctionOnSet(f, T) \in Nat
    BY <2>1, <2>3, <2>4
  <2>6. ASSUME NEW U \in SUBSET T
        PROVE  /\ SumFunctionOnSet(f, U) \in Nat
               /\ SumFunctionOnSet(f, U) <= SumFunctionOnSet(f, T)
    <3>1. CASE c \in U
      <4>1. U \ {c} \in SUBSET Rest(T) /\ IsFiniteSet(U) /\ \A x \in U : f[x] \in Int
        BY <2>1, <2>2, FS_Subset
      <4>2. /\ SumFunctionOnSet(f, U \ {c}) \in Nat
            /\ SumFunctionOnSet(f, U \ {c}) <= SumFunctionOnSet(f, Rest(T))
        BY <2>1, <4>1
      <4>3. SumFunctionOnSet(f, U) = f[c] + SumFunctionOnSet(f, U \ {c})
        BY <3>1, <4>1, SumWithout
      <4> HIDE DEF P, c
      <4>4. QED
        BY <2>1, <2>3, <2>4, <4>2, <4>3
    <3>2. CASE c \notin U
      <4>1. U \in SUBSET Rest(T)
        BY <2>1, <3>2
      <4>2. /\ SumFunctionOnSet(f, U) \in Nat
            /\ SumFunctionOnSet(f, U) <= SumFunctionOnSet(f, Rest(T))
        BY <2>1, <4>1
      <4> HIDE DEF P, c
      <4>3. QED
        BY <2>1, <2>3, <2>4, <4>2
    <3>3. QED
      BY <3>1, <3>2
  <2>7. QED
    BY <2>5, <2>6
<1> HIDE DEF P
<1>3. S \in P
  BY <1>1, <1>2, SumInduction
<1>4. QED
  BY <1>3 DEF P

(* A part whose values are the same, with one more element of its own. *)
LEMMA SumOfPartAndOne ==
  ASSUME NEW f, NEW g, NEW S, IsFiniteSet(S), \A x \in S : f[x] \in Nat,
         NEW R, NEW s, R \ {s} \subseteq S, \A x \in R \ {s} : g[x] = f[x], g[s] \in Nat
  PROVE  /\ SumFunctionOnSet(g, R) \in Nat
         /\ SumFunctionOnSet(g, R) <= SumFunctionOnSet(f, S) + g[s]
<1>1. IsFiniteSet(R \ {s}) /\ R \ {s} \in SUBSET S
  BY FS_Subset
<1>2. SumFunctionOnSet(g, R \ {s}) = SumFunctionOnSet(f, R \ {s})
  BY <1>1, SumAgrees
<1>3. /\ SumFunctionOnSet(f, R \ {s}) \in Nat /\ SumFunctionOnSet(f, S) \in Nat
      /\ SumFunctionOnSet(f, R \ {s}) <= SumFunctionOnSet(f, S)
  BY <1>1, SumOfPart
<1>4. CASE s \in R
  <2>1. IsFiniteSet(R) /\ \A x \in R : g[x] \in Int
    <3>1. IsFiniteSet(S \cup {s})
      BY FS_AddElement
    <3>2. R \in SUBSET (S \cup {s})
      OBVIOUS
    <3>3. IsFiniteSet(R)
      BY <3>1, <3>2, FS_Subset
    <3>4. \A x \in R : x = s \/ x \in R \ {s}
      OBVIOUS
    <3>5. QED
      BY <3>3, <3>4
  <2>2. SumFunctionOnSet(g, R) = g[s] + SumFunctionOnSet(g, R \ {s})
    BY <1>4, <2>1, SumWithout
  <2>3. QED
    BY <1>2, <1>3, <2>2
<1>5. CASE s \notin R
  <2>1. R \ {s} = R
    BY <1>5
  <2>2. SumFunctionOnSet(g, R) = SumFunctionOnSet(f, R \ {s})
    BY <1>2, <2>1, Zenon
  <2>3. QED
    BY <1>3, <2>2
<1>6. QED
  BY <1>4, <1>5

(* Nothing adds up to nothing. *)
LEMMA SumOfZeros ==
  ASSUME NEW f, NEW S, IsFiniteSet(S), \A x \in S : f[x] = 0
  PROVE  SumFunctionOnSet(f, S) = 0
<1> DEFINE P == {T \in SUBSET S : SumFunctionOnSet(f, T) = 0}
<1>1. {} \in P
  BY SumOfNone
<1>2. ASSUME NEW T \in SUBSET S, T # {}, \A x \in T : T \ {x} \in P
      PROVE  T \in P
  <2>1. Chosen(T) \in T /\ Rest(T) \in P /\ IsFiniteSet(T)
    BY <1>2, ChosenInSet, FS_Subset DEF Rest
  <2>2. SumFunctionOnSet(f, T) = f[Chosen(T)] + SumFunctionOnSet(f, Rest(T))
    BY <1>2, <2>1, SumOfMore
  <2>3. QED
    BY <2>1, <2>2
<1> HIDE DEF P
<1>3. S \in P
  BY <1>1, <1>2, SumInduction
<1>4. QED
  BY <1>3 DEF P

(* What is nothing outside a part adds up to the sum of the part. *)
LEMMA SumOfRest ==
  ASSUME NEW f, NEW S, IsFiniteSet(S), \A x \in S : f[x] \in Nat,
         NEW R \in SUBSET S, \A x \in S \ R : f[x] = 0
  PROVE  SumFunctionOnSet(f, S) = SumFunctionOnSet(f, R)
<1> DEFINE P == {T \in SUBSET (S \ R) :
                   SumFunctionOnSet(f, R \cup T) = SumFunctionOnSet(f, R)}
<1>1. {} \in P
  <2>1. R \cup {} = R
    OBVIOUS
  <2>2. QED
    BY <2>1
<1>2. ASSUME NEW T \in SUBSET (S \ R), T # {}, \A x \in T : T \ {x} \in P
      PROVE  T \in P
  <2>1. PICK x \in T : TRUE
    BY <1>2
  <2>2. (R \cup T) \ {x} = R \cup (T \ {x})
    OBVIOUS
  <2>3. IsFiniteSet(R \cup T) /\ \A y \in R \cup T : f[y] \in Int
    BY FS_Subset
  <2>4. SumFunctionOnSet(f, R \cup T) = f[x] + SumFunctionOnSet(f, R \cup (T \ {x}))
    <3>1. SumFunctionOnSet(f, R \cup T) = f[x] + SumFunctionOnSet(f, (R \cup T) \ {x})
      BY <2>1, <2>3, SumWithout
    <3>2. QED
      BY <2>2, <3>1, Zenon
  <2>5. SumFunctionOnSet(f, R \cup (T \ {x})) = SumFunctionOnSet(f, R)
    BY <1>2, <2>1
  <2>6. SumFunctionOnSet(f, R) \in Nat /\ f[x] = 0
    BY <2>1, SumOfPart
  <2>7. QED
    BY <2>4, <2>5, <2>6
<1>3. S \ R \in P
  <2>1. IsFiniteSet(S \ R)
    BY FS_Subset
  <2> HIDE DEF P
  <2>2. QED
    BY <1>1, <1>2, <2>1, SumInduction
<1>4. R \cup (S \ R) = S
  OBVIOUS
<1>5. QED
  BY <1>3, <1>4

-----------------------------------------------------------------------------
(* BudgetReservations *)

(* The placeholder of a key that has no row is a well-formed row. *)
LEMMA NoHoldType == NoHold \in Holds
  BY ConstantsAssumption DEF NoHold, Holds, Statuses

(* settle() writes one column of one row at most. *)
LEMMA SettleType ==
  ASSUME TypeOK, NEW j \in Jobs, NEW status \in Statuses, Settle(j, status)
  PROVE  hold' \in [Keys -> Holds]
<1>1. KeyOf[j] \in Keys
  BY ConstantsAssumption
<1>2. CASE hold' = hold
  BY <1>2 DEF TypeOK
<1>3. CASE hold' = [hold EXCEPT ![KeyOf[j]].status = status]
  <2>1. hold[KeyOf[j]] \in Holds
    BY <1>1 DEF TypeOK
  <2>2. [hold[KeyOf[j]] EXCEPT !.status = status] \in Holds
    BY <2>1 DEF Holds
  <2>3. hold' = [hold EXCEPT ![KeyOf[j]] = [hold[KeyOf[j]] EXCEPT !.status = status]]
    BY <1>3
  <2>4. QED
    BY <2>2, <2>3 DEF TypeOK
<1>4. QED
  BY <1>2, <1>3 DEF Settle

(* A delivery is counted before anything else happens to the job. *)
Delivered == \A j \in Jobs : pc[j] # "idle" => attempts[j] > 0

(* The advisory lock: one transaction of the organization at a time. *)
OneTransaction ==
  \A i, j \in Jobs : pc[i] \in InTransaction /\ pc[j] \in InTransaction => i = j

(* No transaction reads the future. *)
NowIsPast == \A j \in Jobs : tx[j].now <= clock

(* What is live when a transaction decides, it has read: holds are created   *)
(* under the lock only, and the others can only end.                         *)
LiveHoldsAreSeen ==
  \A j \in Jobs, k \in Keys : pc[j] = "holdsRead" /\ Live(k) => k \in tx[j].held

(* A snapshot with another time is a snapshot. *)
LEMMA SnapshotAtCall ==
  ASSUME NEW t \in Snapshots, NEW n \in Nat
  PROVE  [t EXCEPT !.now = n] \in Snapshots
  BY DEF Snapshots

(* A delivery that was made is one of the bounded deliveries. *)
LEMMA CountedAttempt ==
  ASSUME NEW n \in 0 .. MaxAttempts, n > 0
  PROVE  n \in 1 .. MaxAttempts
  OBVIOUS

(* A delivery within the bound keeps the count within it. *)
LEMMA OneMoreAttempt ==
  ASSUME NEW n \in 0 .. MaxAttempts, n < MaxAttempts
  PROVE  n + 1 \in 0 .. MaxAttempts /\ n + 1 > 0
  BY ConstantsAssumption

(* Every reachable state is well typed: no step of reserve(), of an executor,*)
(* of the sweep or of a crash writes a row or a snapshot of another shape.   *)
THEOREM TypeCorrect == Spec => [](TypeOK /\ Delivered)
<1> USE ConstantsAssumption DEF Statuses, Holds, Snapshots, Stages, InTransaction, InFlight
<1>1. Init => TypeOK
  BY NoHoldType DEF Init, TypeOK, NoTransaction, UsageEvents
<1>2. TypeOK /\ Delivered /\ [Next]_vars => TypeOK'
  <2> SUFFICES ASSUME TypeOK, Delivered, [Next]_vars PROVE TypeOK'
    OBVIOUS
  <2> USE DEF TypeOK
  <2>1. ASSUME NEW j \in Jobs, Call(j) PROVE TypeOK'
    <3> HIDE DEF Snapshots, Holds
    <3>1. attempts[j] \in 0 .. MaxAttempts /\ attempts[j] < MaxAttempts
      BY <2>1 DEF Call, CanCall
    <3>2. attempts[j] + 1 \in 0 .. MaxAttempts
      BY <3>1, OneMoreAttempt
    <3>3. attempts' \in [Jobs -> 0 .. MaxAttempts]
      BY <2>1, <3>2 DEF Call
    <3>4. tx' = [tx EXCEPT ![j] = [tx[j] EXCEPT !.now = clock]]
      BY <2>1 DEF Call
    <3>5. [tx[j] EXCEPT !.now = clock] \in Snapshots
      BY SnapshotAtCall
    <3>6. tx' \in [Jobs -> Snapshots]
      BY <3>4, <3>5
    <3>7. pc' \in [Jobs -> Stages] /\ UNCHANGED <<hold, usage, clock>>
      BY <2>1 DEF Call
    <3>8. QED
      BY <3>3, <3>6, <3>7
  <2>2. ASSUME NEW j \in Jobs, AcquireLock(j) PROVE TypeOK'
    BY <2>2 DEF AcquireLock
  <2>3. ASSUME NEW j \in Jobs, ReadSpend(j) PROVE TypeOK'
    BY <2>3 DEF ReadSpend
  <2>4. ASSUME NEW j \in Jobs, ReadHolds(j) PROVE TypeOK'
    BY <2>4 DEF ReadHolds
  <2>5. ASSUME NEW j \in Jobs, Refuse(j) PROVE TypeOK'
    BY <2>5 DEF Refuse, NoTransaction
  <2>6. ASSUME NEW j \in Jobs, Allow(j) PROVE TypeOK'
    BY <2>6 DEF Allow, NoTransaction, ExpiryOf
  <2>7. ASSUME NEW j \in Jobs, CallProvider(j) PROVE TypeOK'
    BY <2>7 DEF CallProvider
  <2>8. ASSUME NEW j \in Jobs, FailBeforeSpend(j) PROVE TypeOK'
    BY <2>8, SettleType DEF FailBeforeSpend
  <2>9. ASSUME NEW j \in Jobs, ProviderThrows(j) PROVE TypeOK'
    BY <2>9, SettleType DEF ProviderThrows
  <2>10. ASSUME NEW j \in Jobs, RecordUsage(j) PROVE TypeOK'
    <3>1. attempts[j] \in 1 .. MaxAttempts
      <4>1. attempts[j] > 0
        BY <2>10 DEF RecordUsage, Delivered
      <4>2. attempts[j] \in 0 .. MaxAttempts
        OBVIOUS
      <4>3. QED
        BY <4>1, <4>2, CountedAttempt
    <3>2. pc' \in [Jobs -> Stages] /\ UNCHANGED <<tx, hold, attempts, clock>>
      BY <2>10 DEF RecordUsage
    <3>3. usage' = usage \/ usage' = usage \cup {<<j, attempts[j]>>}
      BY <2>10 DEF RecordUsage
    <3>4. <<j, attempts[j]>> \in UsageEvents
      BY <3>1 DEF UsageEvents
    <3>5. QED
      <4> HIDE DEF Snapshots, Stages, Holds
      <4>1. usage' \subseteq UsageEvents
        BY <3>3, <3>4
      <4>2. QED
        BY <3>2, <4>1
  <2>11. ASSUME NEW j \in Jobs, Reconcile(j) PROVE TypeOK'
    BY <2>11, SettleType DEF Reconcile
  <2>12. ASSUME NEW j \in Jobs, Crash(j) PROVE TypeOK'
    <3>1. attempts[j] < MaxAttempts => attempts[j] + 1 \in 0 .. MaxAttempts
      BY OneMoreAttempt
    <3>2. pc' \in [Jobs -> Stages]
      BY <2>12 DEF Crash
    <3>3. NoTransaction \in Snapshots
      BY DEF NoTransaction, UsageEvents
    <3>4. tx' \in [Jobs -> Snapshots]
      BY <2>12, <3>3 DEF Crash
    <3>5. attempts' \in [Jobs -> 0 .. MaxAttempts]
      BY <2>12, <3>1 DEF Crash
    <3>6. QED
      BY <2>12, <3>2, <3>4, <3>5 DEF Crash
  <2>13. CASE Tick
    BY <2>13 DEF Tick
  <2>14. CASE Sweep
    BY <2>14 DEF Sweep
  <2>15. CASE Quiescent \/ UNCHANGED vars
    BY <2>15 DEF Quiescent, vars
  <2>16. QED
    BY <2>1, <2>2, <2>3, <2>4, <2>5, <2>6, <2>7, <2>8, <2>9, <2>10, <2>11, <2>12,
       <2>13, <2>14, <2>15 DEF Next
<1>3. Init => Delivered
  BY DEF Init, Delivered
<1>4. TypeOK /\ Delivered /\ [Next]_vars => Delivered'
  <2> SUFFICES ASSUME TypeOK, Delivered, [Next]_vars, NEW i \in Jobs, pc'[i] # "idle"
               PROVE  attempts'[i] > 0
    BY DEF Delivered
  <2>1. attempts[i] \in 0 .. MaxAttempts /\ (pc[i] # "idle" => attempts[i] > 0)
    BY DEF TypeOK, Delivered
  <2>2. ASSUME NEW j \in Jobs, Call(j) PROVE attempts'[i] > 0
    BY <2>1, <2>2 DEF Call, TypeOK
  <2>3. ASSUME NEW j \in Jobs, Crash(j) PROVE attempts'[i] > 0
    BY <2>1, <2>3 DEF Crash, TypeOK
  <2>4. ASSUME NEW j \in Jobs,
               \/ AcquireLock(j) \/ ReadSpend(j) \/ ReadHolds(j) \/ Refuse(j) \/ Allow(j)
               \/ CallProvider(j) \/ FailBeforeSpend(j) \/ ProviderThrows(j)
               \/ RecordUsage(j) \/ Reconcile(j)
        PROVE  attempts'[i] > 0
    BY <2>1, <2>4 DEF TypeOK, AcquireLock, ReadSpend, ReadHolds, Refuse, Allow, CallProvider,
       FailBeforeSpend, ProviderThrows, RecordUsage, Reconcile
  <2>5. CASE Tick \/ Sweep \/ Quiescent \/ UNCHANGED vars
    BY <2>1, <2>5 DEF Tick, Sweep, Quiescent, vars
  <2>6. QED
    BY <2>2, <2>3, <2>4, <2>5 DEF Next
<1>5. QED
  BY <1>1, <1>2, <1>3, <1>4, PTL DEF Spec

-----------------------------------------------------------------------------
(* The live holds of a workspace *)

(* The strictest of the configured limits is a number. *)
LEMMA MaxRequestsType ==
  ASSUME NEW w \in Workspaces, Configured(MaxRequests(w))
  PROVE  MaxRequests(w) \in Nat
  BY ConstantsAssumption DEF Configured, MaxRequests, Limit, NoRow, NoMax

(* The ledger is finite, so its rows can be counted. *)
LEMMA FinitelyManyEvents == ASSUME TypeOK PROVE IsFiniteSet(usage)
<1>1. IsFiniteSet(1 .. MaxAttempts)
  BY ConstantsAssumption, FS_Interval
<1>2. IsFiniteSet(UsageEvents)
  BY <1>1, FinitenessAssumption, FS_Product DEF UsageEvents
<1>3. QED
  BY <1>2, FS_Subset DEF TypeOK

(* The number of recorded requests is a number. *)
LEMMA UsedRequestsType ==
  ASSUME TypeOK, NEW w PROVE UsedRequests(w) \in Nat
<1>1. IsFiniteSet({e \in usage : CountedFor(w, EventWorkspace(e))})
  BY FinitelyManyEvents, FS_Subset
<1>2. QED
  BY <1>1, FS_CardinalityType DEF UsedRequests

LiveIn(w) == {k \in Keys : Live(k) /\ HoldWorkspace(k) = w}

(* A step that creates no hold and revives none leaves every bound in place. *)
LEMMA FewerLiveHolds ==
  ASSUME TypeOK, HeldRequestsWithinLimit,
         \A k \in Keys : Live(k)' => Live(k) /\ hold'[k].job = hold[k].job
  PROVE  HeldRequestsWithinLimit'
<1> SUFFICES ASSUME NEW w \in Workspaces, Configured(MaxRequests(w))
             PROVE  Cardinality(LiveIn(w)') <= MaxRequests(w)
  BY DEF HeldRequestsWithinLimit, LiveIn, Configured, MaxRequests
<1>1. LiveIn(w)' \subseteq LiveIn(w)
  BY DEF LiveIn, HoldWorkspace
<1>2. IsFiniteSet(LiveIn(w))
  BY FinitenessAssumption, FS_Subset DEF LiveIn
<1>3. /\ IsFiniteSet(LiveIn(w)') /\ Cardinality(LiveIn(w)') <= Cardinality(LiveIn(w))
  BY <1>1, <1>2, FS_Subset
<1>4. Cardinality(LiveIn(w)) <= MaxRequests(w)
  BY DEF HeldRequestsWithinLimit, LiveIn
<1>5. QED
  BY <1>2, <1>3, <1>4, MaxRequestsType, FS_CardinalityType

(* A row settled, swept or left to expire was live before, or never will be. *)
LEMMA HoldsOnlyEnd ==
  ASSUME TypeOK, [Next]_vars, ~ \E j \in Jobs : Allow(j)
  PROVE  \A k \in Keys : Live(k)' => Live(k) /\ hold'[k].job = hold[k].job
<1> SUFFICES ASSUME NEW k \in Keys, Live(k)' PROVE Live(k) /\ hold'[k].job = hold[k].job
  OBVIOUS
<1> USE DEF Live, LiveAt
<1>1. ASSUME NEW j \in Jobs, NEW status \in {"RECONCILED", "RELEASED"},
             Settle(j, status), clock' = clock
      PROVE  Live(k) /\ hold'[k].job = hold[k].job
  <2>1. hold \in [Keys -> Holds] /\ KeyOf[j] \in Keys
    BY ConstantsAssumption DEF TypeOK
  <2>2. CASE hold' = hold
    BY <1>1, <2>2
  <2>3. CASE hold' = [hold EXCEPT ![KeyOf[j]].status = status]
    <3>1. CASE k = KeyOf[j]
      BY <1>1, <2>1, <2>3, <3>1 DEF Holds
    <3>2. CASE k # KeyOf[j]
      BY <1>1, <2>1, <2>3, <3>2
    <3>3. QED
      BY <3>1, <3>2
  <2>4. QED
    BY <1>1, <2>2, <2>3 DEF Settle
<1>2. ASSUME NEW j \in Jobs, FailBeforeSpend(j) \/ ProviderThrows(j) \/ Reconcile(j)
      PROVE  Live(k) /\ hold'[k].job = hold[k].job
  BY <1>1, <1>2 DEF FailBeforeSpend, ProviderThrows, Reconcile
<1>3. CASE Sweep
  BY <1>3 DEF Sweep, Expired, TypeOK, Holds
<1>4. CASE Tick
  BY <1>4 DEF Tick, TypeOK, Holds
<1>5. ASSUME NEW j \in Jobs,
             \/ Call(j) \/ AcquireLock(j) \/ ReadSpend(j) \/ ReadHolds(j) \/ Refuse(j)
             \/ CallProvider(j) \/ RecordUsage(j) \/ Crash(j)
      PROVE  Live(k) /\ hold'[k].job = hold[k].job
  BY <1>5 DEF Call, AcquireLock, ReadSpend, ReadHolds, Refuse, CallProvider, RecordUsage, Crash
<1>6. CASE Quiescent \/ UNCHANGED vars
  BY <1>6 DEF Quiescent, vars
<1>7. QED
  BY <1>2, <1>3, <1>4, <1>5, <1>6 DEF Next

(* The decision made room for the hold it writes. *)
LEMMA AllowKeepsBound ==
  ASSUME TypeOK, LiveHoldsAreSeen, HeldRequestsWithinLimit, NEW j \in Jobs, Allow(j)
  PROVE  HeldRequestsWithinLimit'
<1> DEFINE key == KeyOf[j]
           ws == WorkspaceOf[j]
           Counted == {k \in tx[j].held : CountedFor(ws, HoldWorkspace(k))}
<1>1. key \in Keys /\ ws \in Workspaces /\ clock' = clock
  BY ConstantsAssumption DEF Allow
<1>2. CASE hold' = hold
  BY <1>1, <1>2, FewerLiveHolds DEF Live, LiveAt
<1>3. CASE hold' = [hold EXCEPT ![key] =
                      [status |-> "ACTIVE", job |-> j, expiresAt |-> ExpiryOf(tx[j].now)]]
  <2> SUFFICES ASSUME NEW w \in Workspaces, Configured(MaxRequests(w))
               PROVE  Cardinality(LiveIn(w)') <= MaxRequests(w)
    BY DEF HeldRequestsWithinLimit, LiveIn, Configured, MaxRequests
  <2>1. \A k \in Keys : k # key => (Live(k)' <=> Live(k)) /\ hold'[k] = hold[k]
    BY <1>1, <1>3 DEF Live, LiveAt, TypeOK
  <2>2. HoldWorkspace(key)' = ws
    BY <1>1, <1>3 DEF HoldWorkspace, TypeOK
  <2>3. IsFiniteSet(LiveIn(w)) /\ IsFiniteSet(LiveIn(w)')
    BY FinitenessAssumption, FS_Subset DEF LiveIn
  <2>4. MaxRequests(w) \in Nat
    BY MaxRequestsType
  <2>5. CASE w # ws
    <3>1. LiveIn(w)' \subseteq LiveIn(w)
      BY <2>1, <2>2, <2>5 DEF LiveIn, HoldWorkspace
    <3>2. Cardinality(LiveIn(w)') <= Cardinality(LiveIn(w))
      BY <3>1, <2>3, FS_Subset
    <3>3. Cardinality(LiveIn(w)) <= MaxRequests(w)
      BY DEF HeldRequestsWithinLimit, LiveIn
    <3>4. QED
      BY <3>2, <3>3, <2>3, <2>4, FS_CardinalityType
  <2>6. CASE w = ws
    <3>1. pc[j] = "holdsRead" /\ ~Blocked(j)
      BY DEF Allow
    <3>2. LiveIn(w)' \subseteq Counted \cup {key}
      BY <2>1, <2>6, <3>1 DEF LiveIn, HoldWorkspace, LiveHoldsAreSeen, CountedFor
    <3>3. IsFiniteSet(Counted)
      <4>1. tx[j].held \subseteq Keys
        BY DEF TypeOK, Snapshots
      <4>2. QED
        BY <4>1, FinitenessAssumption, FS_Subset
    <3>4. ~(UsedRequests(ws) + Cardinality(Counted) + 1 > MaxRequests(ws))
      BY <2>6, <3>1 DEF Blocked, OperationLimitReached, HeldRequests
    <3>5. UsedRequests(ws) \in Nat /\ Cardinality(Counted) \in Nat
      BY <3>3, UsedRequestsType, FS_CardinalityType
    <3>6. IsFiniteSet(Counted \cup {key}) /\ Cardinality(Counted \cup {key}) <= Cardinality(Counted) + 1
      <4> HIDE DEF Counted, key
      <4>1. IsFiniteSet(Counted \cup {key})
        BY <3>3, FS_AddElement
      <4>2. Cardinality(Counted \cup {key})
              = IF key \in Counted THEN Cardinality(Counted) ELSE Cardinality(Counted) + 1
        BY <3>3, FS_AddElement
      <4>3. QED
        BY <3>5, <4>1, <4>2
    <3>7. Cardinality(LiveIn(w)') <= Cardinality(Counted \cup {key})
      BY <3>2, <3>6, FS_Subset
    <3>8. Cardinality(LiveIn(w)') \in Nat /\ Cardinality(Counted \cup {key}) \in Nat
      BY <2>3, <3>6, FS_CardinalityType
    <3> HIDE DEF Counted
    <3>9. QED
      BY <2>4, <2>6, <3>4, <3>5, <3>6, <3>7, <3>8
  <2>7. QED
    BY <2>5, <2>6
<1>4. QED
  BY <1>2, <1>3 DEF Allow

(* The lock stays exclusive: no step lets a second reserve() in. *)
LEMMA OneTransactionStep ==
  ASSUME TypeOK, OneTransaction, [Next]_vars
  PROVE  OneTransaction'
<1> USE DEF OneTransaction, TypeOK, InTransaction
<1>1. ASSUME NEW j \in Jobs, AcquireLock(j) PROVE OneTransaction'
  BY <1>1 DEF AcquireLock, LockFree
<1>2. ASSUME NEW j \in Jobs, ReadSpend(j) \/ ReadHolds(j) PROVE OneTransaction'
  BY <1>2 DEF ReadSpend, ReadHolds
<1>3. ASSUME NEW j \in Jobs,
             \/ Call(j) \/ Refuse(j) \/ Allow(j) \/ CallProvider(j) \/ FailBeforeSpend(j)
             \/ ProviderThrows(j) \/ RecordUsage(j) \/ Reconcile(j) \/ Crash(j)
      PROVE  OneTransaction'
  BY <1>3 DEF Call, Refuse, Allow, CallProvider, FailBeforeSpend, ProviderThrows, RecordUsage,
     Reconcile, Crash
<1>4. CASE Tick \/ Sweep \/ Quiescent \/ UNCHANGED vars
  BY <1>4 DEF Tick, Sweep, Quiescent, vars
<1>5. QED
  BY <1>1, <1>2, <1>3, <1>4 DEF Next

(* Every reserve() works with a time that has passed. *)
LEMMA NowIsPastStep ==
  ASSUME TypeOK, NowIsPast, [Next]_vars
  PROVE  NowIsPast'
<1> SUFFICES ASSUME NEW i \in Jobs PROVE tx'[i].now <= clock'
  BY DEF NowIsPast
<1>1. tx[i] \in Snapshots /\ tx[i].now \in Nat /\ clock \in Nat /\ tx[i].now <= clock
  BY DEF TypeOK, Snapshots, NowIsPast
<1>2. ASSUME NEW j \in Jobs, Call(j) \/ ReadSpend(j) \/ ReadHolds(j) PROVE tx'[i].now <= clock'
  BY <1>1, <1>2 DEF Call, ReadSpend, ReadHolds, TypeOK, Snapshots
<1>3. ASSUME NEW j \in Jobs, Refuse(j) \/ Allow(j) \/ Crash(j) PROVE tx'[i].now <= clock'
  BY <1>1, <1>3 DEF Refuse, Allow, Crash, NoTransaction, TypeOK
<1>4. ASSUME NEW j \in Jobs,
             \/ AcquireLock(j) \/ CallProvider(j) \/ FailBeforeSpend(j)
             \/ ProviderThrows(j) \/ RecordUsage(j) \/ Reconcile(j)
      PROVE  tx'[i].now <= clock'
  BY <1>1, <1>4 DEF AcquireLock, CallProvider, FailBeforeSpend, ProviderThrows, RecordUsage, Reconcile
<1>5. CASE Tick \/ Sweep \/ Quiescent \/ UNCHANGED vars
  BY <1>1, <1>5 DEF Tick, Sweep, Quiescent, vars
<1>6. QED
  BY <1>2, <1>3, <1>4, <1>5 DEF Next

(* No hold is created behind the back of a reserve() that has read them. *)
LEMMA LiveHoldsAreSeenStep ==
  ASSUME TypeOK, OneTransaction, NowIsPast, LiveHoldsAreSeen, [Next]_vars
  PROVE  LiveHoldsAreSeen'
<1> SUFFICES ASSUME NEW i \in Jobs, NEW k \in Keys, pc'[i] = "holdsRead", Live(k)'
             PROVE  k \in tx'[i].held
  BY DEF LiveHoldsAreSeen
<1>1. ASSUME NEW j \in Jobs, Allow(j) PROVE k \in tx'[i].held
  <2>1. i # j /\ pc[i] = "holdsRead" /\ pc[j] = "holdsRead"
    BY <1>1 DEF Allow, TypeOK
  <2>2. QED
    BY <2>1 DEF OneTransaction, InTransaction
<1>2. ASSUME ~ \E j \in Jobs : Allow(j) PROVE k \in tx'[i].held
  <2>1. Live(k)
    BY <1>2, HoldsOnlyEnd
  <2>2. ASSUME NEW j \in Jobs, ReadHolds(j) PROVE k \in tx'[i].held
    <3>1. CASE i = j
      <4>1. tx[i].now \in Nat /\ clock \in Nat /\ tx[i].now <= clock /\ hold[k].expiresAt \in Nat
        BY DEF TypeOK, Snapshots, Holds, NowIsPast
      <4>2. LiveAt(k, tx[i].now)
        BY <2>1, <4>1 DEF Live, LiveAt
      <4>3. QED
        BY <2>2, <3>1, <4>2 DEF ReadHolds, TypeOK, Snapshots
    <3>2. CASE i # j
      BY <2>1, <2>2, <3>2 DEF ReadHolds, LiveHoldsAreSeen, TypeOK
    <3>3. QED
      BY <3>1, <3>2
  <2>3. ASSUME NEW j \in Jobs,
               Call(j) \/ AcquireLock(j) \/ ReadSpend(j) \/ Refuse(j) \/ Crash(j)
        PROVE  k \in tx'[i].held
    BY <2>1, <2>3 DEF Call, AcquireLock, ReadSpend, Refuse, Crash, LiveHoldsAreSeen, TypeOK
  <2>4. ASSUME NEW j \in Jobs,
               \/ CallProvider(j) \/ FailBeforeSpend(j) \/ ProviderThrows(j)
               \/ RecordUsage(j) \/ Reconcile(j)
        PROVE  k \in tx'[i].held
    BY <2>1, <2>4 DEF CallProvider, FailBeforeSpend, ProviderThrows, RecordUsage, Reconcile,
       LiveHoldsAreSeen, TypeOK
  <2>5. CASE Tick \/ Sweep \/ Quiescent \/ UNCHANGED vars
    BY <2>1, <2>5 DEF Tick, Sweep, Quiescent, vars, LiveHoldsAreSeen
  <2>6. QED
    BY <1>2, <2>2, <2>3, <2>4, <2>5 DEF Next
<1>3. QED
  BY <1>1, <1>2

(* The live holds of a workspace never pass its request limit, however many  *)
(* jobs, crashes, expiries and reused keys there are.                        *)
THEOREM HeldBound == Spec => []HeldRequestsWithinLimit
<1>1. TypeOK /\ Init => OneTransaction /\ NowIsPast /\ LiveHoldsAreSeen /\ HeldRequestsWithinLimit
  <2> SUFFICES ASSUME TypeOK, Init
               PROVE  OneTransaction /\ NowIsPast /\ LiveHoldsAreSeen /\ HeldRequestsWithinLimit
    OBVIOUS
  <2>1. OneTransaction /\ NowIsPast /\ LiveHoldsAreSeen
    BY DEF Init, OneTransaction, NowIsPast, LiveHoldsAreSeen, InTransaction, NoTransaction
  <2>2. ASSUME NEW w \in Workspaces PROVE LiveIn(w) = {}
    BY DEF Init, LiveIn, Live, LiveAt, NoHold
  <2>3. HeldRequestsWithinLimit
    BY <2>2, FS_EmptySet, MaxRequestsType DEF HeldRequestsWithinLimit, LiveIn
  <2>4. QED
    BY <2>1, <2>3
<1>2. TypeOK /\ OneTransaction /\ NowIsPast /\ LiveHoldsAreSeen /\ HeldRequestsWithinLimit
        /\ [Next]_vars => HeldRequestsWithinLimit'
  BY AllowKeepsBound, FewerLiveHolds, HoldsOnlyEnd
<1>3. QED
  BY <1>1, <1>2, TypeCorrect, OneTransactionStep, NowIsPastStep, LiveHoldsAreSeenStep, PTL DEF Spec

-----------------------------------------------------------------------------
(* The monthly request limit *)

(* Executors like publishing and analytics sync: they reserve in the worker, *)
(* write their usage event before they settle, and every operation has its   *)
(* own key.                                                                  *)
OwnKeyExecutors ==
  /\ Inline = Jobs /\ RecordFirst = Jobs
  /\ \A i, j \in Jobs : KeyOf[i] = KeyOf[j] => i = j

(* A reserve() in progress started less than a hold's life ago. *)
ReserveIsRecent ==
  \A j \in Jobs : pc[j] \in {"waiting"} \cup InTransaction => tx[j].now + TTL > clock

(* A row is written by a job whose key it has, after it was delivered. *)
HoldOfDeliveredJob ==
  \A j \in Jobs : hold[KeyOf[j]].status # "NONE" =>
    hold[KeyOf[j]].job = j /\ attempts[j] > 0

(* A job that works, or will be delivered again, has no hold yet or a live one. *)
Working(j) == pc[j] \in {"waiting"} \cup InTransaction \cup InFlight \/ CanCall(j)
HoldKept ==
  \A j \in Jobs : Working(j) => hold[KeyOf[j]].status = "NONE" \/ Live(KeyOf[j])

HoldTaken == \A j \in Jobs : pc[j] \in InFlight => hold[KeyOf[j]].status # "NONE"

KeptInv ==
  /\ TypeOK /\ Delivered /\ OneTransaction /\ NowIsPast /\ LiveHoldsAreSeen
  /\ ReserveIsRecent /\ HoldOfDeliveredJob /\ HoldKept /\ HoldTaken

(* Under Timely, a reserve() decides before a hold it writes could expire. *)
LEMMA ReserveIsRecentStep ==
  ASSUME Timely, KeptInv, [Next]_vars
  PROVE  ReserveIsRecent'
<1> SUFFICES ASSUME NEW i \in Jobs, pc'[i] \in {"waiting"} \cup InTransaction
             PROVE  tx'[i].now + TTL > clock'
  BY DEF ReserveIsRecent
<1> USE ConstantsAssumption DEF InTransaction
<1>1. pc \in [Jobs -> Stages] /\ tx \in [Jobs -> Snapshots] /\ clock \in Nat /\ tx[i].now \in Nat
      /\ (pc[i] \in {"waiting"} \cup InTransaction => tx[i].now + TTL > clock)
  BY DEF KeptInv, TypeOK, Snapshots, ReserveIsRecent
<1>2. ASSUME NEW j \in Jobs, Call(j) PROVE tx'[i].now + TTL > clock'
  BY <1>1, <1>2 DEF Call, Snapshots
<1>3. ASSUME NEW j \in Jobs, AcquireLock(j) PROVE tx'[i].now + TTL > clock'
  BY <1>1, <1>3 DEF AcquireLock
<1>4. ASSUME NEW j \in Jobs, ReadSpend(j) \/ ReadHolds(j) PROVE tx'[i].now + TTL > clock'
  BY <1>1, <1>4 DEF ReadSpend, ReadHolds, Snapshots
<1>5. ASSUME NEW j \in Jobs, Refuse(j) \/ Allow(j) \/ Crash(j) PROVE tx'[i].now + TTL > clock'
  BY <1>1, <1>5 DEF Refuse, Allow, Crash
<1>6. ASSUME NEW j \in Jobs,
             \/ CallProvider(j) \/ FailBeforeSpend(j) \/ ProviderThrows(j)
             \/ RecordUsage(j) \/ Reconcile(j)
      PROVE  tx'[i].now + TTL > clock'
  BY <1>1, <1>6 DEF CallProvider, FailBeforeSpend, ProviderThrows, RecordUsage, Reconcile
<1>7. CASE Tick
  BY <1>1, <1>7 DEF Tick, InTime
<1>8. CASE Sweep \/ Quiescent \/ UNCHANGED vars
  BY <1>1, <1>8 DEF Sweep, Quiescent, vars
<1>9. QED
  BY <1>2, <1>3, <1>4, <1>5, <1>6, <1>7, <1>8 DEF Next

(* What the three facts about one job's hold need of a step. *)
HoldFacts(j) ==
  /\ hold[KeyOf[j]].status # "NONE" => hold[KeyOf[j]].job = j /\ attempts[j] > 0
  /\ Working(j) => hold[KeyOf[j]].status = "NONE" \/ Live(KeyOf[j])
  /\ pc[j] \in InFlight => hold[KeyOf[j]].status # "NONE"

(* A step of another job leaves the facts about j alone. *)
LEMMA OtherJobsHold ==
  ASSUME OwnKeyExecutors, TypeOK, NEW i \in Jobs, NEW j \in Jobs, i # j, HoldFacts(i),
         clock' = clock, pc'[i] = pc[i], attempts'[i] = attempts[i],
         hold'[KeyOf[i]] = hold[KeyOf[i]]
  PROVE  HoldFacts(i)'
  BY DEF HoldFacts, Working, CanCall, Live, LiveAt

(* Under Timely, no step takes its hold from a job that is working. *)
LEMMA HoldFactsStep ==
  ASSUME OwnKeyExecutors, Timely, KeptInv, [Next]_vars, NEW i \in Jobs
  PROVE  HoldFacts(i)'
<1> USE ConstantsAssumption
<1>1. HoldFacts(i)
  BY DEF KeptInv, HoldFacts, HoldOfDeliveredJob, HoldKept, HoldTaken
<1>2. /\ pc \in [Jobs -> Stages] /\ hold \in [Keys -> Holds] /\ clock \in Nat
      /\ attempts \in [Jobs -> 0 .. MaxAttempts]
      /\ tx[i].now \in Nat /\ KeyOf[i] \in Keys
      /\ hold[KeyOf[i]].expiresAt \in Nat /\ attempts[i] \in 0 .. MaxAttempts
  BY DEF KeptInv, TypeOK, Snapshots, Holds
<1>3. ASSUME NEW j \in Jobs, Call(j) PROVE HoldFacts(i)'
  BY <1>1, <1>2, <1>3 DEF Call, HoldFacts, Working, CanCall, Live, LiveAt, InFlight
<1>4. ASSUME NEW j \in Jobs,
             AcquireLock(j) \/ ReadSpend(j) \/ ReadHolds(j) \/ Refuse(j) \/ CallProvider(j)
      PROVE  HoldFacts(i)'
  BY <1>1, <1>2, <1>4 DEF AcquireLock, ReadSpend, ReadHolds, Refuse, CallProvider,
     HoldFacts, Working, CanCall, Live, LiveAt, InFlight, InTransaction
<1>5. ASSUME NEW j \in Jobs, Allow(j) PROVE HoldFacts(i)'
  <2>1. CASE i = j
    <3>1. pc[i] = "holdsRead" /\ attempts[i] > 0 /\ tx[i].now + TTL > clock
      BY <1>5, <2>1 DEF Allow, KeptInv, Delivered, ReserveIsRecent, InTransaction
    <3>2. CASE hold[KeyOf[i]].status = "NONE"
      <4>1. hold'[KeyOf[i]] = [status |-> "ACTIVE", job |-> i, expiresAt |-> tx[i].now + TTL]
        BY <1>2, <1>5, <2>1, <3>2 DEF Allow, ExpiryOf
      <4>2. clock' = clock /\ attempts' = attempts
        BY <1>5 DEF Allow
      <4>3. QED
        BY <3>1, <4>1, <4>2 DEF HoldFacts, Live, LiveAt
    <3>3. CASE hold[KeyOf[i]].status # "NONE"
      <4>1. hold' = hold /\ clock' = clock /\ attempts' = attempts
        BY <1>5, <2>1, <3>3 DEF Allow
      <4>2. Live(KeyOf[i])
        BY <1>1, <3>1, <3>3 DEF HoldFacts, Working, InTransaction
      <4>3. QED
        BY <1>1, <3>3, <4>1, <4>2 DEF HoldFacts, Live, LiveAt
    <3>4. QED
      BY <3>2, <3>3
  <2>2. CASE i # j
    <3>1. KeyOf[j] # KeyOf[i]
      BY <2>2 DEF OwnKeyExecutors
    <3>2. hold'[KeyOf[i]] = hold[KeyOf[i]] /\ pc'[i] = pc[i] /\ attempts'[i] = attempts[i]
          /\ clock' = clock
      BY <1>2, <1>5, <2>2, <3>1 DEF Allow
    <3>3. QED
      BY <1>1, <2>2, <3>2, OtherJobsHold DEF KeptInv
  <2>3. QED
    BY <2>1, <2>2
<1>6. ASSUME NEW j \in Jobs, FailBeforeSpend(j) \/ ProviderThrows(j) \/ Reconcile(j)
      PROVE  HoldFacts(i)'
  <2>1. /\ pc' = [pc EXCEPT ![j] = "done"] /\ UNCHANGED <<attempts, clock>>
        /\ \E status \in {"RECONCILED", "RELEASED"} : Settle(j, status)
    BY <1>6 DEF FailBeforeSpend, ProviderThrows, Reconcile, OwnKeyExecutors
  <2>2. PICK status \in {"RECONCILED", "RELEASED"} : Settle(j, status)
    BY <2>1
  <2>3. CASE i = j
    <3>1. pc'[i] = "done" /\ attempts' = attempts
      BY <1>2, <2>1, <2>3
    <3>2. /\ hold'[KeyOf[i]].job = hold[KeyOf[i]].job
          /\ hold'[KeyOf[i]].status # "NONE" => hold[KeyOf[i]].status # "NONE"
      BY <1>2, <2>2, <2>3 DEF Settle, Holds
    <3>3. QED
      BY <1>1, <3>1, <3>2 DEF HoldFacts, Working, CanCall, InFlight, InTransaction
  <2>4. CASE i # j
    <3>1. KeyOf[j] # KeyOf[i]
      BY <2>4 DEF OwnKeyExecutors
    <3>2. hold'[KeyOf[i]] = hold[KeyOf[i]]
      BY <1>2, <2>2, <3>1 DEF Settle
    <3>3. QED
      BY <1>1, <1>2, <2>1, <2>4, <3>2, OtherJobsHold DEF KeptInv
  <2>5. QED
    BY <2>3, <2>4
<1>7. ASSUME NEW j \in Jobs, RecordUsage(j) PROVE HoldFacts(i)'
  BY <1>1, <1>2, <1>7 DEF RecordUsage, OwnKeyExecutors, HoldFacts, Working, CanCall, Live, LiveAt,
     InFlight
<1>8. ASSUME NEW j \in Jobs, Crash(j) PROVE HoldFacts(i)'
  BY <1>1, <1>2, <1>8 DEF Crash, OwnKeyExecutors, HoldFacts, Working, CanCall, Live, LiveAt,
     InFlight, InTransaction
<1>9. CASE Tick
  <2>1. Working(i)' => Working(i)
    BY <1>2, <1>9 DEF Tick, Working, CanCall
  <2>2. Working(i) /\ Live(KeyOf[i]) => hold[KeyOf[i]].expiresAt > clock + 1
    BY <1>1, <1>9 DEF Tick, InTime, Unfinished, Working, HoldFacts, Live, LiveAt
  <2>3. QED
    BY <1>1, <1>9, <2>1, <2>2 DEF Tick, HoldFacts, Live, LiveAt
<1>10. CASE Sweep
  <2>1. ~Expired(KeyOf[i]) => hold'[KeyOf[i]] = hold[KeyOf[i]]
    BY <1>2, <1>10 DEF Sweep
  <2>2. Expired(KeyOf[i]) => hold'[KeyOf[i]] = [hold[KeyOf[i]] EXCEPT !.status = "RELEASED"]
    BY <1>2, <1>10 DEF Sweep
  <2>3. Expired(KeyOf[i]) => ~Live(KeyOf[i]) /\ hold[KeyOf[i]].status # "NONE"
    BY <1>2 DEF Expired, Live, LiveAt
  <2>4. UNCHANGED <<pc, attempts, clock>>
    BY <1>10 DEF Sweep
  <2>5. CASE Expired(KeyOf[i])
    <3>1. hold'[KeyOf[i]].status = "RELEASED" /\ hold'[KeyOf[i]].job = hold[KeyOf[i]].job
      BY <1>2, <2>2, <2>5 DEF Holds
    <3>2. QED
      BY <1>1, <2>3, <2>4, <2>5, <3>1 DEF HoldFacts, Working, CanCall
  <2>6. CASE ~Expired(KeyOf[i])
    BY <1>1, <2>1, <2>4, <2>6 DEF HoldFacts, Working, CanCall, Live, LiveAt
  <2>7. QED
    BY <2>5, <2>6
<1>11. CASE Quiescent \/ UNCHANGED vars
  BY <1>1, <1>11 DEF Quiescent, vars, HoldFacts, Working, CanCall, Live, LiveAt
<1>12. QED
  BY <1>3, <1>4, <1>5, <1>6, <1>7, <1>8, <1>9, <1>10, <1>11 DEF Next

(* Operations of w that count and have not written their event yet. *)
Pending(w) == {i \in Jobs : Unrecorded(i) /\ CountedFor(w, WorkspaceOf[i])}

Bounded(w) ==
  /\ Configured(MaxRequests(w))
  /\ WsMax[w] # NoRow \/ \A v \in Workspaces : WsMax[v] = NoRow

(* The operations still to be recorded can be counted. *)
LEMMA PendingFinite ==
  ASSUME NEW w PROVE IsFiniteSet(Pending(w)) /\ Cardinality(Pending(w)) \in Nat
  BY FinitenessAssumption, FS_Subset, FS_CardinalityType DEF Pending

(* What is committed is what is recorded and what is still to be recorded. *)
LEMMA CommittedIsSum ==
  ASSUME NEW w
  PROVE  CommittedRequests(w) = UsedRequests(w) + Cardinality(Pending(w))
  BY DEF CommittedRequests, Pending

(* Steps that write no event and start no operation commit nothing more. *)
LEMMA NothingMoreCommitted ==
  ASSUME TypeOK, RequestsWithinLimit, usage' = usage,
         \A i \in Jobs : Unrecorded(i)' => Unrecorded(i)
  PROVE  RequestsWithinLimit'
<1> SUFFICES ASSUME NEW w \in Workspaces, Bounded(w)
             PROVE  CommittedRequests(w)' <= MaxRequests(w)
  BY DEF RequestsWithinLimit, Bounded, Configured, MaxRequests
<1>1. CommittedRequests(w) <= MaxRequests(w) /\ MaxRequests(w) \in Nat
  BY MaxRequestsType DEF RequestsWithinLimit, Bounded
<1>2. Pending(w)' \subseteq Pending(w)
  BY DEF Pending, CountedFor
<1>3. Cardinality(Pending(w)') <= Cardinality(Pending(w)) /\ Cardinality(Pending(w)') \in Nat
  BY <1>2, PendingFinite, FS_Subset, FS_CardinalityType
<1>4. CommittedRequests(w)' = UsedRequests(w) + Cardinality(Pending(w)')
  BY DEF CommittedRequests, UsedRequests, Pending, CountedFor, EventWorkspace
<1>5. QED
  BY <1>1, <1>3, <1>4, PendingFinite, UsedRequestsType, CommittedIsSum

(* The event takes the place of the operation that wrote it. *)
LEMMA RecordingCommitsNothing ==
  ASSUME OwnKeyExecutors, TypeOK, RequestsWithinLimit, NEW j \in Jobs, RecordUsage(j)
  PROVE  RequestsWithinLimit'
<1> DEFINE newest == <<j, attempts[j]>>
<1>1. pc[j] = "called" /\ pc' = [pc EXCEPT ![j] = "recorded"] /\ pc \in [Jobs -> Stages]
  BY DEF RecordUsage, OwnKeyExecutors, TypeOK
<1>2. \A i \in Jobs : Unrecorded(i)' <=> (Unrecorded(i) /\ i # j)
  BY <1>1 DEF Unrecorded, OwnKeyExecutors
<1>3. CASE usage' = usage
  BY <1>2, <1>3, NothingMoreCommitted
<1>4. CASE usage' = usage \cup {newest}
  <2> SUFFICES ASSUME NEW w \in Workspaces, Bounded(w)
               PROVE  CommittedRequests(w)' <= MaxRequests(w)
    BY DEF RequestsWithinLimit, Bounded, Configured, MaxRequests
  <2> DEFINE Used == {e \in usage : CountedFor(w, EventWorkspace(e))}
             Used1 == {e \in usage' : CountedFor(w, EventWorkspace(e))}
  <2>1. CommittedRequests(w) <= MaxRequests(w) /\ MaxRequests(w) \in Nat
    BY MaxRequestsType DEF RequestsWithinLimit, Bounded
  <2>2. IsFiniteSet(Used) /\ Cardinality(Used) \in Nat
    BY FinitelyManyEvents, FS_Subset, FS_CardinalityType
  <2>3. CommittedRequests(w)' = Cardinality(Used1) + Cardinality(Pending(w)')
    BY DEF CommittedRequests, UsedRequests, Pending, CountedFor, EventWorkspace
  <2>4. CommittedRequests(w) = Cardinality(Used) + Cardinality(Pending(w))
    BY CommittedIsSum DEF UsedRequests
  <2>5. CASE CountedFor(w, WorkspaceOf[j])
    <3>1. Used1 = Used \cup {newest}
      BY <1>4, <2>5 DEF EventWorkspace
    <3>2. Cardinality(Used1) <= Cardinality(Used) + 1 /\ Cardinality(Used1) \in Nat
      <4> HIDE DEF Used, Used1, newest
      <4>1. IsFiniteSet(Used1)
        BY <2>2, <3>1, FS_AddElement
      <4>2. Cardinality(Used1) = IF newest \in Used THEN Cardinality(Used) ELSE Cardinality(Used) + 1
        BY <2>2, <3>1, FS_AddElement
      <4>3. QED
        BY <2>2, <4>1, <4>2, FS_CardinalityType
    <3>3. Pending(w)' = Pending(w) \ {j} /\ j \in Pending(w)
      BY <1>1, <1>2, <2>5 DEF Pending, CountedFor, Unrecorded
    <3>4. Cardinality(Pending(w)') = Cardinality(Pending(w)) - 1
      BY <3>3, PendingFinite, FS_RemoveElement
    <3> HIDE DEF Used, Used1
    <3>5. QED
      BY <2>1, <2>2, <2>3, <2>4, <3>2, <3>4, PendingFinite
  <2>6. CASE ~CountedFor(w, WorkspaceOf[j])
    <3>1. Used1 = Used
      BY <1>4, <2>6 DEF EventWorkspace
    <3>2. Pending(w)' = Pending(w)
      BY <1>1, <1>2, <2>6 DEF Pending, CountedFor
    <3>3. QED
      BY <2>1, <2>3, <2>4, <3>1, <3>2
  <2>7. QED
    BY <2>5, <2>6
<1>5. QED
  BY <1>3, <1>4 DEF RecordUsage

(* The decision of j counted the events and the hold of every other pending  *)
(* operation that counts against w, and left room for one more.              *)
LEMMA AllowCommitsWithinLimit ==
  ASSUME OwnKeyExecutors, KeptInv, RequestsWithinLimit, NEW j \in Jobs, Allow(j)
  PROVE  RequestsWithinLimit'
<1> DEFINE ws == WorkspaceOf[j]
<1>1. /\ pc[j] = "holdsRead" /\ ~Blocked(j) /\ pc' = [pc EXCEPT ![j] = "allowed"]
      /\ usage' = usage /\ pc \in [Jobs -> Stages] /\ ws \in Workspaces /\ TypeOK
  BY ConstantsAssumption DEF Allow, KeptInv, TypeOK
<1>2. \A i \in Jobs : Unrecorded(i)' <=> (Unrecorded(i) \/ i = j)
  BY <1>1 DEF Unrecorded, OwnKeyExecutors
<1>3. ~Unrecorded(j)
  BY <1>1 DEF Unrecorded
<1> SUFFICES ASSUME NEW w \in Workspaces, Bounded(w)
             PROVE  CommittedRequests(w)' <= MaxRequests(w)
  BY DEF RequestsWithinLimit, Bounded, Configured, MaxRequests
<1>4. CommittedRequests(w) <= MaxRequests(w) /\ MaxRequests(w) \in Nat
  BY MaxRequestsType DEF RequestsWithinLimit, Bounded
<1>5. CommittedRequests(w)' = UsedRequests(w) + Cardinality(Pending(w)')
  BY <1>1 DEF CommittedRequests, UsedRequests, Pending, CountedFor, EventWorkspace
<1>6. CASE ~CountedFor(w, ws)
  <2>1. Pending(w)' = Pending(w)
    BY <1>2, <1>6 DEF Pending, CountedFor
  <2>2. QED
    BY <1>4, <1>5, <2>1, CommittedIsSum
<1>7. CASE CountedFor(w, ws)
  <2> DEFINE Seen == {k \in tx[j].held : CountedFor(ws, HoldWorkspace(k))}
             f == [i \in Pending(w) |-> KeyOf[i]]
  <2>1. MaxRequests(ws) = MaxRequests(w)
        /\ (\A v \in Workspaces : CountedFor(ws, v) <=> CountedFor(w, v))
    BY <1>1, <1>7 DEF CountedFor, Bounded, MaxRequests, Configured
  <2>2. UsedRequests(ws) = UsedRequests(w)
    <3>1. \A e \in usage : EventWorkspace(e) \in Workspaces
      BY <1>1, ConstantsAssumption DEF TypeOK, UsageEvents, EventWorkspace
    <3>2. {e \in usage : CountedFor(ws, EventWorkspace(e))}
            = {e \in usage : CountedFor(w, EventWorkspace(e))}
      BY <2>1, <3>1
    <3>3. QED
      BY <3>2 DEF UsedRequests
  <2>3. UsedRequests(w) + Cardinality(Seen) + 1 <= MaxRequests(w)
    <3>1. IsFiniteSet(Seen)
      BY <1>1, FinitenessAssumption, FS_Subset DEF TypeOK, Snapshots
    <3>2. Cardinality(Seen) \in Nat /\ UsedRequests(w) \in Nat
      BY <1>1, <3>1, FS_CardinalityType, UsedRequestsType
    <3>3. ~(UsedRequests(w) + Cardinality(Seen) + 1 > MaxRequests(w))
      BY <1>1, <2>1, <2>2 DEF Blocked, OperationLimitReached, HeldRequests, Bounded
    <3> HIDE DEF Seen
    <3>4. QED
      BY <1>4, <3>2, <3>3
  <2>4. ASSUME NEW i \in Pending(w) PROVE KeyOf[i] \in Seen
    <3>1. i \in Jobs /\ pc[i] \in {"allowed", "called"} /\ CountedFor(w, WorkspaceOf[i])
      BY DEF Pending, Unrecorded, OwnKeyExecutors
    <3>2. Live(KeyOf[i]) /\ hold[KeyOf[i]].job = i
      BY <3>1 DEF KeptInv, HoldKept, HoldTaken, HoldOfDeliveredJob, Working, InFlight
    <3>3. KeyOf[i] \in tx[j].held
      BY <1>1, <3>1, <3>2, ConstantsAssumption DEF KeptInv, LiveHoldsAreSeen
    <3>4. QED
      BY <2>1, <3>1, <3>2, <3>3, ConstantsAssumption DEF HoldWorkspace
  <2>5. f \in Injection(Pending(w), Seen)
    BY <2>4 DEF Injection, IsInjective, OwnKeyExecutors, Pending
  <2>6. IsFiniteSet(Seen)
    BY <1>1, FinitenessAssumption, FS_Subset DEF TypeOK, Snapshots
  <2>7. Cardinality(Pending(w)) <= Cardinality(Seen) /\ Cardinality(Seen) \in Nat
    BY <2>5, <2>6, FS_Injection, FS_CardinalityType
  <2>8. Pending(w)' = Pending(w) \cup {j} /\ j \notin Pending(w)
    BY <1>2, <1>3, <1>7 DEF Pending, CountedFor
  <2>9. Cardinality(Pending(w)') = Cardinality(Pending(w)) + 1
    BY <2>8, PendingFinite, FS_AddElement
  <2> HIDE DEF Seen, f
  <2>10. QED
    BY <1>1, <1>4, <1>5, <2>3, <2>7, <2>9, PendingFinite, UsedRequestsType
<1>8. QED
  BY <1>6, <1>7

(* RequestsWithinLimit for executors that reserve in the worker, record      *)
(* before they settle and finish before their hold expires: the operations   *)
(* of a month, recorded or under way, never pass the limit, through any      *)
(* interleaving of the reads, crashes, redeliveries and lost writes.         *)
THEOREM RequestLimit ==
  ASSUME OwnKeyExecutors, Timely
  PROVE  Spec => []RequestsWithinLimit
<1>1. TypeOK /\ Init => KeptInv /\ RequestsWithinLimit
  <2> SUFFICES ASSUME TypeOK, Init PROVE KeptInv /\ RequestsWithinLimit
    OBVIOUS
  <2>1. \A j \in Jobs : pc[j] = "idle" /\ hold[KeyOf[j]].status = "NONE"
    BY ConstantsAssumption DEF Init, NoHold
  <2>2. Delivered /\ OneTransaction /\ NowIsPast /\ LiveHoldsAreSeen
    BY DEF Init, Delivered, OneTransaction, NowIsPast, LiveHoldsAreSeen, InTransaction,
       NoTransaction
  <2>3. ReserveIsRecent /\ HoldOfDeliveredJob /\ HoldKept /\ HoldTaken
    BY <2>1 DEF ReserveIsRecent, HoldOfDeliveredJob, HoldKept, HoldTaken, InTransaction, InFlight
  <2>4. ASSUME NEW w \in Workspaces, Bounded(w) PROVE CommittedRequests(w) <= MaxRequests(w)
    <3>1. {e \in usage : CountedFor(w, EventWorkspace(e))} = {} /\ Pending(w) = {}
      BY <2>1 DEF Init, Pending, Unrecorded
    <3>2. UsedRequests(w) = 0 /\ Cardinality(Pending(w)) = 0
      BY <3>1, FS_EmptySet DEF UsedRequests
    <3>3. QED
      BY <2>4, <3>2, CommittedIsSum, MaxRequestsType DEF Bounded
  <2>5. QED
    BY <2>2, <2>3, <2>4 DEF KeptInv, RequestsWithinLimit, Bounded
<1>2. KeptInv /\ [Next]_vars => ReserveIsRecent' /\ HoldOfDeliveredJob' /\ HoldKept' /\ HoldTaken'
  <2> SUFFICES ASSUME KeptInv, [Next]_vars
               PROVE  ReserveIsRecent' /\ HoldOfDeliveredJob' /\ HoldKept' /\ HoldTaken'
    OBVIOUS
  <2>1. \A i \in Jobs : HoldFacts(i)'
    BY HoldFactsStep
  <2>2. QED
    BY <2>1, ReserveIsRecentStep DEF HoldFacts, HoldOfDeliveredJob, HoldKept, HoldTaken
<1>3. KeptInv /\ RequestsWithinLimit /\ [Next]_vars => RequestsWithinLimit'
  <2> SUFFICES ASSUME KeptInv, RequestsWithinLimit, [Next]_vars PROVE RequestsWithinLimit'
    OBVIOUS
  <2>1. TypeOK /\ pc \in [Jobs -> Stages]
    BY DEF KeptInv, TypeOK
  <2>2. ASSUME NEW j \in Jobs, Allow(j) PROVE RequestsWithinLimit'
    BY <2>2, AllowCommitsWithinLimit
  <2>3. ASSUME NEW j \in Jobs, RecordUsage(j) PROVE RequestsWithinLimit'
    BY <2>1, <2>3, RecordingCommitsNothing
  <2>4. ASSUME NEW j \in Jobs,
               \/ Call(j) \/ AcquireLock(j) \/ ReadSpend(j) \/ ReadHolds(j) \/ Refuse(j)
               \/ CallProvider(j) \/ FailBeforeSpend(j) \/ ProviderThrows(j)
               \/ Reconcile(j) \/ Crash(j)
        PROVE  RequestsWithinLimit'
    <3>1. usage' = usage /\ \A i \in Jobs : Unrecorded(i)' => Unrecorded(i)
      BY <2>1, <2>4 DEF Call, AcquireLock, ReadSpend, ReadHolds, Refuse, CallProvider,
         FailBeforeSpend, ProviderThrows, Reconcile, Crash, Unrecorded, OwnKeyExecutors
    <3>2. QED
      BY <2>1, <3>1, NothingMoreCommitted
  <2>5. CASE Tick \/ Sweep \/ Quiescent \/ UNCHANGED vars
    <3>1. usage' = usage /\ \A i \in Jobs : Unrecorded(i)' => Unrecorded(i)
      BY <2>5 DEF Tick, Sweep, Quiescent, vars, Unrecorded
    <3>2. QED
      BY <2>1, <3>1, NothingMoreCommitted
  <2>6. QED
    BY <2>2, <2>3, <2>4, <2>5 DEF Next
<1>4. TypeOK /\ Delivered /\ OneTransaction /\ NowIsPast /\ LiveHoldsAreSeen
        /\ ReserveIsRecent /\ HoldOfDeliveredJob /\ HoldKept /\ HoldTaken => KeptInv
  BY DEF KeptInv
<1>5. KeptInv => TypeOK /\ Delivered /\ OneTransaction /\ NowIsPast /\ LiveHoldsAreSeen
  BY DEF KeptInv
<1>6. QED
  <2>1. TypeOK /\ OneTransaction /\ [Next]_vars => OneTransaction'
    BY OneTransactionStep
  <2>2. TypeOK /\ NowIsPast /\ [Next]_vars => NowIsPast'
    BY NowIsPastStep
  <2>3. TypeOK /\ OneTransaction /\ NowIsPast /\ LiveHoldsAreSeen /\ [Next]_vars => LiveHoldsAreSeen'
    BY LiveHoldsAreSeenStep
  <2>4. QED
    BY <1>1, <1>2, <1>3, <1>4, <1>5, <2>1, <2>2, <2>3, TypeCorrect, PTL DEF Spec

-----------------------------------------------------------------------------
(* Settled holds *)

(* A settled hold is final (SettledHoldsAreFinal): reserve() hands a reused  *)
(* row back as it is, settle() and the sweep touch ACTIVE rows only.         *)
THEOREM Finality == Spec => SettledHoldsAreFinal
<1>1. ASSUME TypeOK, [Next]_vars, NEW k \in Keys, hold[k].status \in {"RECONCILED", "RELEASED"}
      PROVE  hold'[k] = hold[k]
  <2>1. ASSUME NEW j \in Jobs, NEW status, Settle(j, status) PROVE hold'[k] = hold[k]
    BY <1>1, <2>1, ConstantsAssumption DEF Settle, TypeOK
  <2>2. ASSUME NEW j \in Jobs, Allow(j) PROVE hold'[k] = hold[k]
    BY <1>1, <2>2, ConstantsAssumption DEF Allow, TypeOK
  <2>3. ASSUME NEW j \in Jobs, FailBeforeSpend(j) \/ ProviderThrows(j) \/ Reconcile(j)
        PROVE  hold'[k] = hold[k]
    BY <2>1, <2>3 DEF FailBeforeSpend, ProviderThrows, Reconcile
  <2>4. CASE Sweep
    BY <1>1, <2>4 DEF Sweep, Expired, TypeOK
  <2>5. ASSUME NEW j \in Jobs,
               \/ Call(j) \/ AcquireLock(j) \/ ReadSpend(j) \/ ReadHolds(j) \/ Refuse(j)
               \/ CallProvider(j) \/ RecordUsage(j) \/ Crash(j)
        PROVE  hold'[k] = hold[k]
    BY <2>5 DEF Call, AcquireLock, ReadSpend, ReadHolds, Refuse, CallProvider, RecordUsage, Crash
  <2>6. CASE Tick \/ Quiescent \/ UNCHANGED vars
    BY <2>6 DEF Tick, Quiescent, vars
  <2>7. QED
    BY <1>1, <2>2, <2>3, <2>4, <2>5, <2>6 DEF Next
<1>2. TypeOK /\ [Next]_vars
        => [\A k \in Keys : hold[k].status \in {"RECONCILED", "RELEASED"}
                              => hold'[k] = hold[k]]_vars
  BY <1>1
<1>3. QED
  BY <1>2, TypeCorrect, PTL DEF Spec, SettledHoldsAreFinal

-----------------------------------------------------------------------------
(* The ceilings on cost *)

LiveSomewhere == {k \in Keys : Live(k)}
CostsBounded ==
  /\ \A w \in Workspaces : WsCeiling[w] > 0 => HeldMicros(LiveIn(w)) < WsCeiling[w]
  /\ OrgCeiling > 0 => HeldMicros(LiveSomewhere) < OrgCeiling

(* The holds of the organization are those of its workspaces. *)
LEMMA CostsBoundedIsEnough == ASSUME TypeOK, CostsBounded PROVE HeldCostWithinCeilings
<1>1. ASSUME NEW k \in Keys PROVE HoldWorkspace(k) \in Workspaces
  BY ConstantsAssumption DEF TypeOK, Holds, HoldWorkspace
<1>2. UNION {LiveIn(w) : w \in Workspaces} = LiveSomewhere
  BY <1>1 DEF LiveIn, LiveSomewhere
<1>3. QED
  BY <1>2 DEF CostsBounded, HeldCostWithinCeilings, LiveIn

(* The estimates are natural numbers, and so are their sums. *)
LEMMA CostTypes ==
  ASSUME TypeOK
  PROVE  /\ \A k \in Keys : HoldCost[k] = Cost[hold[k].job] /\ HoldCost[k] \in Nat
         /\ \A e \in UsageEvents : EventCost[e] \in Nat
  BY ConstantsAssumption DEF TypeOK, Holds, HoldCost, EventCost, UsageEvents

(* What is spent, and what is held, are natural numbers. *)
LEMMA SpentMicrosType ==
  ASSUME TypeOK, NEW E \in SUBSET UsageEvents PROVE SpentMicros(E) \in Nat
<1>1. IsFiniteSet(UsageEvents)
  <2>1. IsFiniteSet(1 .. MaxAttempts)
    BY ConstantsAssumption, FS_Interval
  <2>2. QED
    BY <2>1, FinitenessAssumption, FS_Product DEF UsageEvents
<1>2. QED
  BY <1>1, CostTypes, SumOfPart DEF SpentMicros

LEMMA HeldMicrosType ==
  ASSUME TypeOK, NEW K \in SUBSET Keys PROVE HeldMicros(K) \in Nat
  BY FinitenessAssumption, CostTypes, SumOfPart DEF HeldMicros

(* Fewer live holds hold less. *)
LEMMA FewerLiveCosts ==
  ASSUME TypeOK, TypeOK', CostsBounded,
         \A k \in Keys : Live(k)' => Live(k) /\ hold'[k].job = hold[k].job
  PROVE  CostsBounded'
<1>1. ASSUME NEW R \in SUBSET Keys, NEW S \in SUBSET Keys, R \subseteq S,
             \A k \in R : hold'[k].job = hold[k].job
      PROVE  /\ SumFunctionOnSet(HoldCost', R) \in Nat
             /\ SumFunctionOnSet(HoldCost', R) <= SumFunctionOnSet(HoldCost, S)
             /\ SumFunctionOnSet(HoldCost, S) \in Nat
  <2>1. \A k \in R : HoldCost'[k] = HoldCost[k]
    BY <1>1 DEF HoldCost
  <2>2. IsFiniteSet(R) /\ IsFiniteSet(S) /\ \A k \in S : HoldCost[k] \in Nat
    BY FinitenessAssumption, FS_Subset, CostTypes
  <2>3. SumFunctionOnSet(HoldCost', R) = SumFunctionOnSet(HoldCost, R)
    BY <2>1, <2>2, SumAgrees
  <2>4. QED
    BY <1>1, <2>2, <2>3, SumOfPart
<1>2. ASSUME NEW w \in Workspaces, WsCeiling[w] > 0 PROVE HeldMicros(LiveIn(w))' < WsCeiling[w]
  <2>1. LiveIn(w)' \subseteq LiveIn(w) /\ LiveIn(w) \subseteq Keys
        /\ \A k \in LiveIn(w)' : hold'[k].job = hold[k].job
    BY DEF LiveIn, HoldWorkspace
  <2>2. HeldMicros(LiveIn(w)) < WsCeiling[w] /\ WsCeiling[w] \in Nat
    BY <1>2, ConstantsAssumption DEF CostsBounded
  <2>3. QED
    BY <1>1, <2>1, <2>2 DEF HeldMicros
<1>3. ASSUME OrgCeiling > 0 PROVE HeldMicros(LiveSomewhere)' < OrgCeiling
  <2>1. LiveSomewhere' \subseteq LiveSomewhere /\ LiveSomewhere \subseteq Keys
        /\ \A k \in LiveSomewhere' : hold'[k].job = hold[k].job
    BY DEF LiveSomewhere
  <2>2. HeldMicros(LiveSomewhere) < OrgCeiling /\ OrgCeiling \in Nat
    BY <1>3, ConstantsAssumption DEF CostsBounded
  <2>3. QED
    BY <1>1, <2>1, <2>2 DEF HeldMicros
<1>4. QED
  BY <1>2, <1>3 DEF CostsBounded

(* A decision that found room for the estimate leaves the sum under the      *)
(* ceiling: all that is live, except the new hold, was counted.              *)
LEMMA RoomWasLeft ==
  ASSUME TypeOK, NEW j \in Jobs, NEW key, NEW R, NEW E \in SUBSET UsageEvents, NEW K \in SUBSET Keys,
         NEW ceiling \in Nat, ceiling > 0, ~CeilingReached(ceiling, E, K, j),
         R \ {key} \subseteq K, \A k \in R \ {key} : HoldCost'[k] = HoldCost[k],
         HoldCost'[key] = Cost[j]
  PROVE  SumFunctionOnSet(HoldCost', R) < ceiling
<1>1. SpentMicros(E) \in Nat /\ HeldMicros(K) \in Nat /\ Cost[j] \in Nat
  BY SpentMicrosType, HeldMicrosType, ConstantsAssumption
<1>2. SpentMicros(E) + HeldMicros(K) + Cost[j] < ceiling
  BY <1>1 DEF CeilingReached
<1>3. IsFiniteSet(K) /\ \A k \in K : HoldCost[k] \in Nat
  BY FinitenessAssumption, FS_Subset, CostTypes
<1>4. /\ SumFunctionOnSet(HoldCost', R) \in Nat
      /\ SumFunctionOnSet(HoldCost', R) <= HeldMicros(K) + Cost[j]
  <2> DEFINE f == HoldCost
             g == HoldCost'
  <2>1. g[key] \in Nat /\ g[key] = Cost[j]
    BY <1>1
  <2>2. \A k \in R \ {key} : g[k] = f[k]
    OBVIOUS
  <2>3. \A k \in K : f[k] \in Nat
    BY <1>3
  <2>4. HeldMicros(K) = SumFunctionOnSet(f, K)
    BY DEF HeldMicros
  <2> HIDE DEF f, g
  <2>5. /\ SumFunctionOnSet(g, R) \in Nat
        /\ SumFunctionOnSet(g, R) <= SumFunctionOnSet(f, K) + g[key]
    BY <1>3, <2>1, <2>2, <2>3, SumOfPartAndOne
  <2>6. SumFunctionOnSet(g, R) = SumFunctionOnSet(HoldCost', R)
    BY DEF g
  <2>7. QED
    BY <2>1, <2>4, <2>5, <2>6
<1>5. QED
  BY <1>1, <1>2, <1>4

(* What a ceiling allows keeps the held cost within it. *)
LEMMA AllowKeepsCosts ==
  ASSUME TypeOK, TypeOK', LiveHoldsAreSeen, CostsBounded, NEW j \in Jobs, Allow(j)
  PROVE  CostsBounded'
<1> DEFINE key == KeyOf[j]
           ws == WorkspaceOf[j]
<1>1. key \in Keys /\ ws \in Workspaces /\ clock' = clock /\ pc[j] = "holdsRead" /\ ~Blocked(j)
  BY ConstantsAssumption DEF Allow
<1>2. CASE hold' = hold
  BY <1>1, <1>2, FewerLiveCosts DEF Live, LiveAt
<1>3. CASE hold' = [hold EXCEPT ![key] =
                      [status |-> "ACTIVE", job |-> j, expiresAt |-> ExpiryOf(tx[j].now)]]
  <2>1. \A k \in Keys : k # key => (Live(k)' <=> Live(k)) /\ hold'[k] = hold[k]
    BY <1>1, <1>3 DEF Live, LiveAt, TypeOK
  <2>2. hold'[key].job = j /\ HoldWorkspace(key)' = ws
    BY <1>1, <1>3 DEF HoldWorkspace, TypeOK
  <2>3. HoldCost'[key] = Cost[j] /\ \A k \in Keys \ {key} : HoldCost'[k] = HoldCost[k]
    BY <1>1, <2>1, <2>2 DEF HoldCost
  <2>4. tx[j].held \in SUBSET Keys /\ tx[j].spent \in SUBSET UsageEvents
    BY DEF TypeOK, Snapshots
  <2>5. ASSUME NEW w \in Workspaces, WsCeiling[w] > 0 PROVE HeldMicros(LiveIn(w))' < WsCeiling[w]
    <3>1. CASE w = ws
      <4> DEFINE K == {k \in tx[j].held : HoldWorkspace(k) = ws}
                 E == {e \in tx[j].spent : EventWorkspace(e) = ws}
      <4>1. LiveIn(w)' \ {key} \subseteq K
        BY <1>1, <2>1, <3>1 DEF LiveIn, HoldWorkspace, LiveHoldsAreSeen
      <4>2. K \in SUBSET Keys /\ E \in SUBSET UsageEvents
        BY <2>4
      <4>3. ~CeilingReached(WsCeiling[ws], E, K, j)
        BY <1>1 DEF Blocked
      <4>4. \A k \in LiveIn(w)' \ {key} : HoldCost'[k] = HoldCost[k]
        BY <2>3 DEF LiveIn
      <4>5. WsCeiling[w] \in Nat
        BY ConstantsAssumption
      <4> HIDE DEF K, E, key
      <4>6. SumFunctionOnSet(HoldCost', LiveIn(w)') < WsCeiling[w]
        BY <2>3, <2>5, <3>1, <4>1, <4>2, <4>3, <4>4, <4>5, RoomWasLeft
      <4>7. QED
        BY <4>6 DEF HeldMicros
    <3>2. CASE w # ws
      <4> DEFINE g == HoldCost'
                 R == LiveIn(w)'
      <4>1. R \in SUBSET LiveIn(w) /\ \A k \in R : g[k] = HoldCost[k]
        BY <2>1, <2>2, <2>3, <3>2 DEF LiveIn, HoldWorkspace
      <4>2. IsFiniteSet(LiveIn(w)) /\ IsFiniteSet(R) /\ \A k \in LiveIn(w) : HoldCost[k] \in Nat
        BY FinitenessAssumption, FS_Subset, CostTypes DEF LiveIn
      <4>3. HeldMicros(LiveIn(w))' = SumFunctionOnSet(g, R)
        BY DEF HeldMicros
      <4> HIDE DEF g, R
      <4>4. /\ SumFunctionOnSet(g, R) = SumFunctionOnSet(HoldCost, R)
            /\ SumFunctionOnSet(HoldCost, R) <= SumFunctionOnSet(HoldCost, LiveIn(w))
            /\ SumFunctionOnSet(HoldCost, R) \in Nat /\ SumFunctionOnSet(HoldCost, LiveIn(w)) \in Nat
        BY <4>1, <4>2, SumAgrees, SumOfPart
      <4>5. HeldMicros(LiveIn(w)) < WsCeiling[w] /\ WsCeiling[w] \in Nat
        BY <2>5, ConstantsAssumption DEF CostsBounded
      <4>6. QED
        BY <4>3, <4>4, <4>5 DEF HeldMicros
    <3>3. QED
      BY <3>1, <3>2
  <2>6. ASSUME OrgCeiling > 0 PROVE HeldMicros(LiveSomewhere)' < OrgCeiling
    <3>1. LiveSomewhere' \ {key} \subseteq tx[j].held
      BY <1>1, <2>1 DEF LiveSomewhere, LiveHoldsAreSeen
    <3>2. \A k \in LiveSomewhere' \ {key} : HoldCost'[k] = HoldCost[k]
      BY <2>3 DEF LiveSomewhere
    <3>3. ~CeilingReached(OrgCeiling, tx[j].spent, tx[j].held, j) /\ OrgCeiling \in Nat
      BY <1>1, ConstantsAssumption DEF Blocked
    <3> HIDE DEF key
    <3>4. SumFunctionOnSet(HoldCost', LiveSomewhere') < OrgCeiling
      BY <2>3, <2>4, <2>6, <3>1, <3>2, <3>3, RoomWasLeft
    <3>5. QED
      BY <3>4 DEF HeldMicros
  <2>7. QED
    BY <2>5, <2>6 DEF CostsBounded
<1>4. QED
  BY <1>2, <1>3 DEF Allow

(* The estimates of the live holds stay under the ceiling of their workspace *)
(* and of the organization (HeldCostWithinCeilings), whatever the costs, the *)
(* ceilings and the order in which reserves, settlements and crashes come.   *)
THEOREM HeldCostBound == Spec => []HeldCostWithinCeilings
<1>1. TypeOK /\ Init => OneTransaction /\ NowIsPast /\ LiveHoldsAreSeen /\ CostsBounded
  <2> SUFFICES ASSUME TypeOK, Init
               PROVE  OneTransaction /\ NowIsPast /\ LiveHoldsAreSeen /\ CostsBounded
    OBVIOUS
  <2>1. OneTransaction /\ NowIsPast /\ LiveHoldsAreSeen
    BY DEF Init, OneTransaction, NowIsPast, LiveHoldsAreSeen, InTransaction, NoTransaction
  <2>2. LiveSomewhere = {} /\ \A w \in Workspaces : LiveIn(w) = {}
    BY DEF Init, LiveIn, LiveSomewhere, Live, LiveAt, NoHold
  <2>3. CostsBounded
    BY <2>2, SumOfNone DEF CostsBounded, HeldMicros
  <2>4. QED
    BY <2>1, <2>3
<1>2. TypeOK /\ TypeOK' /\ LiveHoldsAreSeen /\ CostsBounded /\ [Next]_vars => CostsBounded'
  BY AllowKeepsCosts, FewerLiveCosts, HoldsOnlyEnd
<1>3. TypeOK /\ CostsBounded => HeldCostWithinCeilings
  BY CostsBoundedIsEnough
<1>4. QED
  BY <1>1, <1>2, <1>3, TypeCorrect, OneTransactionStep, NowIsPastStep, LiveHoldsAreSeenStep,
     PTL DEF Spec

-----------------------------------------------------------------------------
(* Work under one's own hold *)

(* What the lookup of the key found out stays true until the job has ended:  *)
(* the row of its key is missing or of its own workspace, and not missing    *)
(* once the job may spend.                                                   *)
OwnRow(j) ==
  /\ pc[j] \in InTransaction \cup InFlight => ~ForeignHold(j)
  /\ pc[j] \in InFlight => hold[KeyOf[j]].status # "NONE"

(* Outside of Allow, no row comes, goes or changes hands. *)
LEMMA RowsStay ==
  ASSUME TypeOK, [Next]_vars, ~ \E j \in Jobs : Allow(j), NEW k \in Keys
  PROVE  /\ hold'[k].job = hold[k].job
         /\ hold'[k].status = "NONE" <=> hold[k].status = "NONE"
<1>1. ASSUME NEW j \in Jobs, NEW status \in {"RECONCILED", "RELEASED"}, Settle(j, status)
      PROVE  /\ hold'[k].job = hold[k].job
             /\ hold'[k].status = "NONE" <=> hold[k].status = "NONE"
  <2>1. hold \in [Keys -> Holds] /\ KeyOf[j] \in Keys
    BY ConstantsAssumption DEF TypeOK
  <2>2. CASE hold' = hold
    BY <2>2
  <2>3. CASE hold[KeyOf[j]].status = "ACTIVE" /\ hold' = [hold EXCEPT ![KeyOf[j]].status = status]
    <3>1. CASE k = KeyOf[j]
      BY <2>1, <2>3, <3>1 DEF Holds
    <3>2. CASE k # KeyOf[j]
      BY <2>1, <2>3, <3>2
    <3>3. QED
      BY <3>1, <3>2
  <2>4. QED
    BY <1>1, <2>2, <2>3 DEF Settle
<1>2. ASSUME NEW j \in Jobs, FailBeforeSpend(j) \/ ProviderThrows(j) \/ Reconcile(j)
      PROVE  /\ hold'[k].job = hold[k].job
             /\ hold'[k].status = "NONE" <=> hold[k].status = "NONE"
  BY <1>1, <1>2 DEF FailBeforeSpend, ProviderThrows, Reconcile
<1>3. CASE Sweep
  BY <1>3 DEF Sweep, Expired, TypeOK, Holds
<1>4. CASE UNCHANGED hold
  BY <1>4
<1>5. QED
  BY <1>2, <1>3, <1>4 DEF Next, Call, AcquireLock, ReadSpend, ReadHolds, Refuse, CallProvider,
     RecordUsage, Crash, Tick, Quiescent, vars

(* Only the lookup brings a job into the transaction, and only Allow to work. *)
LEMMA WhoWorks ==
  ASSUME TypeOK, [Next]_vars, NEW i \in Jobs, ~Allow(i)
  PROVE  /\ pc'[i] \in InFlight => pc[i] \in InFlight
         /\ pc'[i] \in InTransaction => pc[i] \in InTransaction \/ AcquireLock(i)
<1> USE DEF TypeOK, InTransaction, InFlight
<1>1. ASSUME NEW j \in Jobs, Call(j) \/ AcquireLock(j) \/ ReadSpend(j) \/ ReadHolds(j) \/ Refuse(j)
      PROVE  /\ pc'[i] \in InFlight => pc[i] \in InFlight
             /\ pc'[i] \in InTransaction => pc[i] \in InTransaction \/ AcquireLock(i)
  BY <1>1 DEF Call, AcquireLock, ReadSpend, ReadHolds, Refuse
<1>2. ASSUME NEW j \in Jobs, Allow(j)
      PROVE  /\ pc'[i] \in InFlight => pc[i] \in InFlight
             /\ pc'[i] \in InTransaction => pc[i] \in InTransaction \/ AcquireLock(i)
  BY <1>2 DEF Allow
<1>3. ASSUME NEW j \in Jobs, CallProvider(j) \/ FailBeforeSpend(j) \/ ProviderThrows(j)
      PROVE  /\ pc'[i] \in InFlight => pc[i] \in InFlight
             /\ pc'[i] \in InTransaction => pc[i] \in InTransaction \/ AcquireLock(i)
  BY <1>3 DEF CallProvider, FailBeforeSpend, ProviderThrows
<1>4. ASSUME NEW j \in Jobs, RecordUsage(j) \/ Reconcile(j) \/ Crash(j)
      PROVE  /\ pc'[i] \in InFlight => pc[i] \in InFlight
             /\ pc'[i] \in InTransaction => pc[i] \in InTransaction \/ AcquireLock(i)
  BY <1>4 DEF RecordUsage, Reconcile, Crash
<1>5. CASE UNCHANGED pc
  BY <1>5
<1>6. QED
  BY <1>1, <1>2, <1>3, <1>4, <1>5 DEF Next, Tick, Sweep, Quiescent, vars

(* A job's row backs its work after every step, whoever takes it. *)
LEMMA OwnRowStep ==
  ASSUME TypeOK, OneTransaction, \A j \in Jobs : OwnRow(j), [Next]_vars, NEW i \in Jobs
  PROVE  OwnRow(i)'
<1>1. KeyOf[i] \in Keys
  BY ConstantsAssumption
<1>2. CASE \E j \in Jobs : Allow(j)
  <2>1. PICK j \in Jobs : Allow(j)
    BY <1>2
  <2>2. KeyOf[j] \in Keys /\ pc[j] \in InTransaction /\ pc'[j] = "allowed"
        /\ \A b \in Jobs \ {j} : pc'[b] = pc[b]
    BY <2>1, ConstantsAssumption DEF Allow, TypeOK, InTransaction
  <2>3. CASE hold[KeyOf[j]].status = "NONE"
    <3>1. hold' = [hold EXCEPT ![KeyOf[j]] =
                     [status |-> "ACTIVE", job |-> j, expiresAt |-> ExpiryOf(tx[j].now)]]
      BY <2>1, <2>3 DEF Allow
    <3>2. CASE i = j
      BY <2>2, <3>1, <3>2 DEF TypeOK, OwnRow, ForeignHold, HoldWorkspace
    <3>3. CASE i # j
      <4>1. pc[i] \notin InTransaction
        BY <2>2, <3>3 DEF OneTransaction
      <4>2. CASE pc[i] \in InFlight
        <5>1. KeyOf[i] # KeyOf[j]
          BY <2>3, <4>2 DEF OwnRow
        <5>2. hold'[KeyOf[i]] = hold[KeyOf[i]]
          BY <1>1, <3>1, <5>1 DEF TypeOK
        <5>3. QED
          BY <2>2, <3>3, <5>2 DEF OwnRow, ForeignHold, HoldWorkspace
      <4>3. QED
        BY <2>2, <3>3, <4>1, <4>2 DEF OwnRow
    <3>4. QED
      BY <3>2, <3>3
  <2>4. CASE hold[KeyOf[j]].status # "NONE"
    <3>1. hold' = hold
      BY <2>1, <2>4 DEF Allow
    <3>2. CASE i = j
      BY <2>2, <2>4, <3>1, <3>2 DEF OwnRow, ForeignHold, HoldWorkspace
    <3>3. CASE i # j
      BY <2>2, <3>1, <3>3 DEF OwnRow, ForeignHold, HoldWorkspace
    <3>4. QED
      BY <3>2, <3>3
  <2>5. QED
    BY <2>3, <2>4
<1>3. CASE ~ \E j \in Jobs : Allow(j)
  <2>1. /\ hold'[KeyOf[i]].job = hold[KeyOf[i]].job
        /\ hold'[KeyOf[i]].status = "NONE" <=> hold[KeyOf[i]].status = "NONE"
    BY <1>1, <1>3, RowsStay
  <2>2. ForeignHold(i)' <=> ForeignHold(i)
    BY <2>1 DEF ForeignHold, HoldWorkspace
  <2>3. /\ pc'[i] \in InFlight => pc[i] \in InFlight
        /\ pc'[i] \in InTransaction => pc[i] \in InTransaction \/ AcquireLock(i)
    BY <1>3, WhoWorks
  <2>4. AcquireLock(i) /\ pc'[i] \in InTransaction => ~ForeignHold(i)
    BY DEF AcquireLock, TypeOK, InTransaction
  <2>5. QED
    BY <2>1, <2>2, <2>3, <2>4 DEF OwnRow
<1>4. QED
  BY <1>2, <1>3

(* A job that works has a hold row, and the row is of its own tenant         *)
(* (WorkIsBackedByOwnHold), also when another tenant had the key first.      *)
THEOREM OwnHolds == Spec => []WorkIsBackedByOwnHold
<1> DEFINE Inv == OneTransaction /\ \A j \in Jobs : OwnRow(j)
<1>1. Init => Inv
  BY DEF Init, OneTransaction, OwnRow, InTransaction, InFlight
<1>2. TypeOK /\ Inv /\ [Next]_vars => Inv'
  BY OneTransactionStep, OwnRowStep
<1>3. Inv => WorkIsBackedByOwnHold
  BY DEF OwnRow, ForeignHold, WorkIsBackedByOwnHold
<1>4. QED
  <2> HIDE DEF Inv
  <2> QED BY <1>1, <1>2, <1>3, TypeCorrect, PTL DEF Spec

-----------------------------------------------------------------------------
(* The budget in one step *)

(* The live holds and their costs, by the two modules' names. *)
LEMMA SameBudget ==
  /\ Budget!Live = LiveSomewhere
  /\ \A w : Budget!LiveOf(w) = LiveIn(w)
  /\ \A K : Budget!Micros(K) = HeldMicros(K)
<1>1. Budget!Live = LiveSomewhere
  BY DEF Budget!Live, LiveSomewhere, Live, LiveAt
<1>2. \A w : Budget!LiveOf(w) = LiveIn(w)
  BY <1>1 DEF Budget!LiveOf, LiveSomewhere, LiveIn, HoldWorkspace
<1>3. \A K : Budget!Micros(K) = HeldMicros(K)
  BY DEF Budget!Micros, HeldMicros, HoldCost
<1>4. QED
  BY <1>1, <1>2, <1>3

(* A ceiling that is not reached by what was read leaves room beside what is *)
(* live now: what was spent only takes room away.                            *)
LEMMA CeilingLeavesRoom ==
  ASSUME TypeOK, NEW j \in Jobs, NEW E \in SUBSET UsageEvents, NEW K \in SUBSET Keys,
         NEW R \in SUBSET K, NEW ceiling \in Nat, ~CeilingReached(ceiling, E, K, j)
  PROVE  Budget!Fits(Cost[j], R, ceiling)
<1>1. SpentMicros(E) \in Nat /\ HeldMicros(K) \in Nat /\ Cost[j] \in Nat
  BY SpentMicrosType, HeldMicrosType, ConstantsAssumption
<1>2. IsFiniteSet(K) /\ \A k \in K : HoldCost[k] \in Nat
  BY FinitenessAssumption, FS_Subset, CostTypes
<1>3. HeldMicros(R) \in Nat /\ HeldMicros(R) <= HeldMicros(K)
  BY <1>2, SumOfPart DEF HeldMicros
<1>4. ceiling > 0 => HeldMicros(R) + Cost[j] < ceiling
  BY <1>1, <1>3 DEF CeilingReached
<1>5. QED
  BY <1>4, SameBudget DEF Budget!Fits

(* The decision is about what is live at the moment of the hold: the holds   *)
(* were read under the lock, at the time the job asked.                      *)
LEMMA AllowHasRoom ==
  ASSUME TypeOK, LiveHoldsAreSeen, NEW j \in Jobs, Allow(j)
  PROVE  Budget!Room(j)
<1> DEFINE w == WorkspaceOf[j]
           held == {k \in tx[j].held : HoldWorkspace(k) = w}
           spent == {e \in tx[j].spent : EventWorkspace(e) = w}
           counted == {k \in tx[j].held : CountedFor(w, HoldWorkspace(k))}
<1>1. /\ tx[j].held \in SUBSET Keys /\ tx[j].spent \in SUBSET UsageEvents
      /\ w \in Workspaces /\ pc[j] = "holdsRead" /\ ~Blocked(j)
      /\ WsCeiling[w] \in Nat /\ OrgCeiling \in Nat
  BY ConstantsAssumption DEF Allow, TypeOK, Snapshots
<1>2. LiveSomewhere \in SUBSET tx[j].held /\ LiveIn(w) \in SUBSET held
  BY <1>1 DEF LiveSomewhere, LiveIn, LiveHoldsAreSeen
<1>3. Budget!Fits(Cost[j], LiveIn(w), WsCeiling[w])
  <2>1. held \in SUBSET Keys /\ spent \in SUBSET UsageEvents
    BY <1>1
  <2>2. ~CeilingReached(WsCeiling[w], spent, held, j)
    BY <1>1 DEF Blocked
  <2> HIDE DEF held, spent, w
  <2>3. QED
    BY <1>1, <1>2, <2>1, <2>2, CeilingLeavesRoom
<1>4. Budget!Fits(Cost[j], LiveSomewhere, OrgCeiling)
  <2>1. ~CeilingReached(OrgCeiling, tx[j].spent, tx[j].held, j)
    BY <1>1 DEF Blocked
  <2>2. QED
    BY <1>1, <1>2, <2>1, CeilingLeavesRoom
<1>5. ASSUME MaxRequests(w) >= 0 PROVE Cardinality(LiveIn(w)) < MaxRequests(w)
  <2>1. Configured(MaxRequests(w)) /\ MaxRequests(w) \in Nat
    BY <1>1, <1>5, MaxRequestsType DEF Configured, NoRow, NoMax
  <2>2. ~(UsedRequests(w) + Cardinality(counted) + 1 > MaxRequests(w))
    BY <1>1, <2>1 DEF Blocked, OperationLimitReached, HeldRequests
  <2>3. IsFiniteSet(counted) /\ LiveIn(w) \subseteq counted
    <3>1. counted \subseteq Keys
      BY <1>1
    <3>2. LiveIn(w) \subseteq counted
      BY <1>2 DEF CountedFor
    <3>3. QED
      BY <3>1, <3>2, FinitenessAssumption, FS_Subset
  <2>4. /\ Cardinality(LiveIn(w)) <= Cardinality(counted) /\ UsedRequests(w) \in Nat
        /\ Cardinality(LiveIn(w)) \in Nat /\ Cardinality(counted) \in Nat
    BY <2>3, FS_Subset, FS_CardinalityType, UsedRequestsType
  <2> HIDE DEF counted
  <2>5. QED
    BY <2>1, <2>2, <2>4
<1>6. [v \in Workspaces |-> MaxRequests(v)][w] = MaxRequests(w)
  BY <1>1
<1>7. QED
  BY <1>3, <1>4, <1>5, <1>6, SameBudget DEF Budget!Room

(* Every step of a job, a sweep or the clock is one of the budget's or none. *)
LEMMA BudgetStep ==
  ASSUME TypeOK, NowIsPast, LiveHoldsAreSeen, [Next]_vars
  PROVE  [Budget!Next]_(Budget!vars)
<1> USE DEF Budget!vars
<1>1. CASE UNCHANGED <<hold, clock>>
  BY <1>1
<1>2. ASSUME NEW j \in Jobs, NEW status \in {"RECONCILED", "RELEASED"}, Settle(j, status),
             UNCHANGED clock
      PROVE  Budget!Settle(j) \/ UNCHANGED <<hold, clock>>
  BY <1>2 DEF Settle, HoldWorkspace, Budget!Settle
<1>3. ASSUME NEW j \in Jobs, FailBeforeSpend(j) \/ ProviderThrows(j) \/ Reconcile(j)
      PROVE  Budget!Settle(j) \/ UNCHANGED <<hold, clock>>
  BY <1>2, <1>3 DEF FailBeforeSpend, ProviderThrows, Reconcile
<1>4. ASSUME NEW j \in Jobs, Allow(j)
      PROVE  Budget!Reserve(j) \/ UNCHANGED <<hold, clock>>
  <2>1. CASE hold[KeyOf[j]].status = "NONE"
    <3>1. Budget!Room(j)
      BY <1>4, AllowHasRoom
    <3>2. tx[j].now \in 0 .. clock /\ ExpiryOf(tx[j].now) = tx[j].now + TTL
      BY DEF NowIsPast, TypeOK, Snapshots, ExpiryOf
    <3>3. UNCHANGED clock /\ hold' = [hold EXCEPT ![KeyOf[j]] =
             [status |-> "ACTIVE", job |-> j, expiresAt |-> tx[j].now + TTL]]
      BY <1>4, <2>1, <3>2 DEF Allow
    <3>4. QED
      BY <2>1, <3>1, <3>2, <3>3 DEF Budget!Reserve
  <2>2. CASE hold[KeyOf[j]].status # "NONE"
    BY <1>4, <2>2 DEF Allow
  <2>3. QED
    BY <2>1, <2>2
<1>5. CASE Sweep
  BY <1>5 DEF Sweep, Expired, Budget!ReleaseExpired, Budget!Next
<1>6. CASE Tick
  BY <1>6 DEF Tick, Budget!TimePasses, Budget!Next
<1>7. ASSUME NEW j \in Jobs,
             \/ Call(j) \/ AcquireLock(j) \/ ReadSpend(j) \/ ReadHolds(j) \/ Refuse(j)
             \/ CallProvider(j) \/ RecordUsage(j) \/ Crash(j)
      PROVE  UNCHANGED <<hold, clock>>
  BY <1>7 DEF Call, AcquireLock, ReadSpend, ReadHolds, Refuse, CallProvider, RecordUsage, Crash
<1>8. CASE Quiescent \/ UNCHANGED vars
  BY <1>8 DEF Quiescent, vars
<1>9. QED
  BY <1>1, <1>3, <1>4, <1>5, <1>6, <1>7, <1>8 DEF Next, Budget!Next

(* reserve() with its lock, its separate reads, its crashes and redeliveries *)
(* is a budget that finds room and holds it in one step                      *)
(* (ImplementsAtomicBudget), whatever the limits, costs and lives of holds.  *)
THEOREM BudgetIsAtomic == Spec => ImplementsAtomicBudget
<1>1. Init => Budget!Init
  BY DEF Init, NoHold, Budget!Init
<1>2. TypeOK /\ Init => OneTransaction /\ NowIsPast /\ LiveHoldsAreSeen
  BY DEF Init, OneTransaction, NowIsPast, LiveHoldsAreSeen, InTransaction, NoTransaction
<1>3. TypeOK /\ NowIsPast /\ LiveHoldsAreSeen /\ [Next]_vars => [Budget!Next]_(Budget!vars)
  BY BudgetStep
<1>4. QED
  BY <1>1, <1>2, <1>3, TypeCorrect, OneTransactionStep, NowIsPastStep, LiveHoldsAreSeenStep,
     PTL DEF Spec, ImplementsAtomicBudget, Budget!Spec

-----------------------------------------------------------------------------
(* Billing: types, and what requests are about *)
(* Nobody has read a billing period that has not begun. *)
PeriodsArePast ==
  /\ time <= MaxTime /\ provider.period <= time
  /\ \A c \in Callers : call[c].remote.period <= time

(* What a request is about fits what it does. *)
CallFits(c) ==
  /\ At(c, "idle") => call[c] = NoCall
  /\ call[c].stage \in {"load", "charge", "reissue"} => call[c].about \in ChargeKeys
  /\ call[c].stage \in Handling => call[c].about \in Events
  /\ At(c, "log") => /\ call[c].lot \in Lots
                     /\ call[c].about \in Events \/ (~call[c].webhook /\ call[c].about = Nothing)
  /\ call[c].webhook => call[c].stage \in Handling \cup {"log"}

(* The blank rows and calls are rows and calls. *)
LEMMA BlankTypes == NoLot \in Rows /\ NoSubscription \in Subscriptions /\ NoCall \in Calls
<1> USE BillingConstants
<1>1. NoLot \in Rows
  BY DEF NoLot, Rows, NoKey, Never
<1>2. NoSubscription \in Subscriptions
  BY DEF NoSubscription, Subscriptions, SubscriptionStatus
<1>3. NoCall \in Calls
  BY <1>1, <1>2 DEF NoCall, Calls, CallStages
<1>4. QED
  BY <1>1, <1>2, <1>3

(* What a step writes to the call of one request. *)
LEMMA CallReplaced ==
  ASSUME call \in [Callers -> Calls], NEW c \in Callers, NEW r \in Calls,
         call' = [call EXCEPT ![c] = r]
  PROVE  /\ call' \in [Callers -> Calls] /\ call'[c] = r
         /\ \A b \in Callers \ {c} : call'[b] = call[b]
  OBVIOUS

LEMMA GotoEffect ==
  ASSUME call \in [Callers -> Calls], NEW c \in Callers, NEW stage \in CallStages, Goto(c, stage)
  PROVE  /\ call' \in [Callers -> Calls] /\ call'[c] = [call[c] EXCEPT !.stage = stage]
         /\ \A b \in Callers \ {c} : call'[b] = call[b]
         /\ call'[c].stage = stage
         /\ call'[c].about = call[c].about /\ call'[c].webhook = call[c].webhook
         /\ call'[c].now = call[c].now /\ call'[c].seen = call[c].seen
         /\ call'[c].remote = call[c].remote /\ call'[c].behind = call[c].behind
         /\ call'[c].lot = call[c].lot
<1>1. [call[c] EXCEPT !.stage = stage] \in Calls /\ call[c] \in Calls
  BY DEF Calls
<1>2. call' = [call EXCEPT ![c] = [call[c] EXCEPT !.stage = stage]]
  BY DEF Goto
<1>3. QED
  BY <1>1, <1>2, CallReplaced DEF Calls

LEMMA EndEffect ==
  ASSUME call \in [Callers -> Calls], NEW c \in Callers, End(c)
  PROVE  /\ call' \in [Callers -> Calls] /\ call'[c] = NoCall
         /\ \A b \in Callers \ {c} : call'[b] = call[b]
  BY BlankTypes DEF End

(* A request opened for a key, or delivered with an event. *)
LEMMA OpenedCall ==
  ASSUME NEW stage \in CallStages, NEW about \in ChargeKeys \cup Events, NEW webhook \in BOOLEAN,
         NEW now \in Nat
  PROVE  [NoCall EXCEPT !.stage = stage, !.about = about, !.webhook = webhook, !.now = now] \in Calls
  BY BlankTypes DEF Calls

(* The shape of the state, the past of the periods, and every request fits. *)
TypesAndCalls == BillingTypeOK /\ PeriodsArePast /\ \A c \in Callers : CallFits(c)

(* The smaller of two numbers is one of them. *)
LEMMA MinOfTwo ==
  ASSUME NEW m \in Int, NEW n \in Int
  PROVE  Min({m, n}) \in {m, n} /\ Min({m, n}) <= m /\ Min({m, n}) <= n
<1>1. \E x \in {m, n} : \A y \in {m, n} : x <= y
  OBVIOUS
<1>2. QED
  BY <1>1 DEF Min

(* A plan takes a natural number from each lot. *)
LEMMA OutstandingType ==
  ASSUME NEW rows \in [Lots -> Rows], NEW now \in Nat, NEW amount \in Nat, NEW l
  PROVE  Outstanding(rows, now, amount, l) \in Int
<1> DEFINE f == [m \in Lots |-> rows[m].remaining]
           S == {m \in Spendable(rows, now) : Before(rows, m, l)}
<1>1. S \subseteq Lots /\ IsFiniteSet(Lots)
  BY BillingConstants, FS_Interval DEF Spendable, Lots
<1>2. \A m \in Lots : f[m] \in Int
  BY DEF Rows
<1>3. IsFiniteSet(S) /\ \A m \in S : f[m] \in Int
  BY <1>1, <1>2, FS_Subset
<1> HIDE DEF f, S
<1>4. SumFunctionOnSet(f, S) \in Int
  BY <1>3, SumIsInt
<1>5. Outstanding(rows, now, amount, l) = amount - SumFunctionOnSet(f, S)
  BY DEF Outstanding, f, S
<1>6. QED
  BY <1>4, <1>5

LEMMA TakeType ==
  ASSUME NEW rows \in [Lots -> Rows], NEW now \in Nat, NEW amount \in Nat, NEW l \in Lots
  PROVE  /\ Take(rows, now, amount, l) \in Nat
         /\ rows[l].remaining = 0 => Take(rows, now, amount, l) = 0
<1>1. Outstanding(rows, now, amount, l) \in Int
  BY OutstandingType
<1>2. rows[l].remaining \in Int
  BY DEF Rows
<1>3. CASE l \in Spendable(rows, now) /\ Outstanding(rows, now, amount, l) > 0
  <2>1. rows[l].remaining > 0
    BY <1>3 DEF Spendable
  <2>2. Take(rows, now, amount, l) = Min({rows[l].remaining, Outstanding(rows, now, amount, l)})
    BY <1>3 DEF Take
  <2>3. Take(rows, now, amount, l) \in {rows[l].remaining, Outstanding(rows, now, amount, l)}
    BY <1>1, <1>2, <2>2, MinOfTwo
  <2>4. QED
    BY <1>1, <1>2, <1>3, <2>1, <2>3
<1>4. CASE ~(l \in Spendable(rows, now) /\ Outstanding(rows, now, amount, l) > 0)
  BY <1>4 DEF Take
<1>5. QED
  BY <1>3, <1>4

(* What a charge plans and spends. *)
LEMMA SpentType ==
  ASSUME TypesAndCalls, NEW c \in Callers, At(c, "charge")
  PROVE  /\ Spent(c) \in Nat /\ \A l \in Lots : Planned(c, l) \in Nat
         /\ \A l \in Lots : call[c].seen[l].remaining = 0 => Planned(c, l) = 0
         /\ Spent(c) = SumFunctionOnSet([l \in Lots |-> Planned(c, l)], Lots)
<1>1. call[c] \in Calls /\ call[c].about \in ChargeKeys
  BY DEF TypesAndCalls, BillingTypeOK, CallFits, At
<1>2. call[c].seen \in [Lots -> Rows] /\ call[c].now \in Nat /\ Amount[call[c].about] \in Nat
  BY <1>1, BillingConstants DEF Calls
<1>3. \A l \in Lots : /\ Planned(c, l) \in Nat
                      /\ call[c].seen[l].remaining = 0 => Planned(c, l) = 0
  BY <1>2, TakeType DEF Planned
<1>4. IsFiniteSet(Lots)
  BY BillingConstants, FS_Interval DEF Lots
<1> DEFINE f == [l \in Lots |-> Planned(c, l)]
<1>5. (\A l \in Lots : f[l] \in Nat) /\ DOMAIN f = Lots
  BY <1>3
<1>6. Spent(c) = SumFunctionOnSet(f, Lots)
  BY DEF Spent, SumFunction
<1> HIDE DEF f
<1>7. SumFunctionOnSet(f, Lots) \in Nat
  BY <1>4, <1>5, SumOfPart
<1>8. QED
  BY <1>3, <1>6, <1>7 DEF f

(* The rows after a charge, and after a lot is granted. *)
LEMMA DeductedType ==
  ASSUME TypesAndCalls, NEW c \in Callers, At(c, "charge")
  PROVE  Deducted(c) \in [Lots -> Rows]
<1>1. ASSUME NEW l \in Lots PROVE [lot[l] EXCEPT !.remaining = @ - Planned(c, l)] \in Rows
  <2>1. lot[l] \in Rows /\ Planned(c, l) \in Nat
    BY SpentType DEF TypesAndCalls, BillingTypeOK
  <2>2. QED
    BY <2>1 DEF Rows
<1>2. QED
  BY <1>1 DEF Deducted

LEMMA NewLotType ==
  ASSUME lot \in [Lots -> Rows], NEW source \in {"MONTHLY_ALLOWANCE", "MANUAL", "REVERSAL"},
         NEW amount \in Nat, NEW expiresAt \in 0 .. Never,
         NEW grantKey \in (Plans \X Nat) \cup {NoKey},
         NewLot(source, amount, expiresAt, grantKey)
  PROVE  lot' \in [Lots -> Rows] /\ NextLot \in Lots
<1>1. [source |-> source, amount |-> amount, remaining |-> amount,
       expiresAt |-> expiresAt, grantKey |-> grantKey] \in Rows
  BY DEF Rows
<1>2. QED
  BY <1>1 DEF NewLot

(* The steps that touch calls and credits only. *)
LEMMA CreditStepType ==
  ASSUME TypesAndCalls, NEW c \in Callers, CreditStep(c)
  PROVE  BillingTypeOK'
<1> USE DEF TypesAndCalls, BillingTypeOK
<1>1. ASSUME NEW k \in ChargeKeys, Replay(c, k) PROVE BillingTypeOK'
  BY <1>1 DEF Replay, billed
<1>2. ASSUME NEW k \in ChargeKeys, Consume(c, k) \/ Reverse(c, k) PROVE BillingTypeOK'
  <2>1. PICK stage \in {"load", "reissue"} : Open(c, stage, k) /\ UNCHANGED credits
    BY <1>2 DEF Consume, Reverse
  <2>2. [NoCall EXCEPT !.stage = stage, !.about = k, !.now = time] \in Calls
    BY BlankTypes DEF Calls, CallStages
  <2>3. call' \in [Callers -> Calls]
    BY <2>1, <2>2 DEF Open
  <2>4. QED
    BY <2>1, <2>3 DEF Open, credits, billed
<1>3. CASE Load(c)
  <2>1. [call[c] EXCEPT !.stage = "charge", !.seen = lot] \in Calls
    BY DEF Calls, CallStages
  <2>2. call' = [call EXCEPT ![c] = [call[c] EXCEPT !.stage = "charge", !.seen = lot]]
    BY <1>3 DEF Load
  <2>3. call' \in [Callers -> Calls]
    BY <2>1, <2>2
  <2>4. QED
    BY <1>3, <2>3 DEF Load, billed, credits, counters
<1>4. CASE Charge(c)
  <2>1. call' \in [Callers -> Calls]
    BY <1>4, EndEffect DEF Charge
  <2>2. Spent(c) \in Nat /\ Deducted(c) \in [Lots -> Rows] /\ call[c].about \in ChargeKeys
    BY <1>4, SpentType, DeductedType DEF Charge, CallFits, At
  <2>3. CASE Duplicate(c)
    BY <1>4, <2>1, <2>3 DEF Charge, billed, credits, counters
  <2>4. CASE ~Duplicate(c)
    <3>1. charged' \in [ChargeKeys -> Nat] /\ told' \in [ChargeKeys -> SUBSET Nat]
      BY <1>4, <2>2, <2>4 DEF Charge, Entry
    <3>2. lot' = Deducted(c) /\ UNCHANGED <<logged, billed, counters>>
      BY <1>4, <2>4 DEF Charge
    <3>3. QED
      BY <2>1, <2>2, <3>1, <3>2 DEF billed, counters
  <2>5. QED
    BY <2>3, <2>4
<1>5. CASE Reissue(c)
  <2>1. call' \in [Callers -> Calls]
    BY <1>5, EndEffect DEF Reissue
  <2>2. charged[call[c].about] \in Nat
    BY <1>5 DEF Reissue, CallFits, At
  <2>3. Never \in 0 .. Never
    BY BillingConstants DEF Never
  <2>4. lot' \in [Lots -> Rows] /\ NextLot \in Lots
    BY <1>5, <2>2, <2>3, NewLotType DEF Reissue
  <2>5. QED
    BY <1>5, <2>1, <2>4 DEF Reissue, billed, counters
<1>6. CASE GrantCredits(c)
  <2>1. PICK expiresAt \in {Never, time + 1} : NewLot("MANUAL", Gift, expiresAt, NoKey)
    BY <1>6 DEF GrantCredits
  <2>2. expiresAt \in 0 .. Never /\ Gift \in Nat
    BY BillingConstants DEF Never, PeriodsArePast
  <2>3. lot' \in [Lots -> Rows] /\ NextLot \in Lots
    BY <2>1, <2>2, NewLotType
  <2>4. [call[c] EXCEPT !.stage = "log", !.lot = NextLot] \in Calls
    BY <2>3 DEF Calls, CallStages
  <2>5. call' = [call EXCEPT ![c] = [call[c] EXCEPT !.stage = "log", !.lot = NextLot]]
    BY <1>6 DEF GrantCredits
  <2>6. call' \in [Callers -> Calls]
    BY <2>4, <2>5
  <2>7. QED
    BY <1>6, <2>3, <2>6 DEF GrantCredits, billed
<1>7. CASE Log(c)
  <2>1. call' \in [Callers -> Calls]
    BY <1>7, GotoEffect, EndEffect DEF Log, CallStages, Handling
  <2>2. call[c].lot \in Lots
    BY <1>7 DEF Log, CallFits
  <2>3. QED
    BY <1>7, <2>1, <2>2 DEF Log, billed, counters
<1>8. QED
  BY <1>1, <1>2, <1>3, <1>4, <1>5, <1>6, <1>7 DEF CreditStep

LEMMA SetEventType ==
  ASSUME event \in [Events -> EventStatus], NEW c, NEW status \in EventStatus, SetEvent(c, status)
  PROVE  event' \in [Events -> EventStatus]
  BY DEF SetEvent

LEMMA FetchedCall ==
  ASSUME NEW r \in Calls, NEW s \in Subscriptions
  PROVE  [r EXCEPT !.stage = "upsert", !.remote = s] \in Calls
  BY DEF Calls, CallStages, Handling

(* The steps of the webhook handler. *)
LEMMA WebhookStepType ==
  ASSUME TypesAndCalls, NEW c \in Callers, WebhookStep(c)
  PROVE  BillingTypeOK'
<1> USE DEF TypesAndCalls, BillingTypeOK
<1>1. ASSUME NEW e \in Events, Deliver(c, e) PROVE BillingTypeOK'
  <2>1. [NoCall EXCEPT !.stage = "record", !.about = e, !.webhook = TRUE] \in Calls
    BY BlankTypes DEF Calls, CallStages, Handling
  <2>2. call' \in [Callers -> Calls]
    BY <1>1, <2>1 DEF Deliver
  <2>3. QED
    BY <1>1, <2>2 DEF Deliver, billed, credits
<1>2. CASE Record(c)
  <2>1. call' \in [Callers -> Calls]
    BY <1>2, GotoEffect DEF Record, CallStages, Handling
  <2>2. event' \in [Events -> EventStatus]
    BY <1>2, SetEventType DEF Record, EventStatus
  <2>3. QED
    BY <1>2, <2>1, <2>2 DEF Record, credits, counters
<1>3. CASE Fetch(c)
  <2>1. [call[c] EXCEPT !.stage = "upsert", !.remote = provider] \in Calls
    BY FetchedCall
  <2>2. call' = [call EXCEPT ![c] = [call[c] EXCEPT !.stage = "upsert", !.remote = provider]]
    BY <1>3 DEF Fetch
  <2>3. call' \in [Callers -> Calls]
    BY <2>1, <2>2
  <2>4. QED
    BY <1>3, <2>3 DEF Fetch, billed, credits, counters
<1>4. CASE Upsert(c)
  <2>1. ASSUME NEW b \in Callers PROVE call'[b] \in Calls
    <3>1. call[b] \in Calls /\ call[c] \in Calls
      OBVIOUS
    <3>2. /\ [call[b] EXCEPT !.behind = TRUE] \in Calls
          /\ [call[c] EXCEPT !.stage = "allowance"] \in Calls
          /\ [call[c] EXCEPT !.stage = "close"] \in Calls
      BY <3>1 DEF Calls, CallStages, Handling
    <3>3. QED
      BY <1>4, <3>1, <3>2 DEF Upsert
  <2>2. call' \in [Callers -> Calls]
    BY <1>4, <2>1 DEF Upsert
  <2>3. sub' \in [status : SubscriptionStatus, plan : Plans, period : Nat, failed : BOOLEAN]
    BY <1>4 DEF Upsert, Written, Calls, Subscriptions
  <2>4. lateSync' \in BOOLEAN
    BY <1>4 DEF Upsert, Calls
  <2>5. QED
    BY <1>4, <2>2, <2>3, <2>4 DEF Upsert, credits, counters
<1>5. CASE AllowanceFind(c)
  <2>1. call' \in [Callers -> Calls]
    BY <1>5, GotoEffect DEF AllowanceFind, CallStages, Handling
  <2>2. QED
    BY <1>5, <2>1 DEF AllowanceFind, billed, credits, counters
<1>6. CASE AllowanceCreate(c)
  <2>1. CASE GrantedUnder(GrantKey(c))
    <3>1. call' \in [Callers -> Calls]
      BY <1>6, <2>1, GotoEffect DEF AllowanceCreate, CallStages, Handling
    <3>2. QED
      BY <1>6, <2>1, <3>1 DEF AllowanceCreate, billed, counters
  <2>2. CASE ~GrantedUnder(GrantKey(c))
    <3>1. call[c].remote.plan \in Plans /\ call[c].remote.period \in Nat
      BY DEF Calls, Subscriptions
    <3>2. call[c].remote.period + 1 \in 0 .. Never
      BY <3>1, BillingConstants DEF PeriodsArePast, Never
    <3>3. lot' \in [Lots -> Rows] /\ NextLot \in Lots
      BY <1>6, <2>2, <3>1, <3>2, NewLotType, BillingConstants DEF AllowanceCreate, GrantKey
    <3>4. [call[c] EXCEPT !.stage = "log", !.lot = NextLot] \in Calls
      BY <3>3 DEF Calls, CallStages
    <3>5. call' = [call EXCEPT ![c] = [call[c] EXCEPT !.stage = "log", !.lot = NextLot]]
      BY <1>6, <2>2 DEF AllowanceCreate
    <3>6. call' \in [Callers -> Calls]
      BY <3>4, <3>5
    <3>7. QED
      BY <1>6, <3>3, <3>6 DEF AllowanceCreate, billed, counters
  <2>3. QED
    BY <2>1, <2>2
<1>7. CASE Invoice(c)
  <2>1. call' \in [Callers -> Calls]
    BY <1>7, GotoEffect DEF Invoice, CallStages, Handling
  <2>2. sub' \in [status : SubscriptionStatus, plan : Plans, period : Nat, failed : BOOLEAN]
    BY <1>7 DEF Invoice
  <2>3. QED
    BY <1>7, <2>1, <2>2 DEF Invoice, credits, counters
<1>8. CASE Close(c)
  <2>1. call' \in [Callers -> Calls]
    BY <1>8, EndEffect DEF Close
  <2>2. Outcome[call[c].stage] \in EventStatus
    BY <1>8 DEF Close, Outcome, EventStatus
  <2>3. event' \in [Events -> EventStatus]
    BY <1>8, <2>2, SetEventType DEF Close
  <2>4. QED
    BY <1>8, <2>1, <2>3 DEF Close, credits, counters
<1>9. QED
  BY <1>1, <1>2, <1>3, <1>4, <1>5, <1>6, <1>7, <1>8 DEF WebhookStep

(* Failures, the provider and time. *)
LEMMA OutsideStepType ==
  ASSUME TypesAndCalls,
         \/ \E c \in Callers : Throw(c) \/ RequestDies(c)
         \/ \E e \in Events : ProviderMoves(e) \/ ProviderSends(e)
         \/ TimePasses \/ UNCHANGED billingVars
  PROVE  BillingTypeOK'
<1> USE DEF TypesAndCalls, BillingTypeOK
<1>1. ASSUME NEW c \in Callers, Throw(c) PROVE BillingTypeOK'
  <2>1. call' \in [Callers -> Calls]
    BY <1>1, GotoEffect DEF Throw, CallStages, Handling
  <2>2. QED
    BY <1>1, <2>1 DEF Throw, Failure, billed, credits
<1>2. ASSUME NEW c \in Callers, RequestDies(c) PROVE BillingTypeOK'
  <2>1. call' \in [Callers -> Calls]
    BY <1>2, EndEffect DEF RequestDies
  <2>2. QED
    BY <1>2, <2>1 DEF RequestDies, Failure, billed, credits
<1>3. ASSUME NEW e \in Events, ProviderMoves(e) PROVE BillingTypeOK'
  <2>1. provider' \in Subscriptions
    BY <1>3 DEF ProviderMoves, Subscriptions, SubscriptionStatus
  <2>2. <<provider'.plan, provider'.period>> \in Plans \X Nat
    BY <2>1 DEF Subscriptions
  <2>3. event' \in [Events -> EventStatus] /\ subscribed' \subseteq Plans \X Nat
    BY <1>3, <2>2 DEF ProviderMoves, EventStatus
  <2>4. QED
    BY <1>3, <2>1, <2>3 DEF ProviderMoves, credits, counters
<1>4. ASSUME NEW e \in Events, ProviderSends(e) PROVE BillingTypeOK'
  BY <1>4 DEF ProviderSends, credits, counters, EventStatus
<1>5. CASE TimePasses
  BY <1>5 DEF TimePasses, billed, credits
<1>6. CASE UNCHANGED billingVars
  BY <1>6 DEF billingVars, billed, credits, counters
<1>7. QED
  BY <1>1, <1>2, <1>3, <1>4, <1>5, <1>6

(* What a request that has created a lot goes on with. *)
LEMMA LotCreatedEffect ==
  ASSUME call \in [Callers -> Calls], NEW c \in Callers,
         call' = [call EXCEPT ![c].stage = "log", ![c].lot = NextLot]
  PROVE  /\ \A b \in Callers \ {c} : call'[b] = call[b]
         /\ call'[c].stage = "log" /\ call'[c].lot = NextLot
         /\ call'[c].about = call[c].about /\ call'[c].webhook = call[c].webhook
         /\ call'[c].now = call[c].now /\ call'[c].seen = call[c].seen
         /\ call'[c].remote = call[c].remote /\ call'[c].behind = call[c].behind
<1>1. /\ call'[c] = [call[c] EXCEPT !.stage = "log", !.lot = NextLot]
      /\ \A b \in Callers \ {c} : call'[b] = call[b]
  OBVIOUS
<1>2. call[c] \in Calls
  OBVIOUS
<1>3. QED
  BY <1>1, <1>2 DEF Calls

(* A request that a step leaves alone stays fit. *)
LEMMA CallStaysFit ==
  ASSUME NEW b, CallFits(b), call'[b] = call[b]
  PROVE  CallFits(b)'
  BY DEF CallFits, At

(* An ended call, and one that only moves on, stay fit. *)
LEMMA EndedIsFit ==
  ASSUME call \in [Callers -> Calls], NEW c \in Callers, End(c), \A b \in Callers : CallFits(b)
  PROVE  \A b \in Callers : CallFits(b)'
<1>1. call'[c] = NoCall /\ \A b \in Callers \ {c} : call'[b] = call[b]
  BY EndEffect
<1>2. CallFits(c)'
  BY <1>1 DEF CallFits, At, NoCall, Handling
<1>3. QED
  BY <1>1, <1>2, CallStaysFit

LEMMA HandlingStaysFit ==
  ASSUME call \in [Callers -> Calls], NEW c \in Callers, NEW stage \in Handling, Goto(c, stage),
         call[c].about \in Events, \A b \in Callers : CallFits(b)
  PROVE  \A b \in Callers : CallFits(b)'
<1>1. /\ call'[c].stage = stage /\ call'[c].about = call[c].about
      /\ \A b \in Callers \ {c} : call'[b] = call[b]
  BY GotoEffect DEF CallStages
<1>2. CallFits(c)'
  BY <1>1 DEF CallFits, At, Handling
<1>3. QED
  BY <1>1, <1>2, CallStaysFit

(* Every step leaves every request fit. *)
LEMMA CallFitsStep ==
  ASSUME TypesAndCalls, [BillingNext]_billingVars
  PROVE  \A b \in Callers : CallFits(b)'
<1> DEFINE AllFit == \A b \in Callers : CallFits(b)
<1>1. AllFit /\ call \in [Callers -> Calls] /\ lot \in [Lots -> Rows]
  BY DEF TypesAndCalls, BillingTypeOK
<1>2. ASSUME NEW c \in Callers, CreditStep(c) PROVE AllFit'
  <2>1. ASSUME NEW k \in ChargeKeys, Replay(c, k) PROVE AllFit'
    BY <1>1, <2>1, CallStaysFit DEF Replay
  <2>2. ASSUME NEW k \in ChargeKeys, Consume(c, k) \/ Reverse(c, k) PROVE AllFit'
    <3>1. PICK stage \in {"load", "reissue"} : Open(c, stage, k)
      BY <2>2 DEF Consume, Reverse
    <3>2. call' = [call EXCEPT ![c] = [NoCall EXCEPT !.stage = stage, !.about = k, !.now = time]]
      BY <3>1 DEF Open
    <3>3. CallFits(c)'
      BY <1>1, <3>2 DEF CallFits, At, NoCall, Handling
    <3>4. QED
      BY <1>1, <3>2, <3>3, CallStaysFit
  <2>3. CASE Load(c)
    <3>1. call'[c] = [call[c] EXCEPT !.stage = "charge", !.seen = lot]
          /\ \A b \in Callers \ {c} : call'[b] = call[b]
      BY <1>1, <2>3 DEF Load
    <3>2. call'[c].stage = "charge" /\ call'[c].about = call[c].about
          /\ call'[c].webhook = call[c].webhook
      BY <1>1, <3>1 DEF Calls
    <3>3. call[c].stage = "load" /\ CallFits(c)
      BY <1>1, <2>3 DEF Load, At
    <3>4. CallFits(c)'
      BY <3>2, <3>3 DEF CallFits, At, Handling
    <3>5. QED
      BY <1>1, <3>1, <3>4, CallStaysFit
  <2>4. CASE Charge(c) \/ Reissue(c)
    BY <1>1, <2>4, EndedIsFit DEF Charge, Reissue
  <2>5. CASE GrantCredits(c)
    <3>1. call'[c] = [call[c] EXCEPT !.stage = "log", !.lot = NextLot] /\ call[c] = NoCall
          /\ (\A b \in Callers \ {c} : call'[b] = call[b]) /\ NextLot \in Lots
      BY <1>1, <2>5 DEF GrantCredits, NewLot, CallFits
    <3>2. call'[c].stage = "log" /\ call'[c].lot = NextLot /\ ~call'[c].webhook
          /\ call'[c].about = Nothing
      BY <3>1 DEF NoCall
    <3>3. CallFits(c)'
      BY <3>1, <3>2 DEF CallFits, At, Handling
    <3>4. QED
      BY <1>1, <3>1, <3>3, CallStaysFit
  <2>6. CASE Log(c)
    <3>1. CASE call[c].webhook
      BY <1>1, <2>6, <3>1, HandlingStaysFit DEF Log, CallFits, Handling
    <3>2. CASE ~call[c].webhook
      BY <1>1, <2>6, <3>2, EndedIsFit DEF Log
    <3>3. QED
      BY <3>1, <3>2
  <2>7. QED
    BY <1>2, <2>1, <2>2, <2>3, <2>4, <2>5, <2>6 DEF CreditStep
<1>3. ASSUME NEW c \in Callers, WebhookStep(c) PROVE AllFit'
  <2>1. ASSUME NEW e \in Events, Deliver(c, e) PROVE AllFit'
    <3>1. call' = [call EXCEPT ![c] = [NoCall EXCEPT !.stage = "record", !.about = e,
                                                     !.webhook = TRUE]]
      BY <2>1 DEF Deliver
    <3>2. CallFits(c)'
      BY <1>1, <3>1 DEF CallFits, At, NoCall, Handling
    <3>3. QED
      BY <1>1, <3>1, <3>2, CallStaysFit
  <2>2. CASE Record(c)
    BY <1>1, <2>2, HandlingStaysFit DEF Record, CallFits, At, Handling
  <2>3. CASE Fetch(c)
    <3>1. call'[c] = [call[c] EXCEPT !.stage = "upsert", !.remote = provider]
          /\ \A b \in Callers \ {c} : call'[b] = call[b]
      BY <1>1, <2>3 DEF Fetch
    <3>2. call'[c].stage = "upsert" /\ call'[c].about = call[c].about
      BY <1>1, <3>1 DEF Calls
    <3>3. call[c].stage = "fetch" /\ CallFits(c)
      BY <1>1, <2>3 DEF Fetch, At
    <3>4. CallFits(c)'
      BY <3>2, <3>3 DEF CallFits, At, Handling
    <3>5. QED
      BY <1>1, <3>1, <3>4, CallStaysFit
  <2>4. CASE Upsert(c)
    <3>1. call[c].stage = "upsert" /\ CallFits(c)
      BY <1>1, <2>4 DEF Upsert, At
    <3>2. ASSUME NEW b \in Callers PROVE CallFits(b)'
      <4>1. CASE b = c
        <5>1. call'[c].stage \in {"allowance", "close"} /\ call'[c].about = call[c].about
          BY <1>1, <2>4 DEF Upsert, Calls
        <5>2. QED
          BY <3>1, <4>1, <5>1 DEF CallFits, At, Handling
      <4>2. CASE b # c /\ At(b, "upsert")
        <5>1. call'[b].stage = "upsert" /\ call'[b].about = call[b].about
          BY <1>1, <2>4, <4>2 DEF Upsert, Calls, At
        <5>2. QED
          BY <1>1, <4>2, <5>1 DEF CallFits, At, Handling
      <4>3. CASE b # c /\ ~At(b, "upsert")
        BY <1>1, <2>4, <4>3, CallStaysFit DEF Upsert
      <4>4. QED
        BY <4>1, <4>2, <4>3
    <3>3. QED
      BY <3>2
  <2>5. CASE AllowanceFind(c)
    BY <1>1, <2>5, HandlingStaysFit DEF AllowanceFind, CallFits, At, Handling
  <2>6. CASE AllowanceCreate(c)
    <3>1. CASE GrantedUnder(GrantKey(c))
      BY <1>1, <2>6, <3>1, HandlingStaysFit DEF AllowanceCreate, CallFits, At, Handling
    <3>2. CASE ~GrantedUnder(GrantKey(c))
      <4>1. call'[c] = [call[c] EXCEPT !.stage = "log", !.lot = NextLot]
            /\ (\A b \in Callers \ {c} : call'[b] = call[b]) /\ NextLot \in Lots
        BY <1>1, <2>6, <3>2 DEF AllowanceCreate, NewLot
      <4>2. call'[c].stage = "log" /\ call'[c].lot = NextLot /\ call'[c].about = call[c].about
        BY <1>1, <4>1 DEF Calls
      <4>3. call[c].about \in Events
        BY <1>1, <2>6 DEF AllowanceCreate, CallFits, At, Handling
      <4>4. CallFits(c)'
        BY <4>1, <4>2, <4>3 DEF CallFits, At, Handling
      <4>5. QED
        BY <1>1, <4>1, <4>4, CallStaysFit
    <3>3. QED
      BY <3>1, <3>2
  <2>7. CASE Invoice(c)
    BY <1>1, <2>7, HandlingStaysFit DEF Invoice, CallFits, At, Handling
  <2>8. CASE Close(c)
    BY <1>1, <2>8, EndedIsFit DEF Close
  <2>9. QED
    BY <1>3, <2>1, <2>2, <2>3, <2>4, <2>5, <2>6, <2>7, <2>8 DEF WebhookStep
<1>4. ASSUME NEW c \in Callers, Throw(c) PROVE AllFit'
  BY <1>1, <1>4, HandlingStaysFit DEF Throw, CallFits, At, Handling
<1>5. ASSUME NEW c \in Callers, RequestDies(c) PROVE AllFit'
  BY <1>1, <1>5, EndedIsFit DEF RequestDies
<1>6. CASE UNCHANGED call
  BY <1>1, <1>6, CallStaysFit
<1>7. QED
  BY <1>2, <1>3, <1>4, <1>5, <1>6 DEF BillingNext, ProviderMoves, ProviderSends, TimePasses,
     billingVars

(* What one step may do to what a request has read, and how a request comes  *)
(* to grant an allowance.                                                    *)
Reads(b) ==
  /\ call'[b].seen \in {call[b].seen, lot, NoCall.seen}
  /\ call'[b].remote \in {call[b].remote, provider, NoSubscription}
  /\ call'[b].stage \in {"allowance", "grant"} =>
       /\ call'[b].remote = call[b].remote
       /\ \/ call[b].stage \in {"allowance", "grant"}
          \/ call[b].stage = "upsert" /\ call[b].remote.status = "ACTIVE"

LEMMA ReadsStep ==
  ASSUME TypesAndCalls, [BillingNext]_billingVars, NEW b \in Callers
  PROVE  Reads(b)
<1>1. call \in [Callers -> Calls] /\ call[b] \in Calls /\ CallFits(b)
  BY DEF TypesAndCalls, BillingTypeOK
<1>2. NoCall.remote = NoSubscription /\ NoCall.stage = "idle"
  BY DEF NoCall
<1>3. CASE call'[b] = call[b]
  BY <1>3 DEF Reads
<1>4. CASE call'[b] = NoCall
  BY <1>2, <1>4 DEF Reads
<1>5. ASSUME NEW stage \in CallStages, Goto(b, stage), stage # "allowance",
             stage = "grant" => call[b].stage = "allowance"
      PROVE  Reads(b)
  <2>1. /\ call'[b].seen = call[b].seen /\ call'[b].remote = call[b].remote
        /\ call'[b].stage = stage
    BY <1>1, <1>5, GotoEffect
  <2>2. QED
    BY <1>5, <2>1 DEF Reads
<1>6. CASE CreditStep(b)
  <2>1. ASSUME NEW k \in ChargeKeys, Replay(b, k) PROVE Reads(b)
    BY <1>3, <2>1 DEF Replay
  <2>2. ASSUME NEW k \in ChargeKeys, Consume(b, k) \/ Reverse(b, k) PROVE Reads(b)
    <3>1. PICK stage \in {"load", "reissue"} : Open(b, stage, k)
      BY <2>2 DEF Consume, Reverse
    <3>2. call'[b].seen = NoCall.seen /\ call'[b].remote = NoSubscription /\ call'[b].stage = stage
      BY <1>1, <1>2, <3>1 DEF Open, NoCall
    <3>3. QED
      BY <3>2 DEF Reads
  <2>3. CASE Load(b)
    <3>1. call'[b].seen = lot /\ call'[b].remote = call[b].remote /\ call'[b].stage = "charge"
      BY <1>1, <2>3 DEF Load, Calls
    <3>2. QED
      BY <3>1 DEF Reads
  <2>4. CASE Charge(b) \/ Reissue(b)
    BY <1>1, <1>4, <2>4, EndEffect DEF Charge, Reissue
  <2>5. CASE GrantCredits(b)
    BY <1>1, <2>5, LotCreatedEffect DEF GrantCredits, Reads
  <2>6. CASE Log(b)
    <3>1. CASE Goto(b, "close")
      BY <1>5, <3>1 DEF CallStages, Handling
    <3>2. CASE End(b)
      BY <1>1, <1>4, <3>2, EndEffect
    <3>3. QED
      BY <2>6, <3>1, <3>2 DEF Log
  <2>7. QED
    BY <1>6, <2>1, <2>2, <2>3, <2>4, <2>5, <2>6 DEF CreditStep
<1>7. CASE WebhookStep(b)
  <2>1. ASSUME NEW e \in Events, Deliver(b, e) PROVE Reads(b)
    <3>1. call'[b].seen = NoCall.seen /\ call'[b].remote = NoSubscription
          /\ call'[b].stage = "record"
      BY <1>1, <1>2, <2>1 DEF Deliver, NoCall
    <3>2. QED
      BY <3>1 DEF Reads
  <2>2. CASE Fetch(b)
    <3>1. call'[b].seen = call[b].seen /\ call'[b].remote = provider /\ call'[b].stage = "upsert"
      BY <1>1, <2>2 DEF Fetch, Calls
    <3>2. QED
      BY <3>1 DEF Reads
  <2>3. CASE Upsert(b)
    <3>1. /\ call'[b].seen = call[b].seen /\ call'[b].remote = call[b].remote
          /\ call[b].stage = "upsert"
          /\ call'[b].stage \in {"allowance", "grant"} => call[b].remote.status = "ACTIVE"
      BY <1>1, <2>3 DEF Upsert, At, Calls, Entitled
    <3>2. QED
      BY <3>1 DEF Reads
  <2>4. CASE Record(b) \/ AllowanceFind(b) \/ Invoice(b)
    BY <1>5, <2>4 DEF Record, AllowanceFind, Invoice, At, CallStages, Handling
  <2>5. CASE AllowanceCreate(b)
    <3>1. CASE GrantedUnder(GrantKey(b))
      BY <1>5, <2>5, <3>1 DEF AllowanceCreate, CallStages, Handling
    <3>2. CASE ~GrantedUnder(GrantKey(b))
      BY <1>1, <2>5, <3>2, LotCreatedEffect DEF AllowanceCreate, Reads
    <3>3. QED
      BY <3>1, <3>2
  <2>6. CASE Close(b)
    BY <1>1, <1>4, <2>6, EndEffect DEF Close
  <2>7. QED
    BY <1>7, <2>1, <2>2, <2>3, <2>4, <2>5, <2>6 DEF WebhookStep
<1>8. CASE Throw(b) \/ RequestDies(b)
  <2>1. CASE Throw(b)
    BY <1>5, <2>1 DEF Throw, CallStages, Handling
  <2>2. CASE RequestDies(b)
    BY <1>1, <1>4, <2>2, EndEffect DEF RequestDies
  <2>3. QED
    BY <1>8, <2>1, <2>2
<1>9. ASSUME NEW c \in Callers, c # b, Upsert(c) PROVE Reads(b)
  <2>1. /\ call'[b].seen = call[b].seen /\ call'[b].remote = call[b].remote
        /\ call'[b].stage = call[b].stage
    BY <1>1, <1>9 DEF Upsert, Calls
  <2>2. QED
    BY <2>1 DEF Reads
<1>10. ASSUME NEW c \in Callers, c # b, ~Upsert(c),
              CreditStep(c) \/ WebhookStep(c) \/ Throw(c) \/ RequestDies(c)
       PROVE  call'[b] = call[b]
  BY <1>1, <1>10 DEF CreditStep, Replay, Consume, Reverse, Open, Load, Charge, Reissue, GrantCredits,
     Log, WebhookStep, Deliver, Record, Fetch, AllowanceFind, AllowanceCreate, Invoice, Close,
     Throw, RequestDies, End, Goto
<1>11. CASE UNCHANGED call
  BY <1>3, <1>11
<1>12. QED
  BY <1>3, <1>6, <1>7, <1>8, <1>9, <1>10, <1>11 DEF BillingNext, ProviderMoves, ProviderSends,
     TimePasses, billingVars

(* Who writes what: the provider, the credits and the row have few writers.  *)
LEMMA CreditFrame ==
  ASSUME NEW c \in Callers, CreditStep(c)
  PROVE  UNCHANGED billed
  BY DEF CreditStep, Replay, Consume, Reverse, Open, Load, Charge, Reissue, GrantCredits, Log

LEMMA ProviderFrame ==
  ASSUME [BillingNext]_billingVars
  PROVE  (\E e \in Events : ProviderMoves(e)) \/ UNCHANGED <<provider, subscribed>>
<1>1. ASSUME NEW c \in Callers, WebhookStep(c) PROVE UNCHANGED <<provider, subscribed>>
  BY <1>1 DEF WebhookStep, Deliver, Record, Fetch, Upsert, AllowanceFind, AllowanceCreate,
     Invoice, Close, billed
<1>2. ASSUME NEW c \in Callers, CreditStep(c) PROVE UNCHANGED <<provider, subscribed>>
  BY <1>2, CreditFrame DEF billed
<1>3. ASSUME NEW c \in Callers, Throw(c) \/ RequestDies(c) PROVE UNCHANGED <<provider, subscribed>>
  BY <1>3 DEF Throw, RequestDies, billed
<1>4. ASSUME NEW e \in Events, ProviderSends(e) PROVE UNCHANGED <<provider, subscribed>>
  BY <1>4 DEF ProviderSends
<1>5. CASE TimePasses \/ UNCHANGED billingVars
  BY <1>5 DEF TimePasses, billingVars, billed
<1>6. QED
  BY <1>1, <1>2, <1>3, <1>4, <1>5 DEF BillingNext

(* Time only passes, and what is read of the provider is what it has then. *)
LEMMA PeriodsStep ==
  ASSUME TypesAndCalls, [BillingNext]_billingVars
  PROVE  PeriodsArePast'
<1>1. /\ time <= MaxTime /\ provider.period <= time /\ time \in Nat /\ provider.period \in Nat
      /\ \A b \in Callers : call[b].remote.period <= time /\ call[b].remote.period \in Nat
      /\ MaxTime \in Nat
  BY BillingConstants DEF TypesAndCalls, BillingTypeOK, PeriodsArePast, Calls, Subscriptions
<1>2. time' = time \/ (time < MaxTime /\ time' = time + 1)
  BY DEF BillingNext, CreditStep, Replay, Consume, Reverse, Open, Load, Charge, Reissue,
     GrantCredits, Log, WebhookStep, Deliver, Record, Fetch, Upsert, AllowanceFind,
     AllowanceCreate, Invoice, Close, Throw, RequestDies, ProviderMoves, ProviderSends,
     TimePasses, billingVars, counters
<1>3. provider' = provider \/ provider'.period \in {time, provider.period}
  <2>1. ASSUME NEW e \in Events, ProviderMoves(e)
        PROVE  provider'.period \in {time, provider.period}
    BY <2>1 DEF ProviderMoves
  <2>2. QED
    BY <2>1, ProviderFrame
<1>4. ASSUME NEW b \in Callers PROVE call'[b].remote.period <= time'
  <2>1. call'[b].remote \in {call[b].remote, provider, NoSubscription}
    BY ReadsStep DEF Reads
  <2>2. NoSubscription.period = 0
    BY DEF NoSubscription
  <2>3. QED
    BY <1>1, <1>2, <2>1, <2>2
<1>5. QED
  BY <1>1, <1>2, <1>3, <1>4 DEF PeriodsArePast

(* Every reachable state is well typed, and every request is about the key   *)
(* or the event its stage needs: no late, repeated or failed request writes  *)
(* a row or goes on with something it does not have.                         *)
THEOREM BillingTypes == BillingSpec => []TypesAndCalls
<1>1. BillingInit => TypesAndCalls
  <2> SUFFICES ASSUME BillingInit PROVE TypesAndCalls
    OBVIOUS
  <2>1. BillingTypeOK
    BY BlankTypes DEF BillingInit, BillingTypeOK, EventStatus, SubscriptionStatus, Subscriptions
  <2>2. PeriodsArePast
    BY BillingConstants DEF BillingInit, PeriodsArePast, NoSubscription, NoCall
  <2>3. \A c \in Callers : CallFits(c)
    BY DEF BillingInit, CallFits, At, NoCall, Handling
  <2>4. QED
    BY <2>1, <2>2, <2>3 DEF TypesAndCalls
<1>2. TypesAndCalls /\ [BillingNext]_billingVars => TypesAndCalls'
  <2> SUFFICES ASSUME TypesAndCalls, [BillingNext]_billingVars PROVE TypesAndCalls'
    OBVIOUS
  <2>1. BillingTypeOK'
    BY CreditStepType, WebhookStepType, OutsideStepType DEF BillingNext
  <2>2. QED
    BY <2>1, CallFitsStep, PeriodsStep DEF TypesAndCalls
<1>3. QED
  BY <1>1, <1>2, PTL DEF BillingSpec

-----------------------------------------------------------------------------
(* Charges *)

(* An entry is written once: of two charges under one key that overlap, the  *)
(* second rolls back or has nothing to take.                                 *)
LEMMA ChargedOnceStep ==
  ASSUME TypesAndCalls, ChargedOnce, [BillingNext]_billingVars
  PROVE  ChargedOnce'
<1>1. \A k \in ChargeKeys : told[k] \subseteq {0, charged[k]} /\ charged[k] \in Nat
  BY DEF ChargedOnce, TypesAndCalls, BillingTypeOK
<1>2. told \in [ChargeKeys -> SUBSET Nat] /\ charged \in [ChargeKeys -> Nat]
  BY DEF TypesAndCalls, BillingTypeOK
<1>3. CASE UNCHANGED <<told, charged>>
  BY <1>1, <1>3 DEF ChargedOnce
<1>4. ASSUME NEW c \in Callers, NEW k \in ChargeKeys, Replay(c, k) PROVE ChargedOnce'
  BY <1>1, <1>2, <1>4 DEF Replay, ChargedOnce
<1>5. ASSUME NEW c \in Callers, Charge(c) PROVE ChargedOnce'
  <2>1. CASE Duplicate(c)
    BY <1>3, <1>5, <2>1 DEF Charge, credits
  <2>2. CASE ~Duplicate(c)
    <3>1. Spent(c) \in Nat /\ call[c].about \in ChargeKeys
      BY <1>5, SpentType DEF Charge, TypesAndCalls, CallFits, At
    <3>2. Spent(c) = 0 \/ charged[call[c].about] = 0
      BY <1>1, <2>2, <3>1 DEF Duplicate
    <3>3. /\ charged' = [charged EXCEPT ![call[c].about] = @ + Spent(c)]
          /\ told' = [told EXCEPT ![call[c].about] = @ \cup {Spent(c)}]
      BY <1>5, <2>2 DEF Charge, Entry
    <3>4. QED
      BY <1>1, <1>2, <3>1, <3>2, <3>3 DEF ChargedOnce
  <2>3. QED
    BY <2>1, <2>2
<1>6. ASSUME NEW c \in Callers,
             \/ \E k \in ChargeKeys : Consume(c, k) \/ Reverse(c, k)
             \/ Load(c) \/ Reissue(c) \/ GrantCredits(c) \/ Log(c)
      PROVE  UNCHANGED <<told, charged>>
  BY <1>6 DEF Consume, Reverse, Load, Reissue, GrantCredits, Log, credits
<1>7. ASSUME NEW c \in Callers, WebhookStep(c) PROVE UNCHANGED <<told, charged>>
  BY <1>7 DEF WebhookStep, Deliver, Record, Fetch, Upsert, AllowanceFind, AllowanceCreate,
     Invoice, Close, credits
<1>8. ASSUME NEW c \in Callers, Throw(c) \/ RequestDies(c) PROVE UNCHANGED <<told, charged>>
  BY <1>8 DEF Throw, RequestDies, credits
<1>9. ASSUME NEW e \in Events, ProviderMoves(e) \/ ProviderSends(e)
      PROVE  UNCHANGED <<told, charged>>
  BY <1>9 DEF ProviderMoves, ProviderSends, credits
<1>10. CASE TimePasses \/ UNCHANGED billingVars
  BY <1>3, <1>10 DEF TimePasses, billingVars, credits
<1>11. QED
  BY <1>3, <1>4, <1>5, <1>6, <1>7, <1>8, <1>9, <1>10 DEF BillingNext, CreditStep

(* A retried job never charges twice (ChargedOnce), for any number of calls, *)
(* keys and amounts, whatever overlaps, dies or is answered from its entry.  *)
THEOREM ChargesAreOnce == BillingSpec => []ChargedOnce
<1>1. BillingInit => ChargedOnce
  BY DEF BillingInit, ChargedOnce
<1>2. TypesAndCalls /\ ChargedOnce /\ [BillingNext]_billingVars => ChargedOnce'
  BY ChargedOnceStep
<1>3. QED
  BY <1>1, <1>2, BillingTypes, PTL DEF BillingSpec

-----------------------------------------------------------------------------
(* Lots *)

(* Lots are granted one after the other, and a lot that is not is blank. *)
LotsInOrder ==
  /\ Granted = 1 .. Cardinality(Granted)
  /\ \A l \in Lots \ Granted : lot[l] = NoLot

(* A request has seen no lot that was not granted. *)
SeenIsGranted ==
  \A c \in Callers, l \in Lots \ Granted : call[c].seen[l] = NoLot

(* There are finitely many lots, granted ones among them. *)
LEMMA GrantedFinite ==
  /\ IsFiniteSet(Lots) /\ IsFiniteSet(Granted) /\ Granted \subseteq Lots
  /\ Cardinality(Granted) \in Nat
<1>1. IsFiniteSet(Lots) /\ Granted \subseteq Lots
  BY BillingConstants, FS_Interval DEF Lots, Granted
<1>2. QED
  BY <1>1, FS_Subset, FS_CardinalityType

(* A new lot takes the next number. *)
LEMMA NewLotEffect ==
  ASSUME lot \in [Lots -> Rows], LotsInOrder, NEW source, source # "NONE", NEW amount,
         NEW expiresAt, NEW grantKey, NewLot(source, amount, expiresAt, grantKey)
  PROVE  /\ NextLot \in Lots /\ NextLot \notin Granted /\ Granted' = Granted \cup {NextLot}
         /\ lot[NextLot] = NoLot
         /\ lot'[NextLot] = [source |-> source, amount |-> amount, remaining |-> amount,
                             expiresAt |-> expiresAt, grantKey |-> grantKey]
         /\ \A l \in Lots \ {NextLot} : lot'[l] = lot[l]
         /\ LotsInOrder'
<1> DEFINE n == NextLot
<1>1. n \in Lots /\ n = Cardinality(Granted) + 1
      /\ lot' = [lot EXCEPT ![n] = [source |-> source, amount |-> amount, remaining |-> amount,
                                    expiresAt |-> expiresAt, grantKey |-> grantKey]]
  BY DEF NewLot, NextLot
<1> HIDE DEF n
<1>2. n \notin Granted
  BY <1>1, GrantedFinite DEF LotsInOrder
<1>3. Granted' = Granted \cup {n}
  BY <1>1 DEF Granted
<1>4. Cardinality(Granted') = Cardinality(Granted) + 1
  BY <1>2, <1>3, GrantedFinite, FS_AddElement
<1>5. Granted' = 1 .. Cardinality(Granted')
  <2> DEFINE m == Cardinality(Granted)
  <2>1. m \in Nat /\ Granted = 1 .. m /\ n = m + 1
    BY <1>1, GrantedFinite DEF LotsInOrder
  <2> HIDE DEF m
  <2>2. (1 .. m) \cup {m + 1} = 1 .. (m + 1)
    BY <2>1
  <2>3. QED
    BY <1>3, <1>4, <2>1, <2>2 DEF m
<1>6. \A l \in Lots \ Granted' : lot'[l] = NoLot
  BY <1>1, <1>3 DEF LotsInOrder
<1>7. lot[n] = NoLot
  BY <1>1, <1>2 DEF LotsInOrder
<1>8. QED
  BY <1>1, <1>2, <1>3, <1>5, <1>6, <1>7 DEF LotsInOrder, n

(* A charge takes from granted lots only, and no more than it says. *)
LEMMA DeductedEffect ==
  ASSUME TypesAndCalls, LotsInOrder, SeenIsGranted, NEW c \in Callers, At(c, "charge"),
         lot' = Deducted(c)
  PROVE  /\ \A l \in Lots : /\ lot'[l].source = lot[l].source /\ lot'[l].amount = lot[l].amount
                            /\ lot'[l].grantKey = lot[l].grantKey
                            /\ lot'[l].remaining = lot[l].remaining - Planned(c, l)
         /\ Granted' = Granted /\ LotsInOrder'
<1>1. ASSUME NEW l \in Lots
      PROVE  /\ lot'[l].source = lot[l].source /\ lot'[l].amount = lot[l].amount
             /\ lot'[l].grantKey = lot[l].grantKey
             /\ lot'[l].remaining = lot[l].remaining - Planned(c, l)
             /\ lot'[l] = [lot[l] EXCEPT !.remaining = @ - Planned(c, l)]
  <2>1. lot[l] \in Rows
    BY DEF TypesAndCalls, BillingTypeOK
  <2>2. lot'[l] = [lot[l] EXCEPT !.remaining = @ - Planned(c, l)]
    BY DEF Deducted
  <2>3. QED
    BY <2>1, <2>2 DEF Rows
<1>2. Granted' = Granted
  BY <1>1 DEF Granted
<1>3. ASSUME NEW l \in Lots \ Granted PROVE lot'[l] = NoLot
  <2>1. lot[l] = NoLot /\ call[c].seen[l].remaining = 0
    BY <1>3 DEF LotsInOrder, SeenIsGranted, NoLot
  <2>2. Planned(c, l) = 0
    BY <2>1, SpentType
  <2>3. [NoLot EXCEPT !.remaining = @ - 0] = NoLot
    BY DEF NoLot
  <2>4. QED
    BY <1>1, <2>1, <2>2, <2>3
<1>4. QED
  BY <1>1, <1>2, <1>3 DEF LotsInOrder

(* What a step may do to the lots: nothing, a charge, or one lot more. *)
LEMMA LotStep ==
  ASSUME TypesAndCalls, [BillingNext]_billingVars
  PROVE  \/ UNCHANGED lot
         \/ \E c \in Callers : Charge(c) /\ ~Duplicate(c) /\ lot' = Deducted(c)
         \/ \E c \in Callers : Reissue(c) \/ GrantCredits(c)
         \/ \E c \in Callers : AllowanceCreate(c) /\ ~GrantedUnder(GrantKey(c))
<1>1. ASSUME NEW c \in Callers,
             \/ \E k \in ChargeKeys : Replay(c, k) \/ Consume(c, k) \/ Reverse(c, k)
             \/ Load(c) \/ Log(c)
      PROVE  UNCHANGED lot
  BY <1>1 DEF Replay, Consume, Reverse, Load, Log, credits
<1>2. ASSUME NEW c \in Callers, Charge(c) PROVE UNCHANGED lot \/ (~Duplicate(c) /\ lot' = Deducted(c))
  BY <1>2 DEF Charge, credits
<1>3. ASSUME NEW c \in Callers, AllowanceCreate(c), GrantedUnder(GrantKey(c)) PROVE UNCHANGED lot
  BY <1>3 DEF AllowanceCreate
<1>4. ASSUME NEW c \in Callers, WebhookStep(c), ~AllowanceCreate(c) PROVE UNCHANGED lot
  BY <1>4 DEF WebhookStep, Deliver, Record, Fetch, Upsert, AllowanceFind, Invoice, Close, credits
<1>5. ASSUME NEW c \in Callers, Throw(c) \/ RequestDies(c) PROVE UNCHANGED lot
  BY <1>5 DEF Throw, RequestDies, credits
<1>6. ASSUME NEW e \in Events, ProviderMoves(e) \/ ProviderSends(e) PROVE UNCHANGED lot
  BY <1>6 DEF ProviderMoves, ProviderSends, credits
<1>7. CASE TimePasses \/ UNCHANGED billingVars
  BY <1>7 DEF TimePasses, billingVars, credits
<1>8. QED
  BY <1>1, <1>2, <1>3, <1>4, <1>5, <1>6, <1>7 DEF BillingNext, CreditStep

(* Who creates a lot, and which. *)
LEMMA WhoGrants ==
  ASSUME TypesAndCalls, NEW c \in Callers,
         \/ Reissue(c) \/ GrantCredits(c)
         \/ AllowanceCreate(c) /\ ~GrantedUnder(GrantKey(c))
  PROVE  \E source \in {"MONTHLY_ALLOWANCE", "MANUAL", "REVERSAL"}, amount \in Nat :
           \E expiresAt, grantKey : NewLot(source, amount, expiresAt, grantKey)
<1>1. CASE Reissue(c)
  <2>1. charged[call[c].about] \in Nat
    BY <1>1 DEF Reissue, TypesAndCalls, BillingTypeOK, CallFits, At
  <2>2. NewLot("REVERSAL", charged[call[c].about], Never, NoKey)
    BY <1>1 DEF Reissue
  <2>3. QED
    BY <2>1, <2>2
<1>2. CASE GrantCredits(c)
  <2>1. Gift \in Nat
    BY BillingConstants
  <2>2. QED
    BY <1>2, <2>1 DEF GrantCredits
<1>3. CASE AllowanceCreate(c) /\ ~GrantedUnder(GrantKey(c))
  <2>1. MonthlyCredits[call[c].remote.plan] \in Nat
    BY BillingConstants DEF TypesAndCalls, BillingTypeOK, Calls, Subscriptions
  <2>2. NewLot("MONTHLY_ALLOWANCE", MonthlyCredits[call[c].remote.plan],
               call[c].remote.period + 1, GrantKey(c))
    BY <1>3 DEF AllowanceCreate
  <2>3. QED
    BY <2>1, <2>2
<1>4. QED
  BY <1>1, <1>2, <1>3

(* Together they are inductive. *)
LotsInv == LotsInOrder /\ SeenIsGranted

(* Every step keeps the order, and no lot is lost. *)
LEMMA LotsStep ==
  ASSUME TypesAndCalls, LotsInv, [BillingNext]_billingVars
  PROVE  LotsInv' /\ Granted \subseteq Granted'
<1>1. lot \in [Lots -> Rows] /\ LotsInOrder /\ SeenIsGranted
  BY DEF TypesAndCalls, BillingTypeOK, LotsInv
<1>2. LotsInOrder' /\ Granted \subseteq Granted'
  <2>1. CASE UNCHANGED lot
    BY <1>1, <2>1 DEF LotsInOrder, Granted
  <2>2. ASSUME NEW c \in Callers, Charge(c), lot' = Deducted(c)
        PROVE  LotsInOrder' /\ Granted \subseteq Granted'
    BY <1>1, <2>2, DeductedEffect DEF Charge
  <2>3. ASSUME NEW c \in Callers,
               \/ Reissue(c) \/ GrantCredits(c)
               \/ AllowanceCreate(c) /\ ~GrantedUnder(GrantKey(c))
        PROVE  LotsInOrder' /\ Granted \subseteq Granted'
    <3>1. PICK source, amount, expiresAt, grantKey :
            /\ source \in {"MONTHLY_ALLOWANCE", "MANUAL", "REVERSAL"} /\ amount \in Nat
            /\ NewLot(source, amount, expiresAt, grantKey)
      BY <2>3, WhoGrants
    <3>2. source # "NONE"
      BY <3>1
    <3>3. QED
      BY <1>1, <3>1, <3>2, NewLotEffect
  <2>4. QED
    BY <2>1, <2>2, <2>3, LotStep
<1>3. SeenIsGranted'
  <2> SUFFICES ASSUME NEW c \in Callers, NEW l \in Lots \ Granted' PROVE call'[c].seen[l] = NoLot
    BY DEF SeenIsGranted
  <2>1. call'[c].seen \in {call[c].seen, lot, NoCall.seen}
    BY ReadsStep DEF Reads
  <2>2. call[c].seen[l] = NoLot /\ lot[l] = NoLot
    BY <1>1, <1>2 DEF SeenIsGranted, LotsInOrder
  <2>3. NoCall.seen[l] = NoLot
    BY DEF NoCall
  <2>4. QED
    BY <2>1, <2>2, <2>3
<1>4. QED
  BY <1>2, <1>3 DEF LotsInv

(* Lots are granted in order, and no request has seen one before it was. *)
THEOREM LotsAreInOrder == BillingSpec => []LotsInv
<1>1. BillingInit => LotsInv
  <2> SUFFICES ASSUME BillingInit PROVE LotsInv
    OBVIOUS
  <2>1. Granted = {} /\ \A l \in Lots : lot[l] = NoLot
    BY DEF BillingInit, Granted, NoLot
  <2>2. Granted = 1 .. Cardinality(Granted)
    BY <2>1, FS_EmptySet
  <2>3. SeenIsGranted
    BY DEF BillingInit, SeenIsGranted, NoCall
  <2>4. QED
    BY <2>1, <2>2, <2>3 DEF LotsInv, LotsInOrder
<1>2. TypesAndCalls /\ LotsInv /\ [BillingNext]_billingVars => LotsInv'
  BY LotsStep
<1>3. QED
  BY <1>1, <1>2, BillingTypes, PTL DEF BillingSpec

-----------------------------------------------------------------------------
(* The ledger *)

(* What was taken from each lot, and what the entries say was. *)
Taken == [l \in Lots |-> lot[l].amount - lot[l].remaining]
SumsAgree == SumFunctionOnSet(Taken, Lots) = SumFunctionOnSet(charged, ChargeKeys)

LEMMA TakenType == ASSUME BillingTypeOK PROVE \A l \in Lots : Taken[l] \in Int
  BY DEF BillingTypeOK, Rows, Taken

(* Only a charge writes CONSUMPTION entries. *)
LEMMA ChargedFrame ==
  ASSUME [BillingNext]_billingVars
  PROVE  UNCHANGED charged \/ \E c \in Callers : Charge(c) /\ ~Duplicate(c)
<1>1. ASSUME NEW c \in Callers,
             \/ \E k \in ChargeKeys : Replay(c, k) \/ Consume(c, k) \/ Reverse(c, k)
             \/ Load(c) \/ Reissue(c) \/ GrantCredits(c) \/ Log(c)
      PROVE  UNCHANGED charged
  BY <1>1 DEF Replay, Consume, Reverse, Load, Reissue, GrantCredits, Log, credits
<1>2. ASSUME NEW c \in Callers, Charge(c), Duplicate(c) PROVE UNCHANGED charged
  BY <1>2 DEF Charge, credits
<1>3. ASSUME NEW c \in Callers, WebhookStep(c) PROVE UNCHANGED charged
  BY <1>3 DEF WebhookStep, Deliver, Record, Fetch, Upsert, AllowanceFind, AllowanceCreate,
     Invoice, Close, credits
<1>4. ASSUME NEW c \in Callers, Throw(c) \/ RequestDies(c) PROVE UNCHANGED charged
  BY <1>4 DEF Throw, RequestDies, credits
<1>5. ASSUME NEW e \in Events, ProviderMoves(e) \/ ProviderSends(e) PROVE UNCHANGED charged
  BY <1>5 DEF ProviderMoves, ProviderSends, credits
<1>6. CASE TimePasses \/ UNCHANGED billingVars
  BY <1>6 DEF TimePasses, billingVars, credits
<1>7. QED
  BY <1>1, <1>2, <1>3, <1>4, <1>5, <1>6 DEF BillingNext, CreditStep

(* The decrements of a charge are its entry. *)
LEMMA ChargeKeepsSums ==
  ASSUME TypesAndCalls, TypesAndCalls', LotsInv, SumsAgree, NEW c \in Callers,
         Charge(c), ~Duplicate(c)
  PROVE  SumsAgree'
<1> DEFINE f == Taken
           g == Taken'
           p == [l \in Lots |-> Planned(c, l)]
           h == charged'
           k == call[c].about
<1>1. /\ lot' = Deducted(c) /\ At(c, "charge") /\ k \in ChargeKeys
      /\ charged' = [charged EXCEPT ![k] = @ + Spent(c)]
      /\ charged \in [ChargeKeys -> Nat]
  BY DEF Charge, Entry, TypesAndCalls, BillingTypeOK, CallFits, At
<1>2. /\ Spent(c) \in Nat /\ \A l \in Lots : Planned(c, l) \in Nat
      /\ Spent(c) = SumFunctionOnSet(p, Lots)
  BY <1>1, SpentType
<1>3. ASSUME NEW l \in Lots PROVE f[l] \in Int /\ p[l] \in Int /\ g[l] = f[l] + p[l]
  <2>1. /\ lot'[l].amount = lot[l].amount
        /\ lot'[l].remaining = lot[l].remaining - Planned(c, l)
    BY <1>1, DeductedEffect DEF LotsInv
  <2>2. lot[l].amount \in Int /\ lot[l].remaining \in Int /\ Planned(c, l) \in Int
    BY <1>2 DEF TypesAndCalls, BillingTypeOK, Rows
  <2>3. QED
    BY <2>1, <2>2 DEF Taken
<1>4. IsFiniteSet(Lots) /\ IsFiniteSet(ChargeKeys)
  BY GrantedFinite, BillingConstants
<1>5. /\ h[k] = charged[k] + Spent(c) /\ \A x \in ChargeKeys \ {k} : h[x] = charged[x]
      /\ \A x \in ChargeKeys : charged[x] \in Int /\ h[x] \in Int
  BY <1>1, <1>2
<1>6. SumsAgree' <=> SumFunctionOnSet(g, Lots) = SumFunctionOnSet(h, ChargeKeys)
  BY DEF SumsAgree
<1> HIDE DEF f, g, p, h, k
<1>7. SumFunctionOnSet(g, Lots) = SumFunctionOnSet(f, Lots) + SumFunctionOnSet(p, Lots)
  BY <1>3, <1>4, SumOfSums
<1>8. SumFunctionOnSet(h, ChargeKeys) = SumFunctionOnSet(charged, ChargeKeys) + Spent(c)
  BY <1>1, <1>2, <1>4, <1>5, SumChanges
<1>9. SumFunctionOnSet(f, Lots) = SumFunctionOnSet(charged, ChargeKeys)
  BY DEF SumsAgree, f
<1>10. QED
  BY <1>2, <1>6, <1>7, <1>8, <1>9

(* A new lot is full: nothing is taken from it. *)
LEMMA GrantKeepsSums ==
  ASSUME TypesAndCalls, LotsInv, SumsAgree, UNCHANGED charged,
         NEW source, source # "NONE", NEW amount \in Nat, NEW expiresAt, NEW grantKey,
         NewLot(source, amount, expiresAt, grantKey)
  PROVE  SumsAgree'
<1>1. lot \in [Lots -> Rows]
  BY DEF TypesAndCalls, BillingTypeOK
<1>2. /\ lot[NextLot] = NoLot /\ NextLot \in Lots
      /\ lot'[NextLot].amount = amount /\ lot'[NextLot].remaining = amount
      /\ \A l \in Lots \ {NextLot} : lot'[l] = lot[l]
  <2>1. /\ lot[NextLot] = NoLot /\ NextLot \in Lots
        /\ lot'[NextLot] = [source |-> source, amount |-> amount, remaining |-> amount,
                            expiresAt |-> expiresAt, grantKey |-> grantKey]
        /\ \A l \in Lots \ {NextLot} : lot'[l] = lot[l]
    BY <1>1, NewLotEffect DEF LotsInv
  <2> DEFINE row == lot'[NextLot]
  <2>2. row.amount = amount /\ row.remaining = amount
    BY <2>1
  <2>3. QED
    BY <2>1, <2>2
<1>3. ASSUME NEW l \in Lots PROVE Taken'[l] = Taken[l]
  <2>1. CASE l = NextLot
    BY <1>2, <2>1 DEF Taken, NoLot
  <2>2. CASE l # NextLot
    BY <1>2, <2>2 DEF Taken
  <2>3. QED
    BY <2>1, <2>2
<1>4. Taken' = Taken
  BY <1>3 DEF Taken
<1>5. QED
  BY <1>4 DEF SumsAgree

(* Every step keeps the lots and the entries in balance. *)
LEMMA SumsStep ==
  ASSUME TypesAndCalls, TypesAndCalls', LotsInv, SumsAgree, [BillingNext]_billingVars
  PROVE  SumsAgree'
<1>1. CASE \E c \in Callers : Charge(c) /\ ~Duplicate(c)
  BY <1>1, ChargeKeepsSums
<1>2. CASE ~ \E c \in Callers : Charge(c) /\ ~Duplicate(c)
  <2>1. UNCHANGED charged
    BY <1>2, ChargedFrame
  <2>2. CASE UNCHANGED lot
    BY <2>1, <2>2 DEF SumsAgree, Taken
  <2>3. ASSUME NEW c \in Callers,
               \/ Reissue(c) \/ GrantCredits(c)
               \/ AllowanceCreate(c) /\ ~GrantedUnder(GrantKey(c))
        PROVE  SumsAgree'
    <3>1. PICK source, amount, expiresAt, grantKey :
            /\ source \in {"MONTHLY_ALLOWANCE", "MANUAL", "REVERSAL"} /\ amount \in Nat
            /\ NewLot(source, amount, expiresAt, grantKey)
      BY <2>3, WhoGrants
    <3>2. source # "NONE"
      BY <3>1
    <3>3. QED
      BY <2>1, <3>1, <3>2, GrantKeepsSums
  <2>4. QED
    BY <1>2, <2>2, <2>3, LotStep
<1>3. QED
  BY <1>1, <1>2

(* Lots whose entry nobody is about to write. *)
Left == {l \in Granted \ logged : \A c \in Callers : At(c, "log") => call[c].lot # l}

(* No more of them than failures. *)
FewLeft == Cardinality(Left) <= crashes

(* A request that has an entry to write writes it, throws or dies. *)
LEMMA LoggerStays ==
  ASSUME TypesAndCalls, [BillingNext]_billingVars, NEW b \in Callers, At(b, "log")
  PROVE  \/ At(b, "log")' /\ call'[b].lot = call[b].lot
         \/ Log(b) \/ Throw(b) \/ RequestDies(b)
<1>1. call \in [Callers -> Calls] /\ call[b].stage = "log"
  BY DEF TypesAndCalls, BillingTypeOK, At
<1>2. ASSUME NEW c \in Callers, CreditStep(c), ~Log(b) PROVE call'[b] = call[b]
  BY <1>1, <1>2 DEF CreditStep, Replay, Consume, Reverse, Open, Load, Charge, Reissue, GrantCredits,
     Log, End, Goto, At
<1>3. ASSUME NEW c \in Callers, WebhookStep(c), ~Upsert(c) PROVE call'[b] = call[b]
  BY <1>1, <1>3 DEF WebhookStep, Deliver, Record, Fetch, AllowanceFind, AllowanceCreate,
     Invoice, Close, Outcome, End, Goto, At
<1>4. ASSUME NEW c \in Callers, Upsert(c) PROVE call'[b] = call[b]
  BY <1>1, <1>4 DEF Upsert, At
<1>5. ASSUME NEW c \in Callers, Throw(c) \/ RequestDies(c), ~Throw(b), ~RequestDies(b)
      PROVE  call'[b] = call[b]
  <2>1. c # b
    BY <1>5
  <2>2. CASE Throw(c)
    BY <1>1, <2>1, <2>2 DEF Throw, Goto
  <2>3. CASE RequestDies(c)
    BY <1>1, <2>1, <2>3 DEF RequestDies, End
  <2>4. QED
    BY <1>5, <2>2, <2>3
<1>6. call'[b] = call[b] \/ Log(b) \/ Throw(b) \/ RequestDies(b)
  <2>1. CASE BillingNext
    BY <1>2, <1>3, <1>4, <1>5, <2>1 DEF BillingNext, ProviderMoves, ProviderSends, TimePasses
  <2>2. QED
    BY <2>1 DEF billingVars
<1>7. QED
  BY <1>6 DEF At

(* Entries stay, and failures are counted. *)
LEMMA LoggedFrame ==
  ASSUME TypesAndCalls, [BillingNext]_billingVars
  PROVE  /\ logged \subseteq logged' /\ crashes <= crashes' /\ crashes \in Nat /\ crashes' \in Nat
         /\ \A c \in Callers : Throw(c) \/ RequestDies(c) => crashes' = crashes + 1
<1>1. crashes \in Nat
  BY DEF TypesAndCalls, BillingTypeOK
<1>2. logged \subseteq logged'
  <2>1. ASSUME NEW c \in Callers, CreditStep(c) PROVE logged \subseteq logged'
    BY <2>1 DEF CreditStep, Replay, Consume, Reverse, Open, Load, Charge, Reissue, GrantCredits,
       Log, credits
  <2>2. ASSUME NEW c \in Callers, WebhookStep(c) PROVE logged \subseteq logged'
    BY <2>2 DEF WebhookStep, Deliver, Record, Fetch, Upsert, AllowanceFind, AllowanceCreate,
       Invoice, Close, credits
  <2>3. QED
    BY <2>1, <2>2 DEF BillingNext, Throw, RequestDies, ProviderMoves, ProviderSends, TimePasses,
       billingVars, credits
<1>3. crashes' \in {crashes, crashes + 1}
  <2>1. ASSUME NEW c \in Callers, CreditStep(c) PROVE crashes' = crashes
    BY <2>1 DEF CreditStep, Replay, Consume, Reverse, Open, Load, Charge, Reissue, GrantCredits,
       Log, counters
  <2>2. ASSUME NEW c \in Callers, WebhookStep(c) PROVE crashes' = crashes
    BY <2>2 DEF WebhookStep, Deliver, Record, Fetch, Upsert, AllowanceFind, AllowanceCreate,
       Invoice, Close, counters
  <2>3. ASSUME NEW c \in Callers, Throw(c) \/ RequestDies(c) PROVE crashes' = crashes + 1
    BY <2>3 DEF Throw, RequestDies, Failure
  <2>4. QED
    BY <2>1, <2>2, <2>3 DEF BillingNext, ProviderMoves, ProviderSends, TimePasses, billingVars,
       counters
<1>4. ASSUME NEW c \in Callers, Throw(c) \/ RequestDies(c) PROVE crashes' = crashes + 1
  BY <1>4 DEF Throw, RequestDies, Failure
<1>5. QED
  BY <1>1, <1>2, <1>3, <1>4

(* A new lot has its entry already, or a request that will write it. *)
LEMMA NewIsNotLeft ==
  ASSUME TypesAndCalls, LotsInv, [BillingNext]_billingVars, NEW l \in Granted' \ Granted
  PROVE  l \notin Left'
<1>1. lot \in [Lots -> Rows] /\ call \in [Callers -> Calls] /\ LotsInOrder
  BY DEF TypesAndCalls, BillingTypeOK, LotsInv
<1>2. CASE UNCHANGED lot
  BY <1>2 DEF Granted
<1>3. ASSUME NEW c \in Callers, Charge(c), lot' = Deducted(c) PROVE FALSE
  BY <1>3, DeductedEffect DEF Charge, LotsInv
<1>4. ASSUME NEW c \in Callers,
             \/ Reissue(c) \/ GrantCredits(c)
             \/ AllowanceCreate(c) /\ ~GrantedUnder(GrantKey(c))
      PROVE  l \notin Left'
  <2>1. PICK source, amount, expiresAt, grantKey :
          /\ source \in {"MONTHLY_ALLOWANCE", "MANUAL", "REVERSAL"} /\ amount \in Nat
          /\ NewLot(source, amount, expiresAt, grantKey)
    BY <1>4, WhoGrants
  <2>2. source # "NONE"
    BY <2>1
  <2>3. Granted' = Granted \cup {NextLot}
    BY <1>1, <2>1, <2>2, NewLotEffect
  <2>4. l = NextLot
    BY <2>3
  <2>5. CASE Reissue(c)
    BY <2>4, <2>5 DEF Reissue, Left
  <2>6. CASE GrantCredits(c) \/ (AllowanceCreate(c) /\ ~GrantedUnder(GrantKey(c)))
    <3>1. At(c, "log")' /\ call'[c].lot = NextLot
      BY <1>1, <2>6, LotCreatedEffect DEF GrantCredits, AllowanceCreate, At
    <3>2. QED
      BY <2>4, <3>1 DEF Left
  <2>7. QED
    BY <1>4, <2>5, <2>6
<1>5. QED
  BY <1>2, <1>3, <1>4, LotStep

(* Only a failure leaves a lot without its entry. *)
LEMMA FewLeftStep ==
  ASSUME TypesAndCalls, LotsInv, FewLeft, [BillingNext]_billingVars
  PROVE  FewLeft'
<1>1. Left \subseteq Granted /\ IsFiniteSet(Left) /\ Cardinality(Left) \in Nat
  BY GrantedFinite, FS_Subset, FS_CardinalityType DEF Left
<1>2. /\ logged \subseteq logged' /\ crashes <= crashes' /\ crashes \in Nat /\ crashes' \in Nat
      /\ \A c \in Callers : Throw(c) \/ RequestDies(c) => crashes' = crashes + 1
  BY LoggedFrame
<1>3. ASSUME NEW l \in Left', l \notin Left
      PROVE  \E b \in Callers : (Throw(b) \/ RequestDies(b)) /\ l = call[b].lot
  <2>1. l \in Granted /\ l \notin logged
    BY <1>2, <1>3, NewIsNotLeft DEF Left
  <2>2. PICK b \in Callers : At(b, "log") /\ call[b].lot = l
    BY <1>3, <2>1 DEF Left
  <2>3. ~(At(b, "log")' /\ call'[b].lot = l)
    BY <1>3, <2>2 DEF Left
  <2>4. ~Log(b)
    BY <1>3, <2>2 DEF Left, Log
  <2>5. QED
    BY <2>2, <2>3, <2>4, LoggerStays
<1>4. CASE \E b \in Callers : Throw(b) \/ RequestDies(b)
  <2>1. PICK b \in Callers : Throw(b) \/ RequestDies(b)
    BY <1>4
  <2>2. \A a \in Callers : Throw(a) \/ RequestDies(a) => call[a] = call[b] \/ a = b
    <3>1. call \in [Callers -> Calls]
      BY DEF TypesAndCalls, BillingTypeOK
    <3>2. ASSUME NEW a \in Callers, Throw(a) \/ RequestDies(a), a # b PROVE call[a] = call[b]
      <4>1. call'[a] # call[a]
        BY <3>1, <3>2 DEF Throw, RequestDies, Goto, End, At, NoCall, Calls
      <4>2. call'[a] = call[a]
        BY <2>1, <3>1, <3>2 DEF Throw, RequestDies, Goto, End
      <4>3. QED
        BY <4>1, <4>2
    <3>3. QED
      BY <3>2
  <2>3. Left' \subseteq Left \cup {call[b].lot}
    BY <1>3, <2>2
  <2>4. /\ IsFiniteSet(Left \cup {call[b].lot})
        /\ Cardinality(Left \cup {call[b].lot}) <= Cardinality(Left) + 1
        /\ Cardinality(Left \cup {call[b].lot}) \in Nat
    <3>1. Cardinality(Left \cup {call[b].lot})
            = IF call[b].lot \in Left THEN Cardinality(Left) ELSE Cardinality(Left) + 1
      BY <1>1, FS_AddElement
    <3>2. IsFiniteSet(Left \cup {call[b].lot})
      BY <1>1, FS_AddElement
    <3>3. QED
      BY <1>1, <3>1, <3>2
  <2>5. Cardinality(Left') <= Cardinality(Left \cup {call[b].lot}) /\ Cardinality(Left') \in Nat
    BY <2>3, <2>4, FS_Subset, FS_CardinalityType
  <2>6. QED
    BY <1>1, <1>2, <2>1, <2>4, <2>5 DEF FewLeft
<1>5. CASE ~ \E b \in Callers : Throw(b) \/ RequestDies(b)
  <2>1. Left' \subseteq Left
    BY <1>3, <1>5
  <2>2. Cardinality(Left') <= Cardinality(Left) /\ Cardinality(Left') \in Nat
    BY <1>1, <2>1, FS_Subset, FS_CardinalityType
  <2>3. QED
    BY <1>1, <1>2, <2>2 DEF FewLeft
<1>6. QED
  BY <1>4, <1>5

(* The balance follows from the ledger (LedgerMatchesLots): what was taken   *)
(* from the lots is what the CONSUMPTION entries say, to the credit, and no  *)
(* more lots miss their own entry than requests have failed.                 *)
THEOREM LedgerIsKept == BillingSpec => []LedgerMatchesLots
<1>1. TypesAndCalls /\ BillingInit => SumsAgree /\ FewLeft
  <2> SUFFICES ASSUME TypesAndCalls, BillingInit PROVE SumsAgree /\ FewLeft
    OBVIOUS
  <2>1. \A l \in Lots : Taken[l] = 0
    BY DEF BillingInit, Taken, NoLot
  <2>2. \A k \in ChargeKeys : charged[k] = 0
    BY DEF BillingInit
  <2>3. IsFiniteSet(Lots) /\ IsFiniteSet(ChargeKeys)
    BY GrantedFinite, BillingConstants
  <2>4. SumFunctionOnSet(Taken, Lots) = 0 /\ SumFunctionOnSet(charged, ChargeKeys) = 0
    BY <2>1, <2>2, <2>3, SumOfZeros
  <2>5. Left = {}
    BY DEF BillingInit, Left, Granted, NoLot
  <2>6. FewLeft
    BY <2>5, FS_EmptySet DEF FewLeft, BillingInit
  <2>7. QED
    BY <2>4, <2>6 DEF SumsAgree
<1>2. TypesAndCalls /\ TypesAndCalls' /\ LotsInv /\ SumsAgree /\ [BillingNext]_billingVars => SumsAgree'
  BY SumsStep
<1>3. TypesAndCalls /\ LotsInv /\ FewLeft /\ [BillingNext]_billingVars => FewLeft'
  BY FewLeftStep
<1>4. TypesAndCalls /\ SumsAgree /\ FewLeft => LedgerMatchesLots
  <2> SUFFICES ASSUME TypesAndCalls, SumsAgree, FewLeft PROVE LedgerMatchesLots
    OBVIOUS
  <2> DEFINE Unlogged == (Granted \ logged) \ {call[c].lot : c \in Callers}
  <2>1. Unlogged \subseteq Left
    BY DEF Left
  <2>2. IsFiniteSet(Left)
    BY GrantedFinite, FS_Subset DEF Left
  <2>3. Cardinality(Unlogged) <= Cardinality(Left)
    BY <2>1, <2>2, FS_Subset
  <2>4. Cardinality(Unlogged) \in Nat /\ Cardinality(Left) \in Nat /\ crashes \in Nat
    BY <2>1, <2>2, FS_Subset, FS_CardinalityType DEF TypesAndCalls, BillingTypeOK
  <2>5. Cardinality(Unlogged) <= crashes
    <3> HIDE DEF Unlogged
    <3> QED BY <2>3, <2>4 DEF FewLeft
  <2>6. DOMAIN Taken = Lots /\ DOMAIN charged = ChargeKeys
    BY DEF Taken, TypesAndCalls, BillingTypeOK
  <2>7. SumFunction(Taken) = SumFunction(charged)
    BY <2>6 DEF SumFunction, SumsAgree
  <2>8. QED
    BY <2>5, <2>7 DEF LedgerMatchesLots, Taken
<1>5. QED
  BY <1>1, <1>2, <1>3, <1>4, BillingTypes, LotsAreInOrder, PTL DEF BillingSpec

-----------------------------------------------------------------------------
(* Plans *)

(* What the lots of a plan have, and what it takes of them. *)
Remaining(rows) == [l \in Lots |-> rows[l].remaining]
Taking(rows, now, amount) == [l \in Lots |-> Take(rows, now, amount, l)]

(* The lots the loop has seen when it comes to l. *)
Earlier(rows, now, l) == {m \in Spendable(rows, now) : Before(rows, m, l)}

(* Before orders the lots: one of two comes first. *)
LEMMA BeforeOrders ==
  ASSUME NEW rows \in [Lots -> Rows], NEW k \in Lots, NEW l \in Lots, NEW m \in Lots
  PROVE  /\ ~Before(rows, l, l)
         /\ l # m => Before(rows, l, m) \/ Before(rows, m, l)
         /\ Before(rows, l, m) => ~Before(rows, m, l)
         /\ Before(rows, k, l) /\ Before(rows, l, m) => Before(rows, k, m)
<1>1. k \in Int /\ l \in Int /\ m \in Int
  BY DEF Lots
<1>2. /\ rows[k].expiresAt \in Int /\ rows[l].expiresAt \in Int /\ rows[m].expiresAt \in Int
  BY DEF Rows
<1>3. QED
  BY <1>1, <1>2 DEF Before

(* A set of lots has a last one. *)
LEMMA LastOfLots ==
  ASSUME NEW rows \in [Lots -> Rows], NEW S \in SUBSET Lots, S # {}
  PROVE  \E l \in S : \A m \in S \ {l} : Before(rows, m, l)
<1> DEFINE P == {T \in SUBSET S : T # {} => \E l \in T : \A m \in T \ {l} : Before(rows, m, l)}
<1>1. IsFiniteSet(S)
  <2>1. IsFiniteSet(Lots)
    BY BillingConstants, FS_Interval DEF Lots
  <2>2. QED
    BY <2>1, FS_Subset
<1>2. {} \in P
  OBVIOUS
<1>3. ASSUME NEW T \in SUBSET S, T # {}, \A x \in T : T \ {x} \in P
      PROVE  T \in P
  <2>1. PICK x \in T : TRUE
    BY <1>3
  <2>2. CASE T \ {x} = {}
    BY <2>1, <2>2
  <2>3. CASE T \ {x} # {}
    <3>1. PICK l \in T \ {x} : \A m \in (T \ {x}) \ {l} : Before(rows, m, l)
      BY <1>3, <2>1, <2>3
    <3>2. CASE Before(rows, x, l)
      BY <3>1, <3>2
    <3>3. CASE Before(rows, l, x)
      <4>1. ASSUME NEW m \in T \ {x} PROVE Before(rows, m, x)
        BY <3>1, <3>3, <2>1, BeforeOrders
      <4>2. QED
        BY <2>1, <4>1
    <3>4. QED
      BY <2>1, <3>1, <3>2, <3>3, BeforeOrders
  <2>4. QED
    BY <2>2, <2>3
<1> HIDE DEF P
<1>4. S \in P
  BY <1>1, <1>2, <1>3, SumInduction
<1>5. QED
  BY <1>4 DEF P

(* The credits of lots that can be spent are a natural number. *)
LEMMA SpendableSums ==
  ASSUME NEW rows \in [Lots -> Rows], NEW now \in Nat, NEW T \in SUBSET Spendable(rows, now)
  PROVE  /\ IsFiniteSet(T) /\ T \subseteq Lots
         /\ \A l \in T : Remaining(rows)[l] \in Nat /\ Remaining(rows)[l] = rows[l].remaining
         /\ SumFunctionOnSet(Remaining(rows), T) \in Nat
<1>1. T \subseteq Lots /\ IsFiniteSet(Lots)
  BY BillingConstants, FS_Interval DEF Spendable, Lots
<1>2. IsFiniteSet(T)
  BY <1>1, FS_Subset
<1>3. \A l \in T : Remaining(rows)[l] \in Nat /\ Remaining(rows)[l] = rows[l].remaining
  BY <1>1 DEF Spendable, Rows, Remaining
<1>4. SumFunctionOnSet(Remaining(rows), T) \in Nat
  BY <1>2, <1>3, SumOfPart
<1>5. QED
  BY <1>1, <1>2, <1>3, <1>4

(* What is taken of a lot, in terms of what the lots before it have. *)
LEMMA TakeIs ==
  ASSUME NEW rows \in [Lots -> Rows], NEW now \in Nat, NEW amount \in Nat,
         NEW l \in Spendable(rows, now), NEW had,
         had = SumFunctionOnSet(Remaining(rows), Earlier(rows, now, l))
  PROVE  /\ had \in Nat /\ rows[l].remaining \in Nat \ {0}
         /\ had >= amount => Take(rows, now, amount, l) = 0
         /\ had < amount => Take(rows, now, amount, l)
                              = IF rows[l].remaining <= amount - had
                                THEN rows[l].remaining ELSE amount - had
<1>1. had \in Nat
  BY SpendableSums DEF Earlier
<1>2. rows[l].remaining \in Nat \ {0}
  BY DEF Spendable, Rows
<1>3. Outstanding(rows, now, amount, l) = amount - had
  BY DEF Outstanding, Remaining, Earlier
<1>4. ASSUME had < amount
      PROVE  Take(rows, now, amount, l) = Min({rows[l].remaining, amount - had})
  BY <1>1, <1>3, <1>4 DEF Take
<1>5. ASSUME had >= amount PROVE Take(rows, now, amount, l) = 0
  BY <1>1, <1>3, <1>5 DEF Take
<1>6. /\ Min({rows[l].remaining, amount - had}) \in {rows[l].remaining, amount - had}
      /\ Min({rows[l].remaining, amount - had}) <= rows[l].remaining
      /\ Min({rows[l].remaining, amount - had}) <= amount - had
  <2>1. rows[l].remaining \in Int /\ amount - had \in Int
    BY <1>1, <1>2
  <2>2. QED
    BY <2>1, MinOfTwo
<1>7. QED
  BY <1>1, <1>2, <1>4, <1>5, <1>6

(* What a plan takes from the lots up to some lot is the amount, or all that *)
(* they have: each lot gives what is still missing, or all it has.           *)
LEMMA PlanOfFirstLots ==
  ASSUME NEW rows \in [Lots -> Rows], NEW now \in Nat, NEW amount \in Nat
  PROVE  SumFunctionOnSet(Taking(rows, now, amount), Spendable(rows, now))
           = Min({amount, SumFunctionOnSet(Remaining(rows), Spendable(rows, now))})
<1> DEFINE open == Spendable(rows, now)
           has(T) == SumFunctionOnSet(Remaining(rows), T)
           takes(T) == SumFunctionOnSet(Taking(rows, now, amount), T)
           First(T) == \A l \in T : Earlier(rows, now, l) \subseteq T
           P == {T \in SUBSET open :
                   First(T) => takes(T) = IF has(T) <= amount THEN has(T) ELSE amount}
<1>1. IsFiniteSet(open) /\ open \subseteq Lots
  BY SpendableSums
<1>2. {} \in P
  <2>1. takes({}) = 0 /\ has({}) = 0
    BY SumOfNone
  <2>2. QED
    BY <2>1
<1>3. ASSUME NEW T \in SUBSET open, T # {}, \A x \in T : T \ {x} \in P
      PROVE  T \in P
  <2> SUFFICES ASSUME First(T)
               PROVE  takes(T) = IF has(T) <= amount THEN has(T) ELSE amount
    OBVIOUS
  <2>1. PICK l \in T : \A m \in T \ {l} : Before(rows, m, l)
    BY <1>1, <1>3, LastOfLots
  <2> DEFINE U == T \ {l}
  <2>2. Earlier(rows, now, l) = U
    <3>1. Earlier(rows, now, l) \subseteq T /\ l \notin Earlier(rows, now, l)
      BY <1>1, <2>1, BeforeOrders DEF Earlier
    <3>2. U \subseteq Earlier(rows, now, l)
      BY <2>1 DEF Earlier
    <3>3. QED
      BY <3>1, <3>2
  <2>3. First(U)
    <3> SUFFICES ASSUME NEW m \in U PROVE l \notin Earlier(rows, now, m)
      OBVIOUS
    <3>1. QED
      BY <1>1, <2>1, BeforeOrders DEF Earlier
  <2>4. takes(U) = IF has(U) <= amount THEN has(U) ELSE amount
    BY <1>3, <2>3
  <2>5. /\ has(T) = rows[l].remaining + has(U)
        /\ takes(T) = Take(rows, now, amount, l) + takes(U)
    <3>1. IsFiniteSet(T) /\ T \subseteq Lots
      BY SpendableSums
    <3>2. \A m \in T : Remaining(rows)[m] \in Int /\ Remaining(rows)[m] = rows[m].remaining
      BY SpendableSums
    <3>3. \A m \in T : Taking(rows, now, amount)[m] \in Int
      BY <3>1, TakeType DEF Taking
    <3>4. Taking(rows, now, amount)[l] = Take(rows, now, amount, l)
      BY <3>1 DEF Taking
    <3>5. QED
      BY <3>1, <3>2, <3>3, <3>4, SumWithout
  <2>6. /\ has(U) \in Nat /\ rows[l].remaining \in Nat \ {0}
        /\ has(U) >= amount => Take(rows, now, amount, l) = 0
        /\ has(U) < amount => Take(rows, now, amount, l)
                                = IF rows[l].remaining <= amount - has(U)
                                  THEN rows[l].remaining ELSE amount - has(U)
    <3>1. l \in open /\ has(U) = SumFunctionOnSet(Remaining(rows), Earlier(rows, now, l))
      BY <2>2
    <3> HIDE DEF has, U
    <3>2. QED
      BY <3>1, TakeIs
  <2> HIDE DEF has, takes, U
  <2>7. QED
    BY <2>4, <2>5, <2>6
<1>4. open \in P
  <2> HIDE DEF P
  <2> QED BY <1>1, <1>2, <1>3, SumInduction
<1>5. First(open)
  BY DEF Earlier
<1>6. takes(open) = IF has(open) <= amount THEN has(open) ELSE amount
  BY <1>4, <1>5
<1>7. has(open) \in Nat
  BY SpendableSums
<1>8. has(open) \in Int /\ amount \in Int
  BY <1>7
<1> HIDE DEF has, takes
<1>9. /\ Min({amount, has(open)}) \in {amount, has(open)}
      /\ Min({amount, has(open)}) <= amount /\ Min({amount, has(open)}) <= has(open)
  BY <1>8, MinOfTwo
<1>10. takes(open) = Min({amount, has(open)})
  BY <1>6, <1>8, <1>9
<1>11. QED
  BY <1>10 DEF has, takes

(* A lot is touched only when the lots before it are taken whole. *)
LEMMA PlanEmptiesEarlier ==
  ASSUME NEW rows \in [Lots -> Rows], NEW now \in Nat, NEW amount \in Nat,
         NEW l \in Spendable(rows, now), NEW m \in Spendable(rows, now),
         Before(rows, l, m), Take(rows, now, amount, m) > 0
  PROVE  Take(rows, now, amount, l) = rows[l].remaining
<1> DEFINE had(k) == SumFunctionOnSet(Remaining(rows), Earlier(rows, now, k))
<1>1. /\ had(l) \in Nat /\ rows[l].remaining \in Nat \ {0}
      /\ had(l) < amount => Take(rows, now, amount, l)
                              = IF rows[l].remaining <= amount - had(l)
                                THEN rows[l].remaining ELSE amount - had(l)
  BY TakeIs
<1>2. had(m) \in Nat /\ (had(m) >= amount => Take(rows, now, amount, m) = 0)
  BY TakeIs
<1> DEFINE S == Earlier(rows, now, m)
<1>3. l \in S /\ l \notin Earlier(rows, now, l) /\ Earlier(rows, now, l) \subseteq S \ {l}
  BY SpendableSums, BeforeOrders DEF Earlier, Spendable
<1>4. IsFiniteSet(S) /\ \A k \in S : Remaining(rows)[k] \in Nat
  BY SpendableSums DEF Earlier
<1>5. Remaining(rows)[l] = rows[l].remaining
  BY DEF Spendable, Remaining
<1>6. had(m) = rows[l].remaining + SumFunctionOnSet(Remaining(rows), S \ {l})
  BY <1>3, <1>4, <1>5, SumWithout
<1>7. /\ SumFunctionOnSet(Remaining(rows), S \ {l}) \in Nat
      /\ had(l) <= SumFunctionOnSet(Remaining(rows), S \ {l})
  <2>1. IsFiniteSet(S \ {l}) /\ \A k \in S \ {l} : Remaining(rows)[k] \in Nat
    BY <1>4, FS_Subset
  <2>2. Earlier(rows, now, l) \in SUBSET (S \ {l})
    BY <1>3
  <2> HIDE DEF S
  <2>3. QED
    BY <2>1, <2>2, SumOfPart
<1> HIDE DEF had
<1>8. had(m) < amount
  BY <1>2
<1>9. QED
  BY <1>1, <1>2, <1>6, <1>7, <1>8

(* "Credits are spent soonest-expiring first", and a shortfall is reported   *)
(* only when there is one: a charge takes what it asks for or all that it saw*)
(* spendable, and from no lot before those that expire sooner are empty.     *)
PlanIsFair ==
  \A c \in Callers : At(c, "charge") =>
    LET rows == call[c].seen
        open == Spendable(rows, call[c].now)
    IN  /\ Spent(c) = Min({Amount[call[c].about],
                          SumFunctionOnSet([l \in Lots |-> rows[l].remaining], open)})
        /\ \A l, m \in open : Planned(c, m) > 0 /\ rows[l].expiresAt < rows[m].expiresAt
                                => Planned(c, l) = rows[l].remaining

(* The plan of a charge (PlanIsFair), for any lots, amounts and keys: what it*)
(* asked for or all it saw, the soonest to expire first.                     *)
THEOREM PlansAreFair == BillingSpec => []PlanIsFair
<1>1. TypesAndCalls => PlanIsFair
  <2> SUFFICES ASSUME TypesAndCalls, NEW c \in Callers, At(c, "charge")
               PROVE  LET rows == call[c].seen
                          open == Spendable(rows, call[c].now)
                      IN  /\ Spent(c) = Min({Amount[call[c].about],
                                SumFunctionOnSet([l \in Lots |-> rows[l].remaining], open)})
                          /\ \A l, m \in open :
                               Planned(c, m) > 0 /\ rows[l].expiresAt < rows[m].expiresAt
                                 => Planned(c, l) = rows[l].remaining
    BY DEF PlanIsFair
  <2> DEFINE rows == call[c].seen
             now == call[c].now
             amount == Amount[call[c].about]
             open == Spendable(rows, now)
             plan == [l \in Lots |-> Planned(c, l)]
  <2>1. rows \in [Lots -> Rows] /\ now \in Nat /\ amount \in Nat
    <3>1. call[c] \in Calls /\ call[c].about \in ChargeKeys
      BY DEF TypesAndCalls, BillingTypeOK, CallFits, At
    <3>2. QED
      BY <3>1, BillingConstants DEF Calls
  <2>2. plan = Taking(rows, now, amount)
    BY DEF Planned, Taking
  <2>3. IsFiniteSet(Lots) /\ open \subseteq Lots /\ \A l \in Lots : plan[l] \in Nat
    <3>1. IsFiniteSet(Lots)
      BY BillingConstants, FS_Interval DEF Lots
    <3>2. QED
      BY <3>1, SpentType DEF Spendable
  <2>4. Spent(c) = SumFunctionOnSet(plan, Lots)
    BY SpentType
  <2>5. SumFunctionOnSet(plan, Lots) = SumFunctionOnSet(plan, open)
    <3>1. \A l \in Lots \ open : plan[l] = 0
      BY DEF Planned, Take
    <3> HIDE DEF plan, open
    <3>2. QED
      BY <2>3, <3>1, SumOfRest
  <2>6. SumFunctionOnSet(plan, open) = Min({amount, SumFunctionOnSet(Remaining(rows), open)})
    <3> HIDE DEF plan, rows, now, amount
    <3>1. QED
      BY <2>1, <2>2, PlanOfFirstLots
  <2>7. ASSUME NEW l \in open, NEW m \in open,
               Planned(c, m) > 0, rows[l].expiresAt < rows[m].expiresAt
        PROVE  Planned(c, l) = rows[l].remaining
    <3>1. Before(rows, l, m)
      BY <2>7 DEF Before
    <3>2. Take(rows, now, amount, m) > 0
      BY <2>7 DEF Planned
    <3>3. Take(rows, now, amount, l) = rows[l].remaining
      <4> HIDE DEF rows, now, amount
      <4> QED BY <2>1, <2>7, <3>1, <3>2, PlanEmptiesEarlier
    <3>4. QED
      BY <3>3 DEF Planned
  <2>8. QED
    BY <2>4, <2>5, <2>6, <2>7 DEF Remaining
<1>2. QED
  BY <1>1, BillingTypes, PTL

-----------------------------------------------------------------------------
(* Allowances *)

(* What the provider has active, or a request has read as active, was        *)
(* subscribed; a request on its way to an allowance has read it so.          *)
ActiveIsSubscribed ==
  /\ provider.status = "ACTIVE" => <<provider.plan, provider.period>> \in subscribed
  /\ \A c \in Callers :
       /\ call[c].remote.status = "ACTIVE" => GrantKey(c) \in subscribed
       /\ call[c].stage \in {"allowance", "grant"} => call[c].remote.status = "ACTIVE"

LEMMA SubscribedStep ==
  ASSUME TypesAndCalls, ActiveIsSubscribed, [BillingNext]_billingVars
  PROVE  ActiveIsSubscribed' /\ subscribed \subseteq subscribed'
<1>1. subscribed \subseteq subscribed'
  <2>1. ASSUME NEW e \in Events, ProviderMoves(e) PROVE subscribed \subseteq subscribed'
    BY <2>1 DEF ProviderMoves
  <2>2. QED
    BY <2>1, ProviderFrame
<1>2. provider'.status = "ACTIVE" => <<provider'.plan, provider'.period>> \in subscribed'
  <2>1. ASSUME NEW e \in Events, ProviderMoves(e), provider'.status = "ACTIVE"
        PROVE  <<provider'.plan, provider'.period>> \in subscribed'
    BY <2>1 DEF ProviderMoves
  <2>2. QED
    BY <2>1, ProviderFrame DEF ActiveIsSubscribed
<1>3. ASSUME NEW c \in Callers, call'[c].remote.status = "ACTIVE"
      PROVE  GrantKey(c)' \in subscribed'
  <2>1. call'[c].remote \in {call[c].remote, provider, NoSubscription}
    BY ReadsStep DEF Reads
  <2>2. NoSubscription.status # "ACTIVE"
    BY DEF NoSubscription
  <2>3. <<call'[c].remote.plan, call'[c].remote.period>> \in subscribed
    BY <1>3, <2>1, <2>2 DEF ActiveIsSubscribed, GrantKey
  <2>4. QED
    BY <1>1, <2>3 DEF GrantKey
<1>4. ASSUME NEW c \in Callers, call'[c].stage \in {"allowance", "grant"}
      PROVE  call'[c].remote.status = "ACTIVE"
  <2>1. call'[c].remote = call[c].remote
        /\ (call[c].stage \in {"allowance", "grant"} \/ call[c].remote.status = "ACTIVE")
    BY <1>4, ReadsStep DEF Reads
  <2>2. QED
    BY <2>1 DEF ActiveIsSubscribed
<1>5. QED
  BY <1>1, <1>2, <1>3, <1>4 DEF ActiveIsSubscribed

(* A lot that is not an allowance disturbs none.                             *)
LEMMA OtherLotIsNoAllowance ==
  ASSUME TypesAndCalls, LotsInOrder, AllowanceIsDue, subscribed \subseteq subscribed',
         NEW source \in {"MANUAL", "REVERSAL"}, NEW amount, NEW expiresAt,
         NewLot(source, amount, expiresAt, NoKey)
  PROVE  AllowanceIsDue'
<1>1. lot \in [Lots -> Rows] /\ source # "NONE" /\ source # "MONTHLY_ALLOWANCE"
  BY DEF TypesAndCalls, BillingTypeOK
<1>2. /\ lot'[NextLot] = [source |-> source, amount |-> amount, remaining |-> amount,
                         expiresAt |-> expiresAt, grantKey |-> NoKey]
      /\ \A l \in Lots \ {NextLot} : lot'[l] = lot[l]
  BY <1>1, NewLotEffect
<1>3. lot'[NextLot].source = source
  BY <1>2
<1>4. QED
  BY <1>1, <1>2, <1>3 DEF AllowanceIsDue

(* grantKey is unique among the lots, and the one a new allowance carries    *)
(* was read from the provider while it was active.                           *)
LEMMA AllowanceStep ==
  ASSUME TypesAndCalls, LotsInv, ActiveIsSubscribed, AllowanceIsDue, [BillingNext]_billingVars
  PROVE  AllowanceIsDue'
<1>1. lot \in [Lots -> Rows] /\ LotsInOrder /\ SeenIsGranted /\ subscribed \subseteq subscribed'
  BY SubscribedStep DEF TypesAndCalls, BillingTypeOK, LotsInv
<1>2. CASE UNCHANGED lot
  BY <1>1, <1>2 DEF AllowanceIsDue
<1>3. ASSUME NEW c \in Callers, Charge(c), lot' = Deducted(c) PROVE AllowanceIsDue'
  <2>1. \A l \in Lots : lot'[l].source = lot[l].source /\ lot'[l].grantKey = lot[l].grantKey
    BY <1>1, <1>3, DeductedEffect DEF Charge
  <2>2. QED
    BY <1>1, <2>1 DEF AllowanceIsDue
<1>4. ASSUME NEW c \in Callers, Reissue(c) \/ GrantCredits(c) PROVE AllowanceIsDue'
  <2>1. PICK source, amount, expiresAt :
          /\ source \in {"MANUAL", "REVERSAL"}
          /\ NewLot(source, amount, expiresAt, NoKey)
    BY <1>4 DEF Reissue, GrantCredits
  <2>2. QED
    BY <1>1, <2>1, OtherLotIsNoAllowance
<1>5. ASSUME NEW c \in Callers, AllowanceCreate(c), ~GrantedUnder(GrantKey(c))
      PROVE  AllowanceIsDue'
  <2>1. NewLot("MONTHLY_ALLOWANCE", MonthlyCredits[call[c].remote.plan],
               call[c].remote.period + 1, GrantKey(c))
    BY <1>5 DEF AllowanceCreate
  <2> DEFINE amount == MonthlyCredits[call[c].remote.plan]
             expiresAt == call[c].remote.period + 1
             key == GrantKey(c)
  <2>2. /\ lot'[NextLot].grantKey = key /\ NextLot \in Lots
        /\ \A l \in Lots \ {NextLot} : lot'[l] = lot[l]
    <3> HIDE DEF amount, expiresAt, key
    <3>1. /\ lot'[NextLot] = [source |-> "MONTHLY_ALLOWANCE", amount |-> amount,
                             remaining |-> amount, expiresAt |-> expiresAt, grantKey |-> key]
          /\ NextLot \in Lots /\ \A l \in Lots \ {NextLot} : lot'[l] = lot[l]
      BY <1>1, <2>1, NewLotEffect DEF amount, expiresAt, key
    <3>2. QED
      BY <3>1
  <2>3. GrantKey(c) \in subscribed'
    BY <1>1, <1>5 DEF AllowanceCreate, ActiveIsSubscribed, At
  <2>4. \A l \in Lots : lot[l].source = "MONTHLY_ALLOWANCE" => lot[l].grantKey # GrantKey(c)
    BY <1>5 DEF GrantedUnder, Granted
  <2>5. QED
    BY <1>1, <2>2, <2>3, <2>4 DEF AllowanceIsDue
<1>6. QED
  BY <1>2, <1>3, <1>4, <1>5, LotStep

(* One allowance per plan and period, however many deliveries overlap, die   *)
(* or come again, and only for what was subscribed (AllowanceIsDue).         *)
THEOREM AllowancesAreDue == BillingSpec => []AllowanceIsDue
<1>1. BillingInit => ActiveIsSubscribed /\ AllowanceIsDue
  <2> SUFFICES ASSUME BillingInit PROVE ActiveIsSubscribed /\ AllowanceIsDue
    OBVIOUS
  <2>1. ActiveIsSubscribed
    BY DEF BillingInit, ActiveIsSubscribed, NoSubscription, NoCall
  <2>2. AllowanceIsDue
    BY DEF BillingInit, AllowanceIsDue, NoLot
  <2>3. QED
    BY <2>1, <2>2
<1>2. TypesAndCalls /\ ActiveIsSubscribed /\ [BillingNext]_billingVars => ActiveIsSubscribed'
  BY SubscribedStep
<1>3. TypesAndCalls /\ LotsInv /\ ActiveIsSubscribed /\ AllowanceIsDue /\ [BillingNext]_billingVars
      => AllowanceIsDue'
  BY AllowanceStep
<1>4. QED
  BY <1>1, <1>2, <1>3, BillingTypes, LotsAreInOrder, PTL DEF BillingSpec

-----------------------------------------------------------------------------
(* The row of the subscription *)

(* Two subscriptions that agree, whatever else the rows have. *)
Same(s, t) == s.status = t.status /\ s.plan = t.plan /\ s.period = t.period

(* What a step may do to a request, as far as the row depends on it: leave   *)
(* it, end it or turn it to a charge, deliver an event, fail, take a step of *)
(* the handler up to the write of the row, or one of those after it.         *)
Handles(b) ==
  LET was == call[b]
      is == call'[b]
  IN  \/ is.about \notin Events /\ is.stage # "upsert"
      \/ is.stage = "record" /\ event[is.about] # "UNSENT"
      \/ /\ is.about = was.about
         /\ \/ /\ is.stage = was.stage /\ is.remote = was.remote
               /\ was.behind => is.behind
            \/ is.stage = "failing"
            \/ was.stage = "record" /\ is.stage # "upsert"
               /\ (KindOf[was.about] = "subscription" => is.stage = "fetch")
            \/ was.stage = "fetch" /\ is.stage = "upsert" /\ is.remote = provider
            \/ Upsert(b) /\ is.stage # "upsert"
            \/ was.stage \notin {"record", "fetch", "upsert", "failing"} /\ is.stage # "upsert"

LEMMA HandlesStep ==
  ASSUME TypesAndCalls, [BillingNext]_billingVars, NEW b \in Callers
  PROVE  Handles(b)
<1>1. call \in [Callers -> Calls] /\ call[b] \in Calls /\ CallFits(b)
  BY DEF TypesAndCalls, BillingTypeOK
<1>2. ChargeKeys \cap Events = {} /\ Nothing \notin Events
  BY BillingConstants
<1>3. CASE call'[b] = call[b]
  BY <1>3 DEF Handles
<1>4. CASE call'[b] = NoCall
  BY <1>2, <1>4 DEF Handles, NoCall
<1>5. ASSUME NEW stage \in CallStages, Goto(b, stage),
             \/ stage = "failing"
             \/ call[b].stage \notin {"record", "fetch", "upsert", "failing"} /\ stage # "upsert"
             \/ call[b].stage = "record" /\ stage # "upsert"
                /\ (KindOf[call[b].about] = "subscription" => stage = "fetch")
      PROVE  Handles(b)
  <2>1. call'[b].about = call[b].about /\ call'[b].stage = stage
    BY <1>1, <1>5, GotoEffect
  <2>2. QED
    BY <1>5, <2>1 DEF Handles
<1>6. CASE CreditStep(b)
  <2>1. ASSUME NEW k \in ChargeKeys, Replay(b, k) PROVE Handles(b)
    BY <1>3, <2>1 DEF Replay
  <2>2. ASSUME NEW k \in ChargeKeys, Consume(b, k) \/ Reverse(b, k) PROVE Handles(b)
    <3>1. PICK stage \in {"load", "reissue"} : Open(b, stage, k)
      BY <2>2 DEF Consume, Reverse
    <3>2. call'[b].about = k /\ call'[b].stage = stage
      BY <1>1, <3>1 DEF Open, NoCall
    <3>3. QED
      BY <1>2, <3>2 DEF Handles
  <2>3. CASE Load(b)
    <3>1. call'[b].about = call[b].about /\ call'[b].stage = "charge" /\ call[b].stage = "load"
      BY <1>1, <2>3 DEF Load, Calls, At
    <3>2. QED
      BY <3>1 DEF Handles
  <2>4. CASE Charge(b) \/ Reissue(b)
    BY <1>1, <1>4, <2>4, EndEffect DEF Charge, Reissue
  <2>5. CASE GrantCredits(b)
    <3>1. call'[b].about = call[b].about /\ call'[b].stage = "log" /\ call[b] = NoCall
      BY <1>1, <2>5, LotCreatedEffect DEF GrantCredits, CallFits
    <3>2. QED
      BY <1>2, <3>1 DEF Handles, NoCall
  <2>6. CASE Log(b)
    <3>1. CASE Goto(b, "close")
      BY <1>5, <2>6, <3>1 DEF Log, At, CallStages, Handling
    <3>2. CASE End(b)
      BY <1>1, <1>4, <3>2, EndEffect
    <3>3. QED
      BY <2>6, <3>1, <3>2 DEF Log
  <2>7. QED
    BY <1>6, <2>1, <2>2, <2>3, <2>4, <2>5, <2>6 DEF CreditStep
<1>7. CASE WebhookStep(b)
  <2>1. ASSUME NEW e \in Events, Deliver(b, e) PROVE Handles(b)
    <3>1. call'[b].about = e /\ call'[b].stage = "record" /\ event[e] # "UNSENT"
      BY <1>1, <2>1 DEF Deliver, NoCall
    <3>2. QED
      BY <3>1 DEF Handles
  <2>2. CASE Fetch(b)
    <3>1. /\ call'[b].about = call[b].about /\ call'[b].remote = provider
          /\ call'[b].stage = "upsert" /\ call[b].stage = "fetch"
      BY <1>1, <2>2 DEF Fetch, At, Calls
    <3>2. QED
      BY <3>1 DEF Handles
  <2>3. CASE Upsert(b)
    <3>1. call'[b].about = call[b].about /\ call'[b].stage # "upsert"
      BY <1>1, <2>3 DEF Upsert, Calls
    <3>2. QED
      BY <2>3, <3>1 DEF Handles
  <2>4. CASE Record(b)
    <3>1. PICK stage \in CallStages :
            /\ Goto(b, stage) /\ call[b].stage = "record" /\ stage # "upsert"
            /\ KindOf[call[b].about] = "subscription" => stage = "fetch"
      BY <2>4 DEF Record, At, CallStages, Handling
    <3>2. QED
      BY <1>5, <3>1
  <2>5. CASE AllowanceFind(b) \/ Invoice(b)
    <3>1. PICK stage \in CallStages :
            /\ Goto(b, stage) /\ stage # "upsert"
            /\ call[b].stage \notin {"record", "fetch", "upsert", "failing"}
      BY <2>5 DEF AllowanceFind, Invoice, At, CallStages, Handling
    <3>2. QED
      BY <1>5, <3>1
  <2>6. CASE AllowanceCreate(b)
    <3>1. CASE GrantedUnder(GrantKey(b))
      BY <1>5, <2>6, <3>1 DEF AllowanceCreate, CallStages, Handling
    <3>2. CASE ~GrantedUnder(GrantKey(b))
      <4>1. /\ call'[b].stage = "log" /\ call'[b].about = call[b].about
            /\ call[b].stage = "grant"
        BY <1>1, <2>6, <3>2, LotCreatedEffect DEF AllowanceCreate, At
      <4>2. QED
        BY <4>1 DEF Handles
    <3>3. QED
      BY <3>1, <3>2
  <2>7. CASE Close(b)
    BY <1>1, <1>4, <2>7, EndEffect DEF Close
  <2>8. QED
    BY <1>7, <2>1, <2>2, <2>3, <2>4, <2>5, <2>6, <2>7 DEF WebhookStep
<1>8. CASE Throw(b)
  BY <1>5, <1>8 DEF Throw, CallStages, Handling
<1>9. CASE RequestDies(b)
  BY <1>1, <1>4, <1>9, EndEffect DEF RequestDies
<1>10. ASSUME NEW c \in Callers, c # b, Upsert(c) PROVE Handles(b)
  <2>1. /\ call'[b].about = call[b].about /\ call'[b].stage = call[b].stage
        /\ call'[b].remote = call[b].remote /\ (call[b].behind => call'[b].behind)
    BY <1>1, <1>10 DEF Upsert, At, Calls
  <2>2. QED
    BY <2>1 DEF Handles
<1>11. ASSUME NEW c \in Callers, c # b,
              CreditStep(c) \/ (WebhookStep(c) /\ ~Upsert(c)) \/ Throw(c) \/ RequestDies(c)
       PROVE  call'[b] = call[b]
  BY <1>1, <1>11 DEF CreditStep, Replay, Consume, Reverse, Open, Load, Charge, Reissue,
     GrantCredits, Log, WebhookStep, Deliver, Record, Fetch, AllowanceFind, AllowanceCreate,
     Invoice, Close, Throw, RequestDies, Goto, End
<1>12. CASE BillingNext
  BY <1>3, <1>6, <1>7, <1>8, <1>9, <1>10, <1>11, <1>12
     DEF BillingNext, ProviderMoves, ProviderSends, TimePasses
<1>13. CASE UNCHANGED billingVars
  BY <1>3, <1>13 DEF billingVars
<1>14. QED
  BY <1>12, <1>13

(* What a step may do to an event, and to the row.                           *)
EventMoves(e) ==
  \/ event'[e] = event[e]
  \/ event[e] = "UNSENT" /\ event'[e] = "SENT"
  \/ event'[e] = "RECEIVED"
  \/ \E c \in Callers : /\ call[c].about = e
                        /\ \/ call[c].stage \in {"close", "ignore"} /\ event'[e] # "UNSENT"
                           \/ call[c].stage = "failing" /\ event'[e] = "FAILED"

LEMMA EventStep ==
  ASSUME TypesAndCalls, [BillingNext]_billingVars, NEW e \in Events
  PROVE  EventMoves(e)
<1>1. event \in [Events -> EventStatus]
  BY DEF TypesAndCalls, BillingTypeOK
<1>2. CASE UNCHANGED event
  BY <1>2 DEF EventMoves
<1>3. ASSUME NEW c \in Callers, CreditStep(c) PROVE UNCHANGED event
  BY <1>3, CreditFrame DEF billed
<1>4. ASSUME NEW c \in Callers, Record(c) PROVE EventMoves(e)
  BY <1>1, <1>4 DEF Record, SetEvent, EventMoves
<1>5. ASSUME NEW c \in Callers, Close(c) PROVE EventMoves(e)
  <2>1. CASE call[c].about = e
    <3>1. event'[e] = Outcome[call[c].stage] /\ call[c].stage \in {"close", "ignore", "failing"}
      BY <1>1, <1>5, <2>1 DEF Close, SetEvent, Outcome
    <3>2. QED
      BY <2>1, <3>1 DEF Outcome, EventMoves
  <2>2. CASE call[c].about # e
    BY <1>1, <1>5, <2>2 DEF Close, SetEvent, EventMoves
  <2>3. QED
    BY <2>1, <2>2
<1>6. ASSUME NEW c \in Callers, WebhookStep(c), ~Record(c), ~Close(c) PROVE UNCHANGED event
  BY <1>6 DEF WebhookStep, Deliver, Fetch, Upsert, AllowanceFind, AllowanceCreate, Invoice, billed
<1>7. ASSUME NEW c \in Callers, Throw(c) \/ RequestDies(c) PROVE UNCHANGED event
  BY <1>7 DEF Throw, RequestDies, billed
<1>8. ASSUME NEW f \in Events, ProviderMoves(f) \/ ProviderSends(f) PROVE EventMoves(e)
  <2>1. event[f] = "UNSENT" /\ event' = [event EXCEPT ![f] = "SENT"]
    BY <1>8 DEF ProviderMoves, ProviderSends
  <2>2. QED
    BY <1>1, <2>1 DEF EventMoves
<1>9. CASE TimePasses \/ UNCHANGED billingVars
  BY <1>2, <1>9 DEF TimePasses, billingVars, billed
<1>10. QED
  BY <1>2, <1>3, <1>4, <1>5, <1>6, <1>7, <1>8, <1>9 DEF BillingNext

(* Only an upsert writes the status, the plan or the period of the row. *)
LEMMA RowStep ==
  ASSUME TypesAndCalls, [BillingNext]_billingVars
  PROVE  \/ (Same(sub, sub'))
         \/ \E c \in Callers : Upsert(c)
<1>1. sub \in [status : SubscriptionStatus, plan : Plans, period : Nat, failed : BOOLEAN]
  BY DEF TypesAndCalls, BillingTypeOK
<1>2. CASE UNCHANGED sub
  BY <1>2 DEF Same
<1>3. ASSUME NEW c \in Callers, CreditStep(c) PROVE UNCHANGED sub
  BY <1>3, CreditFrame DEF billed
<1>4. ASSUME NEW c \in Callers, Invoice(c) PROVE Same(sub, sub')
  BY <1>1, <1>4 DEF Invoice, Same
<1>5. ASSUME NEW c \in Callers, WebhookStep(c), ~Invoice(c), ~Upsert(c) PROVE UNCHANGED sub
  BY <1>5 DEF WebhookStep, Deliver, Record, Fetch, AllowanceFind, AllowanceCreate, Close, billed
<1>6. ASSUME NEW c \in Callers, Throw(c) \/ RequestDies(c) PROVE UNCHANGED sub
  BY <1>6 DEF Throw, RequestDies, billed
<1>7. ASSUME NEW e \in Events, ProviderMoves(e) \/ ProviderSends(e) PROVE UNCHANGED sub
  BY <1>7 DEF ProviderMoves, ProviderSends
<1>8. CASE TimePasses \/ UNCHANGED billingVars
  BY <1>2, <1>8 DEF TimePasses, billingVars, billed
<1>9. QED
  BY <1>2, <1>3, <1>4, <1>5, <1>6, <1>7, <1>8 DEF BillingNext

(* A crossing of two handlers is never forgotten. *)
LEMMA LateSyncStays ==
  ASSUME [BillingNext]_billingVars, lateSync
  PROVE  lateSync'
<1>1. ASSUME NEW c \in Callers, CreditStep(c) PROVE lateSync'
  BY <1>1, CreditFrame DEF billed
<1>2. ASSUME NEW c \in Callers, WebhookStep(c) PROVE lateSync'
  BY <1>2 DEF WebhookStep, Deliver, Record, Fetch, Upsert, AllowanceFind, AllowanceCreate,
     Invoice, Close, billed
<1>3. QED
  BY <1>1, <1>2 DEF BillingNext, Throw, RequestDies, ProviderMoves, ProviderSends, TimePasses,
     billingVars, billed

(* No request is about an event that was not sent. *)
UnsentIsUnknown ==
  \A e \in Events, c \in Callers : event[e] = "UNSENT" => call[c].about # e

(* The row is what the provider has, and so it stays: a handler about to     *)
(* write has read the same, or was overtaken.                                *)
InStep ==
  /\ Same(sub, provider)
  /\ \A c \in Callers : At(c, "upsert") => call[c].behind \/ call[c].remote = provider

(* e has yet to be processed, by a request that will first write the row.    *)
Unprocessed(e) ==
  /\ KindOf[e] = "subscription" /\ event[e] \notin {"UNSENT", "PROCESSED", "IGNORED"}
  /\ \A c \in Callers : call[c].about = e =>
       \/ call[c].stage \in {"record", "fetch", "failing"}
       \/ At(c, "upsert") /\ call[c].remote = provider

(* The row is current, or an event will make it so, or handlers crossed. *)
RowIsDue == lateSync \/ InStep \/ \E e \in Events : Unprocessed(e)

(* What is not sent is not delivered. *)
LEMMA UnsentStep ==
  ASSUME TypesAndCalls, UnsentIsUnknown, [BillingNext]_billingVars
  PROVE  UnsentIsUnknown'
<1> SUFFICES ASSUME NEW e \in Events, NEW b \in Callers, event'[e] = "UNSENT", call'[b].about = e
             PROVE  FALSE
  BY DEF UnsentIsUnknown
<1>1. event[e] = "UNSENT"
  BY EventStep DEF EventMoves
<1>2. call[b].about # e
  BY <1>1 DEF UnsentIsUnknown
<1>3. QED
  BY <1>1, <1>2, HandlesStep DEF Handles

(* The write of a row that was read from the provider brings it in step.     *)
LEMMA UpsertInStep ==
  ASSUME TypesAndCalls, NEW c \in Callers, Upsert(c), call[c].remote = provider
  PROVE  InStep'
<1>1. call \in [Callers -> Calls]
  BY DEF TypesAndCalls, BillingTypeOK
<1>2. provider' = provider /\ Same(sub, provider)'
  BY DEF Upsert, Written, Same
<1>3. ASSUME NEW b \in Callers, At(b, "upsert")' PROVE call'[b].behind
  <2>1. b # c
    BY <1>1, <1>3 DEF Upsert, At, Calls
  <2>2. At(b, "upsert")
    BY <1>1, <1>3, <2>1 DEF Upsert, At
  <2>3. QED
    BY <1>1, <2>1, <2>2 DEF Upsert, Calls
<1>4. QED
  BY <1>2, <1>3 DEF InStep, At

(* Without a change at the provider the row stays in step. *)
LEMMA InStepStep ==
  ASSUME TypesAndCalls, InStep, [BillingNext]_billingVars, ~ \E e \in Events : ProviderMoves(e)
  PROVE  lateSync' \/ InStep'
<1>1. provider' = provider
  BY ProviderFrame
<1>2. ASSUME NEW c \in Callers, Upsert(c) PROVE lateSync' \/ InStep'
  <2>1. CASE call[c].behind
    BY <1>2, <2>1 DEF Upsert
  <2>2. CASE call[c].remote = provider
    BY <1>2, <2>2, UpsertInStep
  <2>3. QED
    BY <1>2, <2>1, <2>2 DEF InStep, Upsert
<1>3. ASSUME Same(sub, sub'), NEW b \in Callers, At(b, "upsert")'
      PROVE  call'[b].behind \/ call'[b].remote = provider
  BY <1>3, HandlesStep DEF Handles, InStep, At
<1>4. CASE Same(sub, sub')
  BY <1>1, <1>3, <1>4 DEF InStep, Same
<1>5. QED
  BY <1>2, <1>4, RowStep

(* A request about a pending event writes the row or leaves the event so.    *)
LEMMA PendingStep ==
  ASSUME TypesAndCalls, NEW e \in Events, Unprocessed(e), [BillingNext]_billingVars,
         ~ \E f \in Events : ProviderMoves(f)
  PROVE  InStep' \/ Unprocessed(e)'
<1>1. provider' = provider
  BY ProviderFrame
<1>2. ASSUME NEW c \in Callers, Upsert(c), call[c].about = e PROVE InStep'
  <2>1. call[c].remote = provider
    BY <1>2 DEF Upsert, Unprocessed, At
  <2>2. QED
    BY <1>2, <2>1, UpsertInStep
<1>3. CASE ~ \E c \in Callers : Upsert(c) /\ call[c].about = e
  <2>1. event'[e] \notin {"UNSENT", "PROCESSED", "IGNORED"}
    <3>1. EventMoves(e)
      BY EventStep
    <3>2. ASSUME NEW c \in Callers, call[c].about = e
          PROVE  call[c].stage \notin {"close", "ignore"}
      BY <3>2 DEF Unprocessed, At
    <3>3. QED
      BY <3>1, <3>2 DEF EventMoves, Unprocessed
  <2>2. ASSUME NEW b \in Callers, call'[b].about = e
        PROVE  \/ call'[b].stage \in {"record", "fetch", "failing"}
               \/ call'[b].stage = "upsert" /\ call'[b].remote = provider
    BY <1>3, <2>2, HandlesStep DEF Handles, Unprocessed, At
  <2>3. QED
    BY <1>1, <2>1, <2>2 DEF Unprocessed, At
<1>4. QED
  BY <1>2, <1>3

(* A change at the provider leaves its own event to be processed. *)
LEMMA RowIsDueStep ==
  ASSUME TypesAndCalls, UnsentIsUnknown, RowIsDue, [BillingNext]_billingVars
  PROVE  RowIsDue'
<1>1. ASSUME NEW e \in Events, ProviderMoves(e) PROVE Unprocessed(e)'
  <2>1. /\ KindOf[e] = "subscription" /\ event'[e] = "SENT" /\ call' = call
        /\ \A c \in Callers : call[c].about # e
    BY <1>1 DEF ProviderMoves, UnsentIsUnknown, TypesAndCalls, BillingTypeOK
  <2>2. QED
    BY <2>1 DEF Unprocessed
<1>2. CASE ~ \E e \in Events : ProviderMoves(e)
  BY <1>2, LateSyncStays, InStepStep, PendingStep DEF RowIsDue
<1>3. QED
  BY <1>1, <1>2 DEF RowIsDue

(* Once every event of the subscription has been processed, the row is what  *)
(* the provider has, unless two handlers crossed (SubscriptionIsCurrent).    *)
THEOREM RowIsCurrent == BillingSpec => []SubscriptionIsCurrent
<1>1. BillingInit => UnsentIsUnknown /\ RowIsDue
  <2> SUFFICES ASSUME BillingInit PROVE UnsentIsUnknown /\ RowIsDue
    OBVIOUS
  <2>1. UnsentIsUnknown
    BY BillingConstants DEF BillingInit, UnsentIsUnknown, NoCall
  <2>2. Same(sub, provider)
    BY DEF BillingInit, Same, NoSubscription
  <2>3. \A c \in Callers : ~At(c, "upsert")
    BY DEF BillingInit, At, NoCall
  <2>4. QED
    BY <2>1, <2>2, <2>3 DEF RowIsDue, InStep
<1>2. TypesAndCalls /\ UnsentIsUnknown /\ [BillingNext]_billingVars => UnsentIsUnknown'
  BY UnsentStep
<1>3. TypesAndCalls /\ UnsentIsUnknown /\ RowIsDue /\ [BillingNext]_billingVars => RowIsDue'
  BY RowIsDueStep
<1>4. RowIsDue => SubscriptionIsCurrent
  <2> SUFFICES ASSUME RowIsDue, ~lateSync,
                      \A e \in Events : KindOf[e] = "subscription"
                                        => event[e] \in {"UNSENT", "PROCESSED"}
               PROVE  \A field \in {"status", "plan", "period"} : sub[field] = provider[field]
    BY DEF SubscriptionIsCurrent
  <2>1. ~ \E e \in Events : Unprocessed(e)
    BY DEF Unprocessed
  <2>2. Same(sub, provider)
    BY <2>1 DEF RowIsDue, InStep
  <2>3. QED
    BY <2>2 DEF Same
<1>5. QED
  BY <1>1, <1>2, <1>3, <1>4, BillingTypes, PTL DEF BillingSpec
=============================================================================
