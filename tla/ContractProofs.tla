---------------------------- MODULE ContractProofs ----------------------------
(***************************************************************************)
(* What holds of the settlement contract and of the copies of its split,   *)
(* for any accounts, orders, lists of recipients, totals, fee and size of  *)
(* integers: its types, that it is atomic, that each recipient is paid its *)
(* part and no unit is lost, and that the other computations agree.        *)
(***************************************************************************)
EXTENDS SettlementMirror, FiniteSetTheorems, TLAPS

-----------------------------------------------------------------------------
(* Sums over finite sets.  A sum is a recursive function on the subsets of *)
(* a set; the induction is over these, by the well-foundedness of their    *)
(* inclusion: a set of counterexamples has a smallest one.                 *)

LEMMA SmallestSet ==
  ASSUME NEW S, IsFiniteSet(S), NEW Bad \in SUBSET SUBSET S, Bad # {}
  PROVE  \E T \in Bad : \A U \in Bad : U \subseteq T => U = T
<1>1. IsWellFoundedOn(StrictSubsetOrdering(S), SUBSET S)
  BY FS_StrictSubsetOrderingWellFounded, FS_FiniteSubsetsOfFinite
<1>2. PICK T \in Bad : \A U \in Bad : <<U, T>> \notin StrictSubsetOrdering(S)
  BY <1>1, WFMin
<1>. QED BY <1>2 DEF StrictSubsetOrdering

(* How the fold goes through a set, and what it computes on the way. *)
Pick(s) == CHOOSE x \in s : TRUE
IsSum(t, g, S) ==
  t = [s \in SUBSET S |-> IF s = {} THEN 0 ELSE g[Pick(s)] + t[s \ {Pick(s)}]]


LEMMA SumStep ==
  ASSUME NEW S, NEW g, NEW t, IsSum(t, g, S), NEW s \in SUBSET S, s # {}
  PROVE  Pick(s) \in s /\ t[s] = g[Pick(s)] + t[s \ {Pick(s)}]
<1>1. Pick(s) \in s
  BY DEF Pick
<1>. QED BY <1>1 DEF IsSum

(* There is one such function, whatever larger set it is taken from. *)
LEMMA SumUnique ==
  ASSUME NEW S, IsFiniteSet(S), NEW T \in SUBSET S, NEW g, NEW t, NEW u,
         IsSum(t, g, S), IsSum(u, g, T)
  PROVE  \A s \in SUBSET T : t[s] = u[s]
<1> DEFINE Bad == {s \in SUBSET T : t[s] # u[s]}
<1> SUFFICES ASSUME Bad # {} PROVE FALSE
  OBVIOUS
<1>1. PICK s \in Bad : \A U \in Bad : U \subseteq s => U = s
  <2>1. Bad \in SUBSET SUBSET S
    OBVIOUS
  <2>. HIDE DEF Bad
  <2>. QED BY <2>1, SmallestSet
<1>2. s # {}
  BY <1>1 DEF IsSum
<1>3. /\ Pick(s) \in s /\ t[s] = g[Pick(s)] + t[s \ {Pick(s)}]
      /\ u[s] = g[Pick(s)] + u[s \ {Pick(s)}]
  BY <1>1, <1>2, SumStep
<1>4. t[s \ {Pick(s)}] = u[s \ {Pick(s)}]
  BY <1>1, <1>3
<1>. QED BY <1>1, <1>3, <1>4

LEMMA SumIs ==
  ASSUME NEW S, NEW g
  PROVE  SumFunctionOnSet(g, S) = (CHOOSE t : IsSum(t, g, S))[S]
BY DEF SumFunctionOnSet, FoldFunctionOnSet, MapThenFoldSet, IsSum, Pick

LEMMA SumExists ==
  ASSUME NEW S, IsFiniteSet(S), NEW g
  PROVE  \E t : IsSum(t, g, S)
<1> DEFINE Bad == {T \in SUBSET S : ~\E t : IsSum(t, g, T)}
<1> SUFFICES ASSUME S \in Bad PROVE FALSE
  OBVIOUS
<1>1. PICK T \in Bad : \A U \in Bad : U \subseteq T => U = T
  <2>1. Bad \in SUBSET SUBSET S
    OBVIOUS
  <2>. HIDE DEF Bad
  <2>. QED BY <2>1, SmallestSet
<1>2. \A U \in SUBSET T : U # T => IsSum(CHOOSE t : IsSum(t, g, U), g, U)
  BY <1>1
<1> DEFINE new == [s \in SUBSET T |->
                     IF s = {} THEN 0 ELSE g[Pick(s)] + SumFunctionOnSet(g, s \ {Pick(s)})]
<1>3. ASSUME NEW s \in SUBSET T, s # T PROVE new[s] = SumFunctionOnSet(g, s)
  <2> DEFINE c == CHOOSE t : IsSum(t, g, s)
  <2>1. IsSum(c, g, s)
    BY <1>2, <1>3
  <2>2. CASE s = {}
    BY <2>1, <2>2, SumIs DEF IsSum
  <2>3. CASE s # {}
    <3> DEFINE d == CHOOSE t : IsSum(t, g, s \ {Pick(s)})
    <3>1. Pick(s) \in s /\ c[s] = g[Pick(s)] + c[s \ {Pick(s)}]
      BY <2>1, <2>3, SumStep
    <3>2. IsSum(d, g, s \ {Pick(s)})
      BY <1>2, <1>3, <3>1
    <3>3. IsFiniteSet(s)
      BY FS_Subset
    <3>4. c[s \ {Pick(s)}] = d[s \ {Pick(s)}]
      <4>1. s \ {Pick(s)} \in SUBSET s
        OBVIOUS
      <4>. HIDE DEF c, d
      <4>2. \A r \in SUBSET (s \ {Pick(s)}) : c[r] = d[r]
        BY ONLY <2>1, <3>2, <3>3, <4>1, SumUnique
      <4>. QED BY <4>2
    <3>. QED BY <2>3, <3>1, <3>4, SumIs
  <2>. QED BY <2>2, <2>3
<1>4. \A s \in SUBSET T : s # {} => Pick(s) \in s
  BY DEF Pick
<1>5. \A s \in SUBSET T : s # {} => new[s] = g[Pick(s)] + new[s \ {Pick(s)}]
  <2>1. ASSUME NEW s \in SUBSET T, s # {} PROVE new[s] = g[Pick(s)] + new[s \ {Pick(s)}]
    <3>1. /\ s \ {Pick(s)} \in SUBSET T /\ s \ {Pick(s)} # T
      BY <1>4, <2>1
    <3>2. new[s \ {Pick(s)}] = SumFunctionOnSet(g, s \ {Pick(s)})
      BY <1>3, <3>1
    <3>3. new[s] = g[Pick(s)] + SumFunctionOnSet(g, s \ {Pick(s)})
      BY <2>1
    <3>. QED BY <3>2, <3>3
  <2>. QED BY <2>1
<1>6. IsSum(new, g, T)
  BY <1>5 DEF IsSum
<1>. QED BY <1>1, <1>6

(* So a sum is what it is without the element picked, and that element;    *)
(* and then, for integers, without any one element.                        *)
LEMMA SumRecursive ==
  ASSUME NEW S, IsFiniteSet(S), NEW g
  PROVE  /\ SumFunctionOnSet(g, {}) = 0
         /\ S # {} => Pick(S) \in S /\ SumFunctionOnSet(g, S) = g[Pick(S)] + SumFunctionOnSet(g, S \ {Pick(S)})
<1>1. SumFunctionOnSet(g, {}) = 0
  <2>1. IsSum(CHOOSE t : IsSum(t, g, {}), g, {})
    BY SumExists, FS_EmptySet
  <2>. QED BY <2>1, SumIs DEF IsSum
<1>2. ASSUME S # {} PROVE Pick(S) \in S /\ SumFunctionOnSet(g, S) = g[Pick(S)] + SumFunctionOnSet(g, S \ {Pick(S)})
  <2> DEFINE c == CHOOSE t : IsSum(t, g, S)
             d == CHOOSE t : IsSum(t, g, S \ {Pick(S)})
  <2>1. IsSum(c, g, S) /\ IsSum(d, g, S \ {Pick(S)})
    BY SumExists, FS_RemoveElement
  <2>2. Pick(S) \in S /\ c[S] = g[Pick(S)] + c[S \ {Pick(S)}]
    BY <1>2, <2>1, SumStep
  <2>3. c[S \ {Pick(S)}] = d[S \ {Pick(S)}]
    <3>. HIDE DEF c, d
    <3>. QED BY <2>1, SumUnique
  <2>. QED BY <2>2, <2>3, SumIs
<1>. QED BY <1>1, <1>2

LEMMA SumIsInt ==
  ASSUME NEW S, IsFiniteSet(S), NEW g, \A x \in S : g[x] \in Int
  PROVE  SumFunctionOnSet(g, S) \in Int
<1> DEFINE Bad == {T \in SUBSET S : SumFunctionOnSet(g, T) \notin Int}
<1> SUFFICES ASSUME S \in Bad PROVE FALSE
  OBVIOUS
<1>1. PICK T \in Bad : \A U \in Bad : U \subseteq T => U = T
  <2>1. Bad \in SUBSET SUBSET S
    OBVIOUS
  <2>. HIDE DEF Bad
  <2>. QED BY <2>1, SmallestSet
<1>2. IsFiniteSet(T)
  BY <1>1, FS_Subset
<1>3. /\ SumFunctionOnSet(g, {}) = 0
      /\ T # {} => Pick(T) \in T /\ SumFunctionOnSet(g, T) = g[Pick(T)] + SumFunctionOnSet(g, T \ {Pick(T)})
  BY <1>2, SumRecursive
<1>4. T # {} => SumFunctionOnSet(g, T \ {Pick(T)}) \in Int
  BY <1>1, <1>3
<1>5. T # {} => g[Pick(T)] \in Int
  <2>1. T \in SUBSET S
    BY <1>1
  <2>. QED BY <1>3, <2>1
<1>6. SumFunctionOnSet(g, T) \in Int
  <2>1. CASE T = {}
    BY <1>3, <2>1
  <2>2. CASE T # {}
    BY <1>3, <1>4, <1>5, <2>2
  <2>. QED BY <2>1, <2>2
<1>. QED BY <1>1, <1>6

LEMMA SumRemove ==
  ASSUME NEW S, IsFiniteSet(S), NEW g, \A x \in S : g[x] \in Int, NEW x \in S
  PROVE  SumFunctionOnSet(g, S) = g[x] + SumFunctionOnSet(g, S \ {x})
<1> DEFINE Bad == {T \in SUBSET S : \E y \in T : SumFunctionOnSet(g, T) # g[y] + SumFunctionOnSet(g, T \ {y})}
<1> SUFFICES ASSUME S \in Bad PROVE FALSE
  OBVIOUS
<1>1. PICK T \in Bad : \A U \in Bad : U \subseteq T => U = T
  <2>1. Bad \in SUBSET SUBSET S
    OBVIOUS
  <2>. HIDE DEF Bad
  <2>. QED BY <2>1, SmallestSet
<1>2. PICK y \in T : SumFunctionOnSet(g, T) # g[y] + SumFunctionOnSet(g, T \ {y})
  BY <1>1
<1>3. PICK p \in T : SumFunctionOnSet(g, T) = g[p] + SumFunctionOnSet(g, T \ {p})
  <2>1. IsFiniteSet(T)
    BY <1>1, FS_Subset
  <2>. QED BY <1>2, <2>1, SumRecursive
<1>4. p # y
  BY <1>2, <1>3
<1>5. /\ SumFunctionOnSet(g, T \ {p}) = g[y] + SumFunctionOnSet(g, (T \ {p}) \ {y})
      /\ SumFunctionOnSet(g, T \ {y}) = g[p] + SumFunctionOnSet(g, (T \ {y}) \ {p})
  <2>1. ASSUME NEW U \in SUBSET T, U # T, NEW z \in U
        PROVE  SumFunctionOnSet(g, U) = g[z] + SumFunctionOnSet(g, U \ {z})
    BY <1>1, <2>1
  <2>2. /\ T \ {p} \in SUBSET T /\ T \ {p} # T /\ y \in T \ {p}
        /\ T \ {y} \in SUBSET T /\ T \ {y} # T /\ p \in T \ {y}
    BY <1>2, <1>3, <1>4
  <2>. HIDE DEF Bad
  <2>. QED BY <2>1, <2>2
<1>6. (T \ {p}) \ {y} = (T \ {y}) \ {p}
  OBVIOUS
<1>7. SumFunctionOnSet(g, (T \ {y}) \ {p}) \in Int
  <2>1. IsFiniteSet((T \ {y}) \ {p})
    BY <1>1, FS_Subset
  <2>2. \A z \in (T \ {y}) \ {p} : g[z] \in Int
    BY <1>1
  <2>. QED BY <2>1, <2>2, SumIsInt
<1>8. g[p] \in Int /\ g[y] \in Int
  BY <1>1
<1>9. SumFunctionOnSet(g, T \ {p}) = g[y] + SumFunctionOnSet(g, (T \ {y}) \ {p})
  BY <1>5, <1>6, Zenon
<1>. QED BY <1>2, <1>3, <1>5, <1>7, <1>8, <1>9

LEMMA SumEmpty ==
  ASSUME NEW g
  PROVE  SumFunctionOnSet(g, {}) = 0
BY SumRecursive, FS_EmptySet

LEMMA SumAdd ==
  ASSUME NEW S, IsFiniteSet(S), NEW x, x \notin S,
         NEW g, \A y \in S \cup {x} : g[y] \in Int
  PROVE  SumFunctionOnSet(g, S \cup {x}) = SumFunctionOnSet(g, S) + g[x]
<1>1. IsFiniteSet(S \cup {x}) /\ (S \cup {x}) \ {x} = S /\ x \in S \cup {x}
  BY FS_AddElement
<1>2. SumFunctionOnSet(g, S \cup {x}) = g[x] + SumFunctionOnSet(g, S)
  <2>1. SumFunctionOnSet(g, S \cup {x}) = g[x] + SumFunctionOnSet(g, (S \cup {x}) \ {x})
    BY <1>1, SumRemove
  <2>. QED BY <1>1, <2>1, Zenon
<1>3. SumFunctionOnSet(g, S) \in Int /\ g[x] \in Int
  BY SumIsInt
<1>. QED BY <1>2, <1>3

(* Only the values on the set count. *)
LEMMA SumSame ==
  ASSUME NEW S, IsFiniteSet(S), NEW g, NEW h, \A x \in S : g[x] = h[x]
  PROVE  SumFunctionOnSet(g, S) = SumFunctionOnSet(h, S)
<1> DEFINE Bad == {T \in SUBSET S : SumFunctionOnSet(g, T) # SumFunctionOnSet(h, T)}
<1> SUFFICES ASSUME S \in Bad PROVE FALSE
  OBVIOUS
<1>1. PICK T \in Bad : \A U \in Bad : U \subseteq T => U = T
  <2>1. Bad \in SUBSET SUBSET S
    OBVIOUS
  <2>. HIDE DEF Bad
  <2>. QED BY <2>1, SmallestSet
<1>2. T \in SUBSET S /\ IsFiniteSet(T)
  BY <1>1, FS_Subset
<1>3. T # {}
  BY <1>1, SumEmpty
<1>4. /\ Pick(T) \in T
      /\ SumFunctionOnSet(g, T) = g[Pick(T)] + SumFunctionOnSet(g, T \ {Pick(T)})
      /\ SumFunctionOnSet(h, T) = h[Pick(T)] + SumFunctionOnSet(h, T \ {Pick(T)})
  BY <1>2, <1>3, SumRecursive
<1>5. SumFunctionOnSet(g, T \ {Pick(T)}) = SumFunctionOnSet(h, T \ {Pick(T)})
  BY <1>1, <1>2, <1>4
<1>6. g[Pick(T)] = h[Pick(T)]
  BY <1>2, <1>4
<1>. QED BY <1>1, <1>4, <1>5, <1>6

(* One value may change, by as much as the sum does. *)
LEMMA SumChange ==
  ASSUME NEW S, IsFiniteSet(S), NEW x \in S,
         NEW g, \A y \in S : g[y] \in Int,
         NEW h, \A y \in S : h[y] \in Int,
         \A y \in S \ {x} : h[y] = g[y]
  PROVE  SumFunctionOnSet(h, S) = SumFunctionOnSet(g, S) - g[x] + h[x]
<1>1. IsFiniteSet(S \ {x})
  BY FS_RemoveElement
<1>2. SumFunctionOnSet(g, S \ {x}) = SumFunctionOnSet(h, S \ {x})
  BY <1>1, SumSame
<1>3. /\ SumFunctionOnSet(g, S) = g[x] + SumFunctionOnSet(g, S \ {x})
      /\ SumFunctionOnSet(h, S) = h[x] + SumFunctionOnSet(h, S \ {x})
  BY SumRemove
<1>4. SumFunctionOnSet(g, S \ {x}) \in Int
  BY <1>1, SumIsInt
<1>. QED BY <1>2, <1>3, <1>4

(* A sum grows by the next element. *)
LEMMA SumUpTo ==
  ASSUME NEW n \in Nat, NEW g, \A i \in 1 .. n + 1 : g[i] \in Int
  PROVE  SumFunctionOnSet(g, 1 .. n + 1) = SumFunctionOnSet(g, 1 .. n) + g[n + 1]
<1>1. IsFiniteSet(1 .. n) /\ n + 1 \notin 1 .. n /\ (1 .. n) \cup {n + 1} = 1 .. n + 1
  BY FS_Interval
<1>2. SumFunctionOnSet(g, (1 .. n) \cup {n + 1}) = SumFunctionOnSet(g, 1 .. n) + g[n + 1]
  <2>1. \A y \in (1 .. n) \cup {n + 1} : g[y] \in Int
    OBVIOUS
  <2> DEFINE S == 1 .. n
             x == n + 1
  <2>2. IsFiniteSet(S) /\ x \notin S /\ \A y \in S \cup {x} : g[y] \in Int
    BY <1>1, <2>1
  <2>. HIDE DEF S, x
  <2>3. SumFunctionOnSet(g, S \cup {x}) = SumFunctionOnSet(g, S) + g[x]
    BY <2>2, SumAdd
  <2>. QED BY <2>3 DEF S, x
<1>. QED BY <1>1, <1>2, Zenon

LEMMA SumAppend ==
  ASSUME NEW s \in Seq(Int), NEW x \in Int
  PROVE  SumFunctionOnSet(Append(s, x), 1 .. Len(s) + 1) = SumFunctionOnSet(s, 1 .. Len(s)) + x
<1>1. PICK n \in Nat : n = Len(s)
  OBVIOUS
<1> DEFINE t == Append(s, x)
<1>3. t[n + 1] = x /\ (\A i \in 1 .. n : t[i] = s[i]) /\ \A i \in 1 .. n + 1 : t[i] \in Int
  BY <1>1
<1>. HIDE DEF t
<1>4. SumFunctionOnSet(t, 1 .. n + 1) = SumFunctionOnSet(t, 1 .. n) + t[n + 1]
  BY <1>3, SumUpTo
<1>5. SumFunctionOnSet(t, 1 .. n) = SumFunctionOnSet(s, 1 .. n)
  <2>1. IsFiniteSet(1 .. n)
    BY FS_Interval
  <2>. QED BY <1>3, <2>1, SumSame
<1>. QED BY <1>1, <1>3, <1>4, <1>5, Zenon DEF t

(* A sum of naughts is naught. *)
LEMMA SumZero ==
  ASSUME NEW S, IsFiniteSet(S), NEW g, \A x \in S : g[x] = 0
  PROVE  SumFunctionOnSet(g, S) = 0
<1> DEFINE Bad == {T \in SUBSET S : SumFunctionOnSet(g, T) # 0}
<1> SUFFICES ASSUME S \in Bad PROVE FALSE
  OBVIOUS
<1>1. PICK T \in Bad : \A U \in Bad : U \subseteq T => U = T
  <2>1. Bad \in SUBSET SUBSET S
    OBVIOUS
  <2>. HIDE DEF Bad
  <2>. QED BY <2>1, SmallestSet
<1>2. T \in SUBSET S /\ IsFiniteSet(T)
  BY <1>1, FS_Subset
<1>3. T # {}
  BY <1>1, SumEmpty
<1>4. Pick(T) \in T /\ SumFunctionOnSet(g, T) = g[Pick(T)] + SumFunctionOnSet(g, T \ {Pick(T)})
  BY <1>2, <1>3, SumRecursive
<1>5. SumFunctionOnSet(g, T \ {Pick(T)}) = 0
  BY <1>1, <1>2, <1>4
<1>. QED BY <1>1, <1>2, <1>4, <1>5

(* Two sums differ by no more than their terms do together. *)
LEMMA SumClose ==
  ASSUME NEW S, IsFiniteSet(S), NEW k \in Int, NEW c \in Nat,
         NEW g, \A x \in S : g[x] \in Int,
         NEW h, \A x \in S : h[x] \in Int,
         \A x \in S : k * g[x] - h[x] \in -c .. c
  PROVE  /\ k * SumFunctionOnSet(g, S) - SumFunctionOnSet(h, S) <= c * Cardinality(S)
         /\ SumFunctionOnSet(h, S) - k * SumFunctionOnSet(g, S) <= c * Cardinality(S)
<1> DEFINE Gap(T) == k * SumFunctionOnSet(g, T) - SumFunctionOnSet(h, T)
           Bad == {T \in SUBSET S : ~(/\ Gap(T) <= c * Cardinality(T)
                                     /\ -Gap(T) <= c * Cardinality(T))}
<1>0. \A T \in SUBSET S : Gap(T) \in Int /\ Cardinality(T) \in Nat
  BY SumIsInt, FS_Subset, FS_CardinalityType
<1>1. S \notin Bad
  <2> SUFFICES ASSUME S \in Bad PROVE FALSE
    OBVIOUS
  <2>1. PICK T \in Bad : \A U \in Bad : U \subseteq T => U = T
    <3>1. Bad \in SUBSET SUBSET S
      OBVIOUS
    <3>. HIDE DEF Bad
    <3>. QED BY <3>1, SmallestSet
  <2>2. T \in SUBSET S /\ IsFiniteSet(T)
    BY <2>1, FS_Subset
  <2>3. T # {}
    <3>1. /\ SumFunctionOnSet(g, {}) = 0 /\ SumFunctionOnSet(h, {}) = 0
          /\ Cardinality({}) = 0
      BY SumEmpty, FS_EmptySet
    <3>2. Gap({}) = 0 /\ c * Cardinality({}) = 0
      BY <3>1
    <3>3. {} \notin Bad
      BY <3>2
    <3>. HIDE DEF Bad
    <3>. QED BY <2>1, <3>3
  <2>4. PICK x \in T : /\ SumFunctionOnSet(g, T) = g[x] + SumFunctionOnSet(g, T \ {x})
                      /\ SumFunctionOnSet(h, T) = h[x] + SumFunctionOnSet(h, T \ {x})
    BY <2>2, <2>3, SumRecursive
  <2>5. Cardinality(T) = Cardinality(T \ {x}) + 1
    <3>1. /\ Cardinality(T \ {x}) = Cardinality(T) - 1
          /\ Cardinality(T) \in Nat
      BY <2>2, FS_RemoveElement, FS_CardinalityType
    <3>. QED BY <3>1
  <2>6. /\ T \ {x} \in SUBSET S /\ SumFunctionOnSet(g, T \ {x}) \in Int
        /\ SumFunctionOnSet(h, T \ {x}) \in Int
        /\ g[x] \in Int /\ h[x] \in Int /\ k * g[x] - h[x] \in -c .. c
    BY <2>2, SumIsInt, FS_Subset
  <2>7. Gap(T) = Gap(T \ {x}) + (k * g[x] - h[x])
    BY <2>4, <2>6
  <2>8. /\ Gap(T \ {x}) <= c * Cardinality(T \ {x})
        /\ -Gap(T \ {x}) <= c * Cardinality(T \ {x})
    BY <2>1, <2>2, <2>6
  <2>9. Gap(T) <= c * Cardinality(T) /\ -Gap(T) <= c * Cardinality(T)
    <3>1. Gap(T \ {x}) \in Int /\ Cardinality(T \ {x}) \in Nat
      BY <1>0, <2>6
    <3>2. c * Cardinality(T) = c * Cardinality(T \ {x}) + c
      BY <2>5, <3>1
    <3>. HIDE DEF Gap
    <3>. QED BY <2>6, <2>7, <2>8, <3>1, <3>2
  <2>. QED BY <2>1, <2>9
<1>2. Gap(S) <= c * Cardinality(S) /\ -Gap(S) <= c * Cardinality(S)
  <2>. HIDE DEF Gap
  <2>. QED BY <1>1
<1>3. /\ SumFunctionOnSet(g, S) \in Int /\ SumFunctionOnSet(h, S) \in Int
      /\ k * SumFunctionOnSet(g, S) \in Int
  BY SumIsInt
<1>. QED BY <1>2, <1>3

-----------------------------------------------------------------------------
(* The inductive invariant. *)

Run == [pc : {"idle", "validate", "split", "transfer"}, ref : OrderRefs \cup {None},
        total : Int, list : Seq(Recipient), sums : Seq(Int), amounts : Seq(Int),
        distributed : Int, sent : Nat, before : [Accounts -> Nat]]
Event == [total : Int, list : Seq(Recipient), amounts : Seq(Int)]

Types ==
  /\ config \in {None} \cup [platform : Accounts, token : Accounts \cup {Usdc}]
  /\ balance \in [Accounts -> Nat]
  /\ trusting \subseteq Accounts
  /\ deposits \in 0 .. MaxDeposits
  /\ events \in [OrderRefs -> {None} \cup Event]
  /\ run \in Run

(* Before it is initialized the contract has done nothing. *)
Fresh == config = None => run = NoRun /\ markers = {} /\ deposits = 0

(* What may be asked for. *)
Asked(total, list) == total \in Totals /\ total > 0 /\ list \in Lists /\ Len(list) > 0

(* The shares that are validated, and their sums. *)
UpTo(i) == IF i = 0 THEN 0 ELSE run.sums[i]
Validated ==
  /\ Len(run.sums) <= Len(run.list)
  /\ \A i \in 1 .. Len(run.sums) :
       /\ run.sums[i] = UpTo(i - 1) + run.list[i].share
       /\ run.list[i].share > 0 /\ run.list[i].share <= run.sums[i]
       /\ run.sums[i] <= UpTo(Len(run.sums))

(* What is distributed is what the shares so far come to, up to a unit for *)
(* each of them.                                                           *)
Rounded(k) ==
  LET pool == Pool(run.total)
  IN /\ Denominator * run.distributed <= pool * UpTo(k)
     /\ pool * UpTo(k) <= Denominator * run.distributed + k * (Denominator - 1)

(* The parts of a total. *)
Parts(total, list, amounts) ==
  LET n == Len(list)
      pool == Pool(total)
  IN /\ Len(amounts) = n
     /\ \A i \in 1 .. n :
          /\ list[i].share \in 1 .. Denominator
          /\ amounts[i] >= 0
          /\ i < n => amounts[i] = Part(pool, list[i].share)
          /\ i = n => amounts[i] \in Part(pool, list[i].share) .. Part(pool, list[i].share) + n - 1
     /\ SumFunctionOnSet(amounts, 1 .. n) = pool

(* A run in progress, and what it has transferred so far. *)
Underway ==
  /\ config # None
  /\ run.ref \in OrderRefs \ Booked
  /\ Asked(run.total, run.list)
  /\ Validated
Splitting ==
  /\ UpTo(Len(run.sums)) = Denominator /\ Len(run.sums) = Len(run.list)
  /\ Len(run.amounts) < Len(run.list)
  /\ run.distributed = SumFunctionOnSet(run.amounts, 1 .. Len(run.amounts))
  /\ Rounded(Len(run.amounts))
  /\ \A i \in 1 .. Len(run.amounts) : run.amounts[i] = Part(Pool(run.total), run.list[i].share)
PartsOf(list, amounts, a, n) == SumFunctionOnSet(amounts, {i \in 1 .. n : list[i].address = a})
Given(a, n) == PartsOf(run.list, run.amounts, a, n)
Transferring ==
  /\ Parts(run.total, run.list, run.amounts)
  /\ run.sent <= Len(run.list)
  /\ \A a \in Accounts :
       /\ balance[a] = run.before[a] + Given(a, run.sent)
                       - IF a = Platform THEN SumFunctionOnSet(run.amounts, 1 .. run.sent) ELSE 0
       /\ a # Platform => balance[a] >= run.before[a]
  /\ SumFunctionOnSet(balance, Accounts) = SumFunctionOnSet(run.before, Accounts)

Running ==
  /\ run.pc = "idle" => run = NoRun
  /\ run.pc # "idle" => Underway
  /\ run.pc \in {"validate", "split"} => balance = run.before /\ run.sent = 0
  /\ run.pc = "validate" => run.amounts = <<>> /\ run.distributed = 0
  /\ run.pc = "split" => Splitting
  /\ run.pc = "transfer" => Transferring

Settled ==
  /\ markers = Booked
  /\ \A o \in Booked : /\ Asked(events[o].total, events[o].list)
                       /\ Parts(events[o].total, events[o].list, events[o].amounts)

(* The ledger outside a run is explained by the events. *)
Credits(a) == SumFunction([o \in Booked |-> CreditOf(o, a)])
Explained ==
  \A a \in Accounts :
    visible[a] = Credits(a) + IF config # None /\ a = Platform THEN PaidIn - PaidOut ELSE 0

Inv == Types /\ Fresh /\ Running /\ Settled /\ Explained

-----------------------------------------------------------------------------
(* Integer division. *)

LEMMA Cancel ==
  ASSUME NEW d \in Nat \ {0}, NEW x \in Int, NEW y \in Int
  PROVE  /\ d * x <= d * y => x <= y
         /\ d * x < d * y => x < y
  OBVIOUS

LEMMA Grow ==
  ASSUME NEW a \in Nat, NEW x \in Int, NEW y \in Int, x <= y
  PROVE  a * x <= a * y
  OBVIOUS

LEMMA DivIs ==
  ASSUME NEW a \in Int, NEW d \in Nat \ {0}
  PROVE  a \div d \in Int /\ d * (a \div d) <= a /\ a <= d * (a \div d) + (d - 1)
  OBVIOUS

LEMMA PartIs ==
  ASSUME NEW pool \in Nat, NEW share \in Nat
  PROVE  /\ Part(pool, share) \in Nat
         /\ Denominator * Part(pool, share) <= pool * share
         /\ pool * share <= Denominator * Part(pool, share) + (Denominator - 1)
<1>1. Denominator \in Nat \ {0} /\ pool * share \in Nat
  BY FeeType
<1>2. /\ Part(pool, share) \in Int
      /\ Denominator * Part(pool, share) <= pool * share
      /\ pool * share <= Denominator * Part(pool, share) + (Denominator - 1)
  BY <1>1, DivIs DEF Part
<1>3. Denominator * (-1) < Denominator * Part(pool, share)
  BY <1>1, <1>2
<1>4. -1 < Part(pool, share)
  BY <1>1, <1>2, <1>3, Cancel
<1>. QED BY <1>2, <1>4

LEMMA PoolIs ==
  ASSUME NEW total \in Nat
  PROVE  /\ Fee(total) \in 0 .. total /\ Pool(total) \in 0 .. total
         /\ Pool(total) = total - Fee(total)
<1>1. Denominator \in Nat \ {0} /\ FeeBps \in Nat /\ FeeBps <= Denominator
  BY FeeType
<1>2. Fee(total) \in Nat /\ Denominator * Fee(total) <= total * FeeBps
  BY <1>1, PartIs DEF Fee
<1>3. total * FeeBps <= total * Denominator
  BY <1>1, Grow
<1>4. Denominator * Fee(total) <= Denominator * total
  BY <1>1, <1>2, <1>3
<1>5. Fee(total) <= total
  BY <1>1, <1>2, <1>4, Cancel
<1>. QED BY <1>2, <1>5 DEF Pool

-----------------------------------------------------------------------------
(* The first state. *)

LEMMA NoRunIs ==
  /\ NoRun \in Run
  /\ NoRun.pc = "idle" /\ NoRun.sums = <<>> /\ NoRun.amounts = <<>>
  /\ NoRun.distributed = 0 /\ NoRun.sent = 0
BY DEF NoRun, Run

LEMMA NothingBooked ==
  ASSUME Booked = {}
  PROVE  PaidOut = 0 /\ \A a \in Accounts : Credits(a) = 0
<1>1. ASSUME NEW f, DOMAIN f = {} PROVE SumFunction(f) = 0
  BY <1>1, SumEmpty, Zenon DEF SumFunction
<1>2. DOMAIN [o \in Booked |-> Pool(events[o].total)] = {}
  OBVIOUS
<1>3. ASSUME NEW a \in Accounts PROVE DOMAIN [o \in Booked |-> CreditOf(o, a)] = {}
  OBVIOUS
<1>. QED BY <1>1, <1>2, <1>3, Zenon DEF PaidOut, Credits

LEMMA FirstState == Init => Inv
<1> SUFFICES ASSUME Init PROVE Inv
  OBVIOUS
<1>1. Booked = {}
  BY DEF Init, Booked
<1>2. Types
  BY NoRunIs, DepositType DEF Init, Types
<1>3. Fresh
  BY DEF Init, Fresh
<1>4. Running
  BY NoRunIs DEF Init, Running
<1>5. Settled
  BY <1>1 DEF Init, Settled
<1>6. Explained
  <2>1. \A a \in Accounts : visible[a] = 0
    BY NoRunIs DEF Init, visible, Idle
  <2>. QED BY <1>1, <2>1, NothingBooked DEF Explained, Init
<1>. QED BY <1>2, <1>3, <1>4, <1>5, <1>6 DEF Inv

-----------------------------------------------------------------------------
(* What the invariant says of states and steps. *)

(* While nothing is booked or paid in and the ledger shows what it showed, *)
(* what explains it goes on to.                                            *)
LEMMA BookKept ==
  ASSUME UNCHANGED events
  PROVE  /\ Booked' = Booked /\ PaidOut' = PaidOut
         /\ \A a \in Accounts : Credits(a)' = Credits(a)
BY Zenon DEF Booked, PaidOut, Credits, CreditOf

LEMMA StillExplained ==
  ASSUME Settled, Explained, UNCHANGED <<config, markers, events, deposits>>, visible' = visible
  PROVE  Settled' /\ Explained'
<1>1. /\ Booked' = Booked /\ PaidOut' = PaidOut
      /\ \A a \in Accounts : Credits(a)' = Credits(a)
  BY BookKept
<1>2. Settled'
  BY <1>1 DEF Settled
<1>3. Explained'
  BY <1>1 DEF Explained, PaidIn, Platform
<1>. QED BY <1>2, <1>3

(* What the events of the settled orders come to. *)
LEMMA BookIs ==
  ASSUME Types, Settled
  PROVE  /\ IsFiniteSet(Booked)
         /\ \A o \in Booked : events[o] \in Event /\ Pool(events[o].total) \in Int
         /\ \A o \in Booked, a \in Accounts : CreditOf(o, a) \in Int
<1>1. IsFiniteSet(Booked)
  <2>1. Booked \subseteq OrderRefs
    BY DEF Booked
  <2>. QED BY <2>1, FiniteType, FS_Subset
<1>2. ASSUME NEW o \in Booked PROVE events[o] \in Event
  BY DEF Types, Booked
<1>3. ASSUME NEW o \in Booked PROVE Pool(events[o].total) \in Int
  BY <1>2, PoolIs DEF Settled, Asked, Event
<1>4. ASSUME NEW o \in Booked, NEW a \in Accounts PROVE CreditOf(o, a) \in Int
  <2> DEFINE S == {i \in DOMAIN events[o].list : events[o].list[i].address = a}
  <2>1. /\ events[o].list \in Seq(Recipient) /\ events[o].amounts \in Seq(Int)
        /\ Len(events[o].amounts) = Len(events[o].list)
    BY <1>2 DEF Settled, Parts, Event
  <2>2. S \subseteq 1 .. Len(events[o].list) /\ \A i \in S : events[o].amounts[i] \in Int
    BY <2>1
  <2>3. IsFiniteSet(S)
    <3>1. Len(events[o].list) \in Int
      BY <2>1
    <3>2. IsFiniteSet(1 .. Len(events[o].list))
      BY <3>1, FS_Interval
    <3>3. S \subseteq 1 .. Len(events[o].list)
      BY <2>2
    <3>. HIDE DEF S
    <3>. QED BY <3>2, <3>3, FS_Subset
  <2>4. SumFunctionOnSet(events[o].amounts, S) \in Int
    <3>. HIDE DEF S
    <3>. QED BY <2>2, <2>3, SumIsInt
  <2>. QED BY <2>4 DEF CreditOf
<1>. QED BY <1>1, <1>2, <1>3, <1>4

LEMMA BookIsInt ==
  ASSUME Types, Settled
  PROVE  PaidOut \in Int /\ \A a \in Accounts : Credits(a) \in Int
<1>1. ASSUME NEW f, DOMAIN f = Booked, \A o \in Booked : f[o] \in Int
      PROVE  SumFunction(f) \in Int
  <2>1. SumFunctionOnSet(f, Booked) \in Int
    BY <1>1, SumIsInt, BookIs
  <2>. QED BY <1>1, <2>1, Zenon DEF SumFunction
<1>2. PaidOut \in Int
  <2> DEFINE f == [o \in Booked |-> Pool(events[o].total)]
  <2>1. DOMAIN f = Booked /\ \A o \in Booked : f[o] \in Int
    BY BookIs
  <2>2. SumFunction(f) \in Int
    BY <1>1, <2>1
  <2>. QED BY <2>2 DEF PaidOut
<1>3. ASSUME NEW a \in Accounts PROVE Credits(a) \in Int
  <2> DEFINE f == [o \in Booked |-> CreditOf(o, a)]
  <2>1. DOMAIN f = Booked /\ \A o \in Booked : f[o] \in Int
    BY BookIs
  <2>2. SumFunction(f) \in Int
    BY <1>1, <2>1
  <2>. QED BY <2>2 DEF Credits
<1>. QED BY <1>2, <1>3

LEMMA AbandonKeeps ==
  ASSUME Inv, ~Idle, NEW e, Abandon(e)
  PROVE  Inv' /\ UNCHANGED <<markers, visible>>
<1>1. visible' = visible
  BY NoRunIs DEF visible, Idle, Abandon, RestoredBalance
<1>2. Settled' /\ Explained'
  BY <1>1, StillExplained DEF Inv, Abandon, storage, token
<1>3. Types'
  BY NoRunIs DEF Inv, Types, Abandon, storage, token, RestoredBalance, Run
<1>4. Fresh' /\ Running'
  BY NoRunIs DEF Inv, Fresh, Running, Abandon, storage, token
<1>. QED BY <1>1, <1>2, <1>3, <1>4 DEF Inv, Abandon, storage

(* A step of the run in progress that changes nothing on the ledger. *)
LEMMA RunGoesOn ==
  ASSUME Inv, ~Idle, UNCHANGED <<storage, balance, token, events>>,
         run' \in Run, run'.pc # "idle", run'.before = run.before, Running'
  PROVE  Inv' /\ UNCHANGED <<markers, visible>>
<1>1. visible' = visible
  BY DEF visible, Idle
<1>2. Settled' /\ Explained'
  BY <1>1, StillExplained DEF Inv, storage, token
<1>3. Types'
  BY DEF Inv, Types, storage, token
<1>4. Fresh'
  BY NoRunIs DEF Inv, Fresh, storage, token, Idle
<1>. QED BY <1>1, <1>2, <1>3, <1>4 DEF Inv, storage

-----------------------------------------------------------------------------
(* The actions that are not steps of a run. *)

LEMMA InitializeKeeps ==
  ASSUME Inv, NEW p \in Accounts \cup {Usdc}, NEW t \in Accounts \cup {Usdc}, Initialize(p, t)
  PROVE  Inv' /\ UNCHANGED <<markers, visible>>
<1>1. CASE config' = config
  <2>1. visible' = visible
    BY DEF Initialize, visible, Idle
  <2>2. Settled' /\ Explained'
    BY <1>1, <2>1, StillExplained DEF Inv, Initialize, token
  <2>3. Types' /\ Fresh'
    BY <1>1 DEF Inv, Initialize, token, Types, Fresh
  <2>4. run = NoRun
    BY DEF Inv, Running, Initialize, Idle
  <2>5. Running'
    BY <2>4, NoRunIs DEF Initialize, Running
  <2>. QED BY <2>1, <2>2, <2>3, <2>5 DEF Inv, Initialize
<1>2. CASE config' # config
  <2>1. config = None /\ p \in Accounts /\ config' = [platform |-> p, token |-> t]
    BY <1>2 DEF Initialize
  <2>2. run = NoRun /\ markers = {} /\ deposits = 0
    BY <2>1 DEF Inv, Fresh
  <2>3. visible' = visible
    BY DEF Initialize, visible, Idle
  <2>4. Booked = {} /\ Booked' = {}
    BY <2>2, BookKept DEF Inv, Settled, Initialize
  <2>5. Types'
    BY <2>1 DEF Inv, Types, Initialize, token
  <2>6. Fresh'
    BY <2>1, <2>2 DEF Fresh, Initialize, token
  <2>7. Running'
    BY <2>2, NoRunIs DEF Running, Initialize
  <2>8. Settled'
    BY <2>2, <2>4 DEF Settled, Initialize
  <2>9. Explained'
    <3>1. \A a \in Accounts : visible[a] = 0
      BY <2>1, <2>4, NothingBooked DEF Inv, Explained
    <3>2. PaidOut' = 0 /\ \A a \in Accounts : Credits(a)' = 0
      BY <2>4, BookKept, NothingBooked DEF Initialize
    <3>3. PaidIn' = 0
      BY <2>2, DepositType DEF PaidIn, Initialize, token
    <3>. QED BY <2>3, <3>1, <3>2, <3>3 DEF Explained
  <2>. QED BY <2>3, <2>5, <2>6, <2>7, <2>8, <2>9 DEF Inv, Initialize
<1>. QED BY <1>1, <1>2
LEMMA SettleKeeps ==
  ASSUME Inv, NEW s \in Accounts, NEW o \in OrderRefs, NEW total \in Totals, NEW list \in Lists,
         Settle(s, o, total, list)
  PROVE  Inv' /\ UNCHANGED <<markers, visible>>
<1>1. run = NoRun
  BY DEF Inv, Running, Settle, Idle
<1>2. CASE outcome' # "none"
  <2>1. visible' = visible /\ Settled' /\ Explained'
    BY <1>2, StillExplained DEF Inv, Settle, storage, token, visible, Idle
  <2>2. Types' /\ Fresh' /\ Running'
    BY <1>1, <1>2, NoRunIs DEF Inv, Settle, storage, token, Types, Fresh, Running
  <2>. QED BY <2>1, <2>2 DEF Inv, Settle, storage
<1>3. CASE outcome' = "none"
  <2>1. /\ config # None /\ o \notin markers /\ total > 0 /\ list # <<>>
    <3>1. Refusal(s, o, total, list) = "none"
      BY <1>3 DEF Settle
    <3>2. config # None
      BY <3>1 DEF Refusal
    <3>3. o \notin markers
      BY <3>1, <3>2 DEF Refusal, IsSettled
    <3>4. ~(total <= 0)
      BY <3>1, <3>2, <3>3 DEF Refusal, IsSettled
    <3>5. list # <<>>
      BY <3>1, <3>2, <3>3, <3>4 DEF Refusal, IsSettled
    <3>6. total \in Int
      BY TotalsType
    <3>. QED BY <3>2, <3>3, <3>4, <3>5, <3>6
  <2>2. /\ total \in Int /\ list \in Seq(Recipient) /\ Len(list) > 0
    <3>1. total \in Int /\ list \in Seq(Recipient)
      BY TotalsType, ListsType
    <3>. QED BY <2>1, <3>1
  <2>3. /\ run' \in Run /\ run'.pc = "validate" /\ run'.ref = o /\ run'.total = total
        /\ run'.list = list /\ run'.before = balance /\ run'.sums = <<>>
        /\ run'.amounts = <<>> /\ run'.distributed = 0 /\ run'.sent = 0
    BY <1>1, <1>3, <2>2 DEF Settle, NoRun, Run, Inv, Types
  <2>4. visible' = visible
    BY <2>3 DEF visible, Settle, Idle
  <2>5. Settled' /\ Explained'
    BY <2>4, StillExplained DEF Inv, Settle, storage, token
  <2>6. Types' /\ Fresh'
    BY <2>1, <2>3 DEF Inv, Types, Fresh, Settle, storage, token
  <2>7. Underway'
    <3>1. Booked' = Booked
      BY BookKept DEF Settle
    <3>2. Asked(run.total, run.list)'
      BY <2>1, <2>2, <2>3 DEF Asked
    <3>3. Validated'
      BY <2>2, <2>3 DEF Validated
    <3>. QED BY <2>1, <2>3, <3>1, <3>2, <3>3 DEF Underway, Settle, storage, Inv, Settled
  <2>8. Running'
    BY <2>3, <2>7 DEF Running, Settle
  <2>. QED BY <2>4, <2>5, <2>6, <2>8 DEF Inv, Settle, storage
<1>. QED BY <1>2, <1>3

LEMMA FundKeeps ==
  ASSUME Inv, Fund
  PROVE  /\ Inv' /\ markers' = markers
         /\ visible' = [visible EXCEPT ![Platform] = @ + Deposit]
<1>1. /\ run = NoRun /\ run' = run /\ config' = config /\ config # None /\ Platform \in Accounts
      /\ Platform' = Platform
  BY DEF Inv, Types, Running, Fund, Idle, storage, Platform
<1>2. /\ Booked' = Booked /\ PaidOut' = PaidOut
      /\ \A a \in Accounts : Credits(a)' = Credits(a)
  BY BookKept DEF Fund
<1>3. visible' = [visible EXCEPT ![Platform] = @ + Deposit]
  BY <1>1 DEF visible, Idle, Fund
<1>4. Types'
  BY <1>1, DepositType DEF Inv, Types, Fund, storage
<1>5. Fresh' /\ Running' /\ Settled'
  BY <1>1, <1>2, NoRunIs DEF Inv, Fresh, Running, Settled, Fund, storage
<1>6. Explained'
  <2>1. PaidIn' = PaidIn + Deposit
    BY DepositType DEF Inv, Types, PaidIn, Fund
  <2>2. /\ \A a \in Accounts : visible[a] \in Int
    BY <1>1, NoRunIs DEF Inv, Types, visible, Idle
  <2>3. PaidIn \in Int /\ Deposit \in Int
    BY DepositType DEF PaidIn, Inv, Types
  <2>4. PaidOut \in Int /\ \A a \in Accounts : Credits(a) \in Int
    BY BookIsInt DEF Inv
  <2>5. visible \in [Accounts -> Nat]
    BY <1>1, NoRunIs DEF Inv, Types, visible, Idle
  <2>. QED BY <1>1, <1>2, <1>3, <2>1, <2>2, <2>3, <2>4, <2>5 DEF Inv, Explained
<1>. QED BY <1>3, <1>4, <1>5, <1>6 DEF Inv, Fund, storage

LEMMA ChangeTrustKeeps ==
  ASSUME Inv, NEW a \in Accounts, ChangeTrust(a)
  PROVE  Inv' /\ UNCHANGED <<markers, visible>>
<1>1. visible' = visible
  BY DEF visible, Idle, ChangeTrust
<1>2. Settled' /\ Explained'
  BY <1>1, StillExplained DEF Inv, ChangeTrust, storage
<1>3. run = NoRun
  BY DEF Inv, Running, ChangeTrust, Idle
<1>4. Types' /\ Fresh' /\ Running'
  BY <1>3, NoRunIs DEF Inv, Types, Fresh, Running, ChangeTrust, storage
<1>. QED BY <1>1, <1>2, <1>4 DEF Inv, ChangeTrust, storage
-----------------------------------------------------------------------------
(* settle validates its recipients. *)

LEMMA RunIs ==
  ASSUME Types
  PROVE  /\ run \in Run /\ run.total \in Int /\ run.list \in Seq(Recipient)
         /\ run.sums \in Seq(Int) /\ run.amounts \in Seq(Int) /\ run.distributed \in Int
         /\ run.sent \in Nat /\ run.before \in [Accounts -> Nat]
         /\ Len(run.list) \in Nat /\ Len(run.sums) \in Nat /\ Len(run.amounts) \in Nat
         /\ \A i \in 1 .. Len(run.list) : /\ run.list[i].share \in Int
                                         /\ run.list[i].address \in Accounts
         /\ \A i \in 1 .. Len(run.sums) : run.sums[i] \in Int
         /\ \A i \in 1 .. Len(run.amounts) : run.amounts[i] \in Int
<1>1. /\ run \in Run /\ run.total \in Int /\ run.list \in Seq(Recipient)
      /\ run.sums \in Seq(Int) /\ run.amounts \in Seq(Int) /\ run.distributed \in Int
      /\ run.sent \in Nat /\ run.before \in [Accounts -> Nat]
  BY DEF Types, Run
<1>2. \A i \in 1 .. Len(run.list) : run.list[i] \in Recipient
  BY <1>1
<1>3. \A i \in 1 .. Len(run.list) : run.list[i].share \in Int /\ run.list[i].address \in Accounts
  BY <1>2 DEF Recipient
<1>4. Len(run.list) \in Nat /\ Len(run.sums) \in Nat /\ Len(run.amounts) \in Nat
  BY <1>1
<1>5. /\ \A i \in 1 .. Len(run.sums) : run.sums[i] \in Int
      /\ \A i \in 1 .. Len(run.amounts) : run.amounts[i] \in Int
  BY <1>1
<1>. QED BY <1>1, <1>3, <1>4, <1>5

LEMMA CheckRecipientKeeps ==
  ASSUME Inv, CheckRecipient
  PROVE  Inv' /\ UNCHANGED <<markers, visible>>
<1>n. PICK n \in Nat : n = Len(run.sums)
  BY RunIs DEF Inv
<1> DEFINE share == run.list[n + 1].share
           sum == Last(run.sums) + share
<1>0. /\ run \in Run /\ run.list \in Seq(Recipient) /\ run.sums \in Seq(Int)
      /\ Len(run.list) \in Nat
      /\ \A i \in 1 .. Len(run.list) : run.list[i].share \in Int
      /\ \A i \in 1 .. n : run.sums[i] \in Int
  BY <1>n, RunIs DEF Inv
<1>1. /\ ~Idle /\ run.pc = "validate" /\ n + 1 <= Len(run.list)
  BY <1>n DEF CheckRecipient, Idle
<1>2. CASE \E e : Abandon(e)
  BY <1>1, <1>2, AbandonKeeps
<1>3. CASE /\ share > 0
           /\ run' = [run EXCEPT !.sums = Append(run.sums, sum)]
           /\ UNCHANGED <<storage, balance, token, events, outcome>>
  <2>1. /\ Underway /\ balance = run.before /\ run.sent = 0 /\ run.amounts = <<>>
        /\ run.distributed = 0
    BY <1>1 DEF Inv, Running
  <2>2. share \in Int /\ Last(run.sums) = UpTo(n) /\ UpTo(n) \in Int
    BY <1>n, <1>0, <1>1 DEF Last, UpTo
  <2>3. UpTo(n) >= 0
    <3>1. n > 0 => run.list[n].share > 0 /\ run.list[n].share <= run.sums[n]
      BY <1>n, <1>0, <2>1 DEF Underway, Validated
    <3>2. n > 0 => run.list[n].share \in Int /\ run.sums[n] \in Int
      BY <1>0, <1>1
    <3>. QED BY <1>0, <3>1, <3>2 DEF UpTo
  <2>4. /\ run' \in Run /\ run'.pc = "validate" /\ run'.before = run.before
        /\ run'.ref = run.ref /\ run'.total = run.total /\ run'.list = run.list
        /\ run'.amounts = <<>> /\ run'.distributed = 0 /\ run'.sent = 0
        /\ run'.sums = Append(run.sums, sum)
    <3>1. Append(run.sums, sum) \in Seq(Int)
      BY <1>0, <2>2
    <3>. HIDE DEF sum
    <3>. QED BY <1>0, <1>3, <1>1, <2>1, <3>1 DEF Run
  <2>5. /\ Len(run'.sums) = n + 1 /\ run'.sums[n + 1] = sum
        /\ \A i \in 1 .. n : run'.sums[i] = run.sums[i]
    BY <1>n, <1>0, <2>2, <2>4
  <2>6. Validated'
    <3>1. UpTo(n)' = UpTo(n) /\ UpTo(n + 1)' = sum
      BY <1>0, <2>5 DEF UpTo
    <3>2. ASSUME NEW i \in 1 .. n
          PROVE  /\ run'.sums[i] = UpTo(i - 1)' + run.list[i].share
                 /\ run.list[i].share > 0 /\ run.list[i].share <= run'.sums[i]
                 /\ run'.sums[i] <= sum
      <4>1. /\ run.sums[i] = UpTo(i - 1) + run.list[i].share
            /\ run.list[i].share > 0 /\ run.list[i].share <= run.sums[i]
            /\ run.sums[i] <= UpTo(n)
        BY <1>n, <2>1 DEF Underway, Validated
      <4>2. UpTo(i - 1)' = UpTo(i - 1)
        BY <1>0, <2>5 DEF UpTo
      <4>3. run.sums[i] \in Int
        BY <1>0
      <4>. QED BY <1>3, <2>2, <2>5, <4>1, <4>2, <4>3
    <3>3. sum = UpTo(n) + share /\ share <= sum /\ sum \in Int
      BY <2>2, <2>3
    <3>4. \A i \in 1 .. n + 1 : i \in 1 .. n \/ i = n + 1
      BY <1>0
    <3>5. ASSUME NEW i \in 1 .. n + 1
          PROVE  /\ run'.sums[i] = UpTo(i - 1)' + run.list[i].share
                 /\ run.list[i].share > 0 /\ run.list[i].share <= run'.sums[i]
                 /\ run'.sums[i] <= sum
      <4>1. CASE i \in 1 .. n
        BY <3>2, <4>1
      <4>2. CASE i = n + 1
        BY <1>0, <1>3, <2>5, <3>1, <3>3, <4>2
      <4>. QED BY <3>4, <4>1, <4>2
    <3>6. Len(run'.sums) <= Len(run'.list)
      BY <1>1, <2>4, <2>5
    <3>. HIDE DEF sum, share
    <3>. QED BY <2>4, <2>5, <3>1, <3>5, <3>6 DEF Validated
  <2>7. Underway'
    <3>1. Booked' = Booked
      BY <1>3, BookKept
    <3>2. Asked(run.total, run.list)'
      BY <2>1, <2>4 DEF Underway, Asked
    <3>. QED BY <1>3, <2>1, <2>4, <2>6, <3>1, <3>2 DEF Underway, storage
  <2>8. Running'
    BY <1>3, <2>1, <2>4, <2>7 DEF Running
  <2>. QED BY <1>1, <1>3, <2>4, <2>8, RunGoesOn
<1>. QED BY <1>n, <1>2, <1>3 DEF CheckRecipient

(* What a step of the split or of the transfers leaves of a run as it was. *)
RunShape ==
  /\ run'.ref = run.ref /\ run'.total = run.total /\ run'.list = run.list
  /\ run'.sums = run.sums /\ run'.before = run.before

LEMMA StillUnderway ==
  ASSUME Underway, RunShape, UNCHANGED <<storage, events>>
  PROVE  Underway' /\ \A i \in Nat : UpTo(i)' = UpTo(i)
<1>1. Booked' = Booked
  BY BookKept
<1>2. \A i : UpTo(i)' = UpTo(i)
  BY DEF UpTo, RunShape
<1>3. Validated'
  BY <1>2, Zenon DEF Validated, Underway, RunShape
<1>. QED BY <1>1, <1>2, <1>3 DEF Underway, RunShape, storage, Asked

LEMMA CheckSumKeeps ==
  ASSUME Inv, CheckSum
  PROVE  Inv' /\ UNCHANGED <<markers, visible>>
<1>0. /\ run \in Run /\ run.list \in Seq(Recipient) /\ run.sums \in Seq(Int)
  BY RunIs DEF Inv
<1>1. ~Idle /\ run.pc = "validate" /\ Len(run.sums) = Len(run.list)
  BY DEF CheckSum, Idle
<1>2. CASE \E e : Abandon(e)
  BY <1>1, <1>2, AbandonKeeps
<1>3. CASE /\ Last(run.sums) = Denominator
           /\ run' = [run EXCEPT !.pc = "split"]
           /\ UNCHANGED <<storage, balance, token, events, outcome>>
  <2>1. /\ Underway /\ balance = run.before /\ run.sent = 0 /\ run.amounts = <<>>
        /\ run.distributed = 0
    BY <1>1 DEF Inv, Running
  <2>2. /\ run' \in Run /\ run'.pc = "split" /\ RunShape
        /\ run'.amounts = <<>> /\ run'.distributed = 0 /\ run'.sent = 0
    BY <1>0, <1>3, <2>1 DEF Run, RunShape
  <2>3. Underway' /\ \A i \in Nat : UpTo(i)' = UpTo(i)
    BY <1>3, <2>1, <2>2, StillUnderway
  <2>4. Splitting'
    <3>1. UpTo(Len(run.sums))' = Denominator
      BY <1>0, <1>3, <2>2 DEF UpTo, Last, RunShape
    <3>2. Len(run'.amounts) = 0 /\ Len(run'.list) > 0
      BY <2>1, <2>2 DEF Underway, Asked, RunShape
    <3>3. SumFunctionOnSet(run.amounts, 1 .. Len(run.amounts))' = 0
      <4>1. 1 .. Len(run'.amounts) = {}
        BY <3>2
      <4>. QED BY <4>1, SumEmpty, Zenon
    <3>4. Pool(run.total) \in Int
      <4>1. run.total \in Nat
        BY <1>0, <2>1 DEF Underway, Asked, Run
      <4>. QED BY <4>1, PoolIs
    <3>5. Rounded(0)'
      BY <2>2, <3>4, FeeType DEF Rounded, UpTo, RunShape
    <3>. QED BY <1>1, <2>2, <3>1, <3>2, <3>3, <3>5 DEF Splitting, RunShape
  <2>5. Running'
    BY <1>3, <2>1, <2>2, <2>3, <2>4 DEF Running, RunShape
  <2>. QED BY <1>1, <1>3, <2>2, <2>5, RunGoesOn DEF RunShape
<1>. QED BY <1>2, <1>3 DEF CheckSum, AddsUp
-----------------------------------------------------------------------------
(* settle computes the parts. *)

(* Rounding down part by part stays within a unit for each of them. *)
LEMMA OneMorePart ==
  ASSUME NEW k \in Nat, NEW pool \in Nat, NEW share \in Nat, NEW before \in Int,
         NEW distributed \in Int,
         Denominator * distributed <= pool * before,
         pool * before <= Denominator * distributed + k * (Denominator - 1)
  PROVE  LET sum == distributed + Part(pool, share)
         IN /\ Denominator * sum <= pool * (before + share)
            /\ pool * (before + share) <= Denominator * sum + (k + 1) * (Denominator - 1)
<1> DEFINE q == Part(pool, share)
<1>1. Denominator \in Nat \ {0}
  BY FeeType
<1>2. q \in Nat /\ Denominator * q <= pool * share /\ pool * share <= Denominator * q + (Denominator - 1)
  BY PartIs
<1>3. /\ Denominator * (distributed + q) = Denominator * distributed + Denominator * q
      /\ pool * (before + share) = pool * before + pool * share
      /\ (k + 1) * (Denominator - 1) = k * (Denominator - 1) + (Denominator - 1)
  <2>. HIDE DEF q
  <2>. QED BY <1>1, <1>2
<1>4. /\ Denominator * distributed \in Int /\ Denominator * q \in Int /\ pool * before \in Int
      /\ pool * share \in Int /\ k * (Denominator - 1) \in Int
  <2>. HIDE DEF q
  <2>. QED BY <1>1, <1>2
<1>. HIDE DEF q
<1>. QED BY <1>1, <1>2, <1>3, <1>4 DEF q

(* What is left for the last one is no less than its own part, and at most *)
(* a unit for each of the others more.                                     *)
LEMMA LastPart ==
  ASSUME NEW k \in Nat, NEW pool \in Nat, NEW share \in Nat, NEW before \in Int,
         NEW distributed \in Int, before + share = Denominator,
         Denominator * distributed <= pool * before,
         pool * before <= Denominator * distributed + k * (Denominator - 1)
  PROVE  pool - distributed \in Part(pool, share) .. Part(pool, share) + k
<1> DEFINE q == Part(pool, share)
           rest == pool - distributed
<1>1. Denominator \in Nat \ {0}
  BY FeeType
<1>2. q \in Nat /\ Denominator * q <= pool * share /\ pool * share <= Denominator * q + (Denominator - 1)
  BY PartIs
<1>3. Denominator * rest = pool * before + pool * share - Denominator * distributed
  <2>1. Denominator * rest = Denominator * pool - Denominator * distributed
    BY <1>1
  <2>2. Denominator * pool = pool * before + pool * share
    <3>1. pool * (before + share) = pool * before + pool * share
      OBVIOUS
    <3>2. pool * Denominator = Denominator * pool
      BY <1>1
    <3>. QED BY <3>1, <3>2
  <2>. QED BY <2>1, <2>2
<1>4. /\ Denominator * distributed \in Int /\ Denominator * q \in Int /\ pool * before \in Int
      /\ pool * share \in Int /\ k * (Denominator - 1) \in Int /\ rest \in Int
      /\ Denominator * rest \in Int
  <2>. HIDE DEF q
  <2>. QED BY <1>1, <1>2
<1>5. Denominator * q <= Denominator * rest
  <2>. HIDE DEF q, rest
  <2>. QED BY <1>2, <1>3, <1>4
<1>6. Denominator * rest < Denominator * (q + k + 1)
  <2>1. Denominator * rest <= Denominator * q + (Denominator - 1) + k * (Denominator - 1)
    <3>. HIDE DEF q, rest
    <3>. QED BY <1>1, <1>2, <1>3, <1>4
  <2>2. Denominator * (q + k + 1) = Denominator * q + Denominator * k + Denominator
    <3>. HIDE DEF q
    <3>. QED BY <1>1, <1>2
  <2>3. k * (Denominator - 1) = Denominator * k - k
    BY <1>1
  <2>4. Denominator * k \in Int
    BY <1>1
  <2>. HIDE DEF q, rest
  <2>. QED BY <1>1, <1>4, <2>1, <2>2, <2>3, <2>4
<1>7. q <= rest /\ rest < q + k + 1
  <2>1. q \in Int /\ rest \in Int /\ q + k + 1 \in Int
    BY <1>2, <1>4
  <2>. HIDE DEF q, rest
  <2>. QED BY <1>1, <1>5, <1>6, <2>1, Cancel
<1>. QED BY <1>2, <1>4, <1>7
LEMMA SplitPartKeeps ==
  ASSUME Inv, SplitPart
  PROVE  Inv' /\ UNCHANGED <<markers, visible>>
<1>n. PICK k \in Nat : k = Len(run.amounts)
  BY RunIs DEF Inv
<1> DEFINE pool == Pool(run.total)
           share == run.list[k + 1].share
<1>0. /\ run \in Run /\ run.amounts \in Seq(Int) /\ run.distributed \in Int
      /\ Len(run.list) \in Nat
      /\ \A i \in 1 .. Len(run.list) : run.list[i].share \in Int
      /\ \A i \in 1 .. Len(run.sums) : run.sums[i] \in Int
  BY RunIs DEF Inv
<1>1. ~Idle /\ run.pc = "split"
  BY DEF SplitPart, Idle
<1>2. CASE \E e : Abandon(e)
  BY <1>1, <1>2, AbandonKeeps
<1>3. ASSUME NEW part, part = IF k + 1 < Len(run.list) THEN Part(pool, share)
                                                       ELSE pool - run.distributed,
             run' = [run EXCEPT !.pc = IF k + 1 < Len(run.list) THEN "split" ELSE "transfer",
                                !.amounts = Append(run.amounts, part),
                                !.distributed = run.distributed + part],
             UNCHANGED <<storage, balance, token, events, outcome>>
      PROVE  Inv' /\ UNCHANGED <<markers, visible>>
  <2>1. /\ Underway /\ Splitting /\ balance = run.before /\ run.sent = 0
    BY <1>1 DEF Inv, Running
  <2>2. /\ k + 1 <= Len(run.list) /\ Len(run.sums) = Len(run.list)
        /\ UpTo(Len(run.list)) = Denominator
        /\ run.distributed = SumFunctionOnSet(run.amounts, 1 .. k)
        /\ Denominator * run.distributed <= pool * UpTo(k)
        /\ pool * UpTo(k) <= Denominator * run.distributed + k * (Denominator - 1)
        /\ \A i \in 1 .. k : run.amounts[i] = Part(pool, run.list[i].share)
    BY <1>n, <1>0, <2>1 DEF Splitting, Rounded
  <2>3. pool \in Nat
    <3>1. run.total \in Nat
      BY <1>0, <2>1 DEF Underway, Asked, Run
    <3>. QED BY <3>1, PoolIs
  <2>4. /\ UpTo(k) \in Int /\ UpTo(k + 1) = UpTo(k) + share
        /\ \A i \in 1 .. Len(run.list) : run.list[i].share \in 1 .. Denominator
    <3>1. UpTo(k) \in Int
      BY <1>0, <2>2 DEF UpTo
    <3>2. UpTo(k + 1) = UpTo(k) + share
      <4>1. k + 1 \in 1 .. Len(run.sums) /\ (k + 1) - 1 = k
        BY <2>2
      <4>2. run.sums[k + 1] = UpTo((k + 1) - 1) + run.list[k + 1].share
        BY <2>1, <4>1 DEF Underway, Validated
      <4>. QED BY <4>1, <4>2 DEF UpTo
    <3>3. ASSUME NEW i \in 1 .. Len(run.list) PROVE run.list[i].share \in 1 .. Denominator
      <4>1. /\ run.list[i].share > 0 /\ run.list[i].share <= run.sums[i]
            /\ run.sums[i] <= UpTo(Len(run.sums))
        BY <2>1, <2>2 DEF Underway, Validated
      <4>2. run.list[i].share \in Int /\ run.sums[i] \in Int /\ Denominator \in Int
        BY <1>0, <2>2, FeeType
      <4>. QED BY <2>2, <4>1, <4>2
    <3>. QED BY <3>1, <3>2, <3>3
  <2>5. share \in Nat /\ Part(pool, share) \in Nat
    <3>1. share \in 1 .. Denominator
      BY <2>2, <2>4
    <3>2. share \in Nat
      BY <3>1, FeeType
    <3>. HIDE DEF pool, share
    <3>. QED BY <2>3, <3>2, PartIs
  <2>6. part \in Int
    BY <1>0, <1>3, <2>3, <2>5
  <2>7. /\ run' \in Run /\ RunShape /\ run'.sent = 0
        /\ run'.pc = (IF k + 1 < Len(run.list) THEN "split" ELSE "transfer")
        /\ run'.amounts = Append(run.amounts, part)
        /\ run'.distributed = run.distributed + part
    <3>1. Append(run.amounts, part) \in Seq(Int) /\ run.distributed + part \in Int
      BY <1>0, <2>6
    <3>. HIDE DEF pool, share
    <3>. QED BY <1>0, <1>3, <2>1, <3>1 DEF Run, RunShape
  <2>8. Underway' /\ \A i \in Nat : UpTo(i)' = UpTo(i)
    BY <1>3, <2>1, <2>7, StillUnderway
  <2>9. /\ Len(run'.amounts) = k + 1 /\ run'.amounts[k + 1] = part
        /\ \A i \in 1 .. k : run'.amounts[i] = run.amounts[i]
    BY <1>n, <1>0, <2>6, <2>7
  <2>10. run'.distributed = SumFunctionOnSet(run'.amounts, 1 .. k + 1)
    BY <1>n, <1>0, <2>2, <2>6, <2>7, SumAppend
  <2>11. CASE k + 1 < Len(run.list)
    <3>1. part = Part(pool, share) /\ run'.pc = "split"
      BY <1>3, <2>7, <2>11
    <3>2. /\ Denominator * run'.distributed <= pool * UpTo(k + 1)
          /\ pool * UpTo(k + 1) <= Denominator * run'.distributed + (k + 1) * (Denominator - 1)
      <4> DEFINE sum == run.distributed + Part(pool, share)
      <4>. HIDE DEF pool, share
      <4>1. /\ Denominator * sum <= pool * (UpTo(k) + share)
            /\ pool * (UpTo(k) + share) <= Denominator * sum + (k + 1) * (Denominator - 1)
        BY <1>0, <2>2, <2>3, <2>4, <2>5, OneMorePart
      <4>2. run'.distributed = sum /\ UpTo(k + 1) = UpTo(k) + share
        BY <2>4, <2>7, <3>1
      <4>. HIDE DEF sum
      <4>. QED BY <4>1, <4>2
    <3>3. Rounded(k + 1)'
      BY <2>7, <2>8, <3>2 DEF Rounded, RunShape, Pool, Fee, Part
    <3>4. \A i \in 1 .. k + 1 : run'.amounts[i] = Part(pool, run'.list[i].share)
      BY <2>2, <2>7, <2>9, <3>1 DEF RunShape
    <3>5. Splitting'
      BY <2>2, <2>7, <2>8, <2>9, <2>10, <2>11, <3>3, <3>4 DEF Splitting, RunShape
    <3>6. Running'
      BY <1>3, <2>1, <2>7, <2>8, <3>1, <3>5 DEF Running, RunShape
    <3>. QED BY <1>1, <1>3, <2>7, <3>1, <3>6, RunGoesOn DEF RunShape
  <2>12. CASE k + 1 = Len(run.list)
    <3>1. part = pool - run.distributed /\ run'.pc = "transfer"
      BY <1>3, <2>7, <2>12
    <3>2. part \in Part(pool, share) .. Part(pool, share) + k
      <4>1. UpTo(k) + share = Denominator
        BY <2>2, <2>4, <2>12
      <4>. HIDE DEF pool, share
      <4>. QED BY <1>0, <2>2, <2>3, <2>4, <2>5, <3>1, <4>1, LastPart
    <3>3. Parts(run.total, run.list, run'.amounts)
      <4>1. SumFunctionOnSet(run'.amounts, 1 .. k + 1) = pool
        BY <1>0, <2>3, <2>7, <2>10, <3>1
      <4>2. ASSUME NEW i \in 1 .. k
            PROVE  run'.amounts[i] >= 0 /\ run'.amounts[i] = Part(pool, run.list[i].share)
        <5>1. run.list[i].share \in Nat
          BY <2>2, <2>4, FeeType
        <5>2. Part(pool, run.list[i].share) \in Nat
          <6>. HIDE DEF pool
          <6>. QED BY <2>3, <5>1, PartIs
        <5>. QED BY <2>2, <2>9, <5>2
      <4>3. run'.amounts[k + 1] >= 0
        BY <2>5, <2>9, <3>2
      <4>4. ASSUME NEW i \in 1 .. k + 1 PROVE i \in 1 .. k \/ i = k + 1
        OBVIOUS
      <4>5. \A i \in 1 .. k + 1 :
              /\ run.list[i].share \in 1 .. Denominator
              /\ run'.amounts[i] >= 0
              /\ i < k + 1 => run'.amounts[i] = Part(pool, run.list[i].share)
              /\ i = k + 1 => run'.amounts[i] \in Part(pool, run.list[i].share)
                                                    .. Part(pool, run.list[i].share) + (k + 1) - 1
        <5>1. Part(pool, share) + (k + 1) - 1 = Part(pool, share) + k
          BY <2>5
        <5>. HIDE DEF pool
        <5>. QED BY <2>4, <2>9, <2>12, <3>2, <4>2, <4>3, <4>4, <5>1
      <4>. QED BY <2>9, <2>12, <4>1, <4>5 DEF Parts
    <3>4. Parts(run.total, run.list, run.amounts)'
      BY <2>7, <3>3, Zenon DEF Parts, RunShape, Pool, Fee, Part
    <3>5. Transferring'
      <4>1. /\ \A a \in Accounts : Given(a, run.sent)' = 0
            /\ SumFunctionOnSet(run'.amounts, 1 .. run'.sent) = 0
        <5>1. 1 .. run'.sent = {}
          BY <2>7
        <5>2. \A a \in Accounts : {i \in 1 .. run'.sent : run'.list[i].address = a} = {}
          BY <5>1
        <5>. QED BY <5>1, <5>2, SumEmpty, Zenon DEF Given, PartsOf
      <4>2. /\ balance' = run'.before /\ balance' \in [Accounts -> Nat] /\ run'.sent <= Len(run'.list)
        BY <1>0, <1>3, <2>1, <2>7 DEF RunShape, Run
      <4>3. \A a \in Accounts : run'.before[a] \in Nat
        BY <4>2
      <4>. QED BY <3>4, <4>1, <4>2, <4>3 DEF Transferring
    <3>6. Running'
      BY <1>3, <2>1, <2>7, <2>8, <3>1, <3>5 DEF Running, RunShape
    <3>. QED BY <1>1, <1>3, <2>7, <3>1, <3>6, RunGoesOn DEF RunShape
  <2>. QED BY <1>0, <2>2, <2>11, <2>12
<1>4. \/ \E e : Abandon(e)
      \/ \E part : /\ part = IF k + 1 < Len(run.list) THEN Part(pool, share)
                                                       ELSE pool - run.distributed
                   /\ run' = [run EXCEPT !.pc = IF k + 1 < Len(run.list) THEN "split" ELSE "transfer",
                                         !.amounts = Append(run.amounts, part),
                                         !.distributed = run.distributed + part]
                   /\ UNCHANGED <<storage, balance, token, events, outcome>>
  <2>1. k + 1 < Len(run.list) => ~(k + 1 = Len(run.list))
    BY <1>0
  <2>. HIDE DEF pool, share
  <2>. QED BY <1>n, <2>1 DEF SplitPart, pool, share
<1>. QED BY <1>2, <1>3, <1>4
-----------------------------------------------------------------------------
(* settle transfers the parts, and ends. *)

(* What an account is given grows by the parts that are its own. *)
LEMMA GivenGrows ==
  ASSUME NEW list, NEW amounts, NEW a, NEW n \in Nat, \A i \in 1 .. n + 1 : amounts[i] \in Int
  PROVE  PartsOf(list, amounts, a, n) \in Int /\
         PartsOf(list, amounts, a, n + 1) =
           PartsOf(list, amounts, a, n) + IF list[n + 1].address = a THEN amounts[n + 1] ELSE 0
<1> DEFINE own(m) == {i \in 1 .. m : list[i].address = a}
<1>1. IsFiniteSet(own(n))
  <2>1. own(n) \subseteq 1 .. n /\ IsFiniteSet(1 .. n)
    BY FS_Interval
  <2>. HIDE DEF own
  <2>. QED BY <2>1, FS_Subset
<1>2. \A i \in own(n) : amounts[i] \in Int
  OBVIOUS
<1>3. n + 1 \notin own(n)
  OBVIOUS
<1>6. SumFunctionOnSet(amounts, own(n)) \in Int
  <2>. HIDE DEF own
  <2>. QED BY <1>1, <1>2, SumIsInt
<1>4. CASE list[n + 1].address = a
  <2>1. own(n + 1) = own(n) \cup {n + 1}
    BY <1>4
  <2>2. SumFunctionOnSet(amounts, own(n) \cup {n + 1}) = SumFunctionOnSet(amounts, own(n)) + amounts[n + 1]
    <3>1. \A i \in own(n) \cup {n + 1} : amounts[i] \in Int
      BY <1>2
    <3>. HIDE DEF own
    <3>. QED BY <1>1, <1>3, <3>1, SumAdd
  <2>3. SumFunctionOnSet(amounts, own(n + 1)) = SumFunctionOnSet(amounts, own(n)) + amounts[n + 1]
    <3>. HIDE DEF own
    <3>. QED BY <2>1, <2>2, Zenon
  <2>. QED BY <1>4, <1>6, <2>3 DEF PartsOf
<1>5. CASE list[n + 1].address # a
  <2>1. own(n + 1) = own(n)
    BY <1>5
  <2>3. SumFunctionOnSet(amounts, own(n + 1)) = SumFunctionOnSet(amounts, own(n))
    <3>. HIDE DEF own
    <3>. QED BY <2>1, Zenon
  <2>. QED BY <1>5, <1>6, <2>3 DEF PartsOf
<1>. QED BY <1>4, <1>5

(* A transfer between two accounts leaves the sum of all as it was. *)
LEMMA TransferKeepsSupply ==
  ASSUME Types, config # None, NEW to \in Accounts, NEW amount \in Int
  PROVE  SumFunctionOnSet(Transferred(to, amount), Accounts) = SumFunctionOnSet(balance, Accounts)
<1>1. /\ IsFiniteSet(Accounts) /\ Platform \in Accounts
      /\ \A x \in Accounts : balance[x] \in Int
  BY FiniteType DEF Types, Platform
<1> DEFINE after == Transferred(to, amount)
           half == [balance EXCEPT ![to] = @ + amount]
<1>2. CASE to = Platform
  <2>1. \A x \in Accounts : after[x] = balance[x]
    BY <1>1, <1>2 DEF Transferred
  <2>. HIDE DEF after
  <2>2. SumFunctionOnSet(after, Accounts) = SumFunctionOnSet(balance, Accounts)
    BY <1>1, <2>1, SumSame
  <2>. QED BY <2>2 DEF after
<1>3. CASE to # Platform
  <2>1. /\ \A x \in Accounts : half[x] \in Int /\ after[x] \in Int
        /\ \A x \in Accounts \ {to} : half[x] = balance[x]
        /\ \A x \in Accounts \ {Platform} : after[x] = half[x]
        /\ half[to] = balance[to] + amount
        /\ after[Platform] = half[Platform] - amount
    BY <1>1, <1>3 DEF Transferred, Types
  <2>. HIDE DEF after, half
  <2>2. SumFunctionOnSet(half, Accounts) = SumFunctionOnSet(balance, Accounts) - balance[to] + half[to]
    BY <1>1, <2>1, SumChange
  <2>3. SumFunctionOnSet(after, Accounts) = SumFunctionOnSet(half, Accounts) - half[Platform] + after[Platform]
    BY <1>1, <2>1, SumChange
  <2>4. SumFunctionOnSet(balance, Accounts) \in Int
    BY <1>1, SumIsInt
  <2>5. SumFunctionOnSet(after, Accounts) = SumFunctionOnSet(balance, Accounts)
    BY <1>1, <2>1, <2>2, <2>3, <2>4
  <2>. QED BY <2>5 DEF after
<1>. QED BY <1>2, <1>3

LEMMA TransferPartKeeps ==
  ASSUME Inv, TransferPart
  PROVE  Inv' /\ UNCHANGED <<markers, visible>>
<1>n. PICK k \in Nat : k = run.sent
  BY RunIs DEF Inv
<1> DEFINE to == run.list[k + 1].address
           amount == run.amounts[k + 1]
<1>0. /\ run \in Run /\ Len(run.list) \in Nat /\ run.before \in [Accounts -> Nat]
      /\ \A i \in 1 .. Len(run.list) : run.list[i].address \in Accounts
      /\ \A i \in 1 .. Len(run.amounts) : run.amounts[i] \in Int
      /\ balance \in [Accounts -> Nat]
  BY RunIs DEF Inv, Types
<1>1. ~Idle /\ run.pc = "transfer" /\ k + 1 <= Len(run.list)
  BY <1>n DEF TransferPart, Idle
<1>2. CASE \E e : Abandon(e)
  BY <1>1, <1>2, AbandonKeeps
<1>3. CASE /\ amount > 0 => Transferable(to, amount)
           /\ balance' = IF amount > 0 THEN Transferred(to, amount) ELSE balance
           /\ run' = [run EXCEPT !.sent = k + 1]
           /\ UNCHANGED <<storage, token, events, outcome>>
  <2>1. Underway /\ Transferring /\ config # None
    BY <1>1 DEF Inv, Running, Underway
  <2>2. /\ Platform \in Accounts /\ Platform' = Platform
    BY <1>3, <2>1 DEF Inv, Types, Platform, storage
  <2>3. /\ Len(run.amounts) = Len(run.list) /\ to \in Accounts /\ amount \in Nat
        /\ \A i \in 1 .. k + 1 : run.amounts[i] \in Int
    <3>1. Len(run.amounts) = Len(run.list) /\ \A i \in 1 .. Len(run.list) : run.amounts[i] >= 0
      BY <2>1 DEF Transferring, Parts
    <3>. QED BY <1>0, <1>1, <3>1
  <2>4. /\ run' \in Run /\ RunShape /\ run'.pc = "transfer" /\ run'.amounts = run.amounts
        /\ run'.sent = k + 1
    <3>1. run' = [run EXCEPT !.sent = k + 1]
      BY <1>3
    <3>2. run \in Run /\ run.pc = "transfer" /\ k + 1 \in Nat
      BY <1>0, <1>1
    <3>3. run' \in Run
      BY ONLY <3>1, <3>2 DEF Run
    <3>4. RunShape
      BY ONLY <3>1, <3>2 DEF Run, RunShape
    <3>. QED BY ONLY <3>1, <3>2, <3>3, <3>4 DEF Run
  <2>5. Underway'
    BY <1>3, <2>1, <2>4, StillUnderway
  <2>6. \A a \in Accounts : balance'[a] = balance[a] + (IF a = to THEN amount ELSE 0)
                                                     - (IF a = Platform THEN amount ELSE 0)
    <3>1. CASE amount > 0
      BY <1>0, <1>3, <2>3, <3>1 DEF Transferred
    <3>2. CASE amount = 0
      <4>1. \A a \in Accounts : balance[a] \in Int
        BY <1>0
      <4>. QED BY <1>3, <2>3, <3>2, <4>1
    <3>. QED BY <2>3, <3>1, <3>2
  <2>7. balance' \in [Accounts -> Nat]
    <3>1. CASE amount > 0
      <4>1. balance[Platform] >= amount /\ balance' = Transferred(to, amount)
        BY <1>3, <3>1 DEF Transferable
      <4>2. \A a \in Accounts : balance[a] \in Nat
        BY <1>0
      <4>3. \A a \in Accounts : balance'[a] \in Nat
        <5>. HIDE DEF to, amount
        <5>. QED BY <2>2, <2>3, <2>6, <4>1, <4>2
      <4>. QED BY <4>1, <4>3 DEF Transferred
    <3>2. CASE amount = 0
      BY <1>0, <1>3, <3>2
    <3>. QED BY <2>3, <3>1, <3>2
  <2>8. SumFunctionOnSet(balance', Accounts) = SumFunctionOnSet(balance, Accounts)
    <3>1. CASE amount > 0
      <4>1. SumFunctionOnSet(Transferred(to, amount), Accounts) = SumFunctionOnSet(balance, Accounts)
        <5>. HIDE DEF to, amount
        <5>. QED BY <2>1, <2>3, TransferKeepsSupply DEF Inv
      <4>2. balance' = Transferred(to, amount)
        BY <1>3, <3>1
      <4>. QED BY <4>1, <4>2, Zenon
    <3>2. CASE amount = 0
      <4>1. balance' = balance
        BY <1>3, <3>2
      <4>. QED BY <4>1, Zenon
    <3>. QED BY <2>3, <3>1, <3>2
  <2>9. /\ \A a \in Accounts : Given(a, k + 1)' = Given(a, k) + IF to = a THEN amount ELSE 0
        /\ \A a \in Accounts : Given(a, k) \in Int
    <3>1. ASSUME NEW a \in Accounts
          PROVE  Given(a, k + 1) = Given(a, k) + (IF to = a THEN amount ELSE 0) /\ Given(a, k) \in Int
      BY <2>3, GivenGrows DEF Given
    <3>2. \A a \in Accounts : Given(a, k + 1)' = Given(a, k + 1)
      BY <2>4, Zenon DEF Given, PartsOf, RunShape
    <3>. QED BY <3>1, <3>2
  <2>10. /\ SumFunctionOnSet(run.amounts, 1 .. k + 1) = SumFunctionOnSet(run.amounts, 1 .. k) + amount
         /\ SumFunctionOnSet(run.amounts, 1 .. k) \in Int
    <3>1. IsFiniteSet(1 .. k)
      BY FS_Interval
    <3>2. \A i \in 1 .. k : run.amounts[i] \in Int
      BY <2>3
    <3>. QED BY <2>3, <3>1, <3>2, SumUpTo, SumIsInt
  <2>11. Transferring'
    <3>1. Parts(run.total, run.list, run.amounts)'
      BY <2>1, <2>4, Zenon DEF Transferring, Parts, RunShape, Pool, Fee, Part
    <3>2. run'.sent <= Len(run'.list)
      BY <1>1, <2>4 DEF RunShape
    <3>3. ASSUME NEW a \in Accounts
          PROVE  /\ balance'[a] = run'.before[a] + Given(a, k + 1)'
                       - IF a = Platform THEN SumFunctionOnSet(run.amounts, 1 .. k + 1) ELSE 0
                 /\ a # Platform => balance'[a] >= run'.before[a]
      <4>1. /\ balance[a] = run.before[a] + Given(a, k)
                   - IF a = Platform THEN SumFunctionOnSet(run.amounts, 1 .. k) ELSE 0
            /\ a # Platform => balance[a] >= run.before[a]
        BY <1>n, <2>1 DEF Transferring
      <4>2. run'.before[a] = run.before[a] /\ run.before[a] \in Int /\ balance[a] \in Int
        BY <1>0, <2>4 DEF RunShape
      <4>3. /\ Given(a, k + 1)' = Given(a, k) + (IF to = a THEN amount ELSE 0)
            /\ Given(a, k) \in Int
            /\ balance'[a] = balance[a] + (IF a = to THEN amount ELSE 0)
                                        - (IF a = Platform THEN amount ELSE 0)
        BY <2>6, <2>9
      <4>. HIDE DEF to, amount, Given, PartsOf
      <4>4. CASE a = Platform
        BY <2>3, <2>10, <4>1, <4>2, <4>3, <4>4
      <4>5. CASE a # Platform
        BY <2>3, <2>10, <4>1, <4>2, <4>3, <4>5
      <4>. QED BY <4>4, <4>5
    <3>4. SumFunctionOnSet(balance', Accounts) = SumFunctionOnSet(run'.before, Accounts)
      <4>1. SumFunctionOnSet(balance, Accounts) = SumFunctionOnSet(run.before, Accounts)
        BY <2>1 DEF Transferring
      <4>2. run'.before = run.before
        BY <2>4 DEF RunShape
      <4>. QED BY <2>8, <4>1, <4>2, Zenon
    <3>5. \A a \in Accounts : Given(a, run.sent)' = Given(a, k + 1)'
      BY <2>4, Zenon DEF Given, PartsOf
    <3>6. SumFunctionOnSet(run.amounts, 1 .. run.sent)' = SumFunctionOnSet(run.amounts, 1 .. k + 1)
      BY <2>4, Zenon
    <3>. QED BY <2>2, <3>1, <3>2, <3>3, <3>4, <3>5, <3>6 DEF Transferring
  <2>12. Running'
    BY <2>4, <2>5, <2>11 DEF Running
  <2>13. visible' = visible
    BY <1>1, <2>4 DEF visible, Idle, RunShape
  <2>14. Settled' /\ Explained'
    BY <1>3, <2>13, StillExplained DEF Inv, storage, token
  <2>15. Types' /\ Fresh'
    BY <1>3, <2>1, <2>4, <2>7 DEF Inv, Types, Fresh, storage, token
  <2>. QED BY <1>3, <2>12, <2>13, <2>14, <2>15 DEF Inv, storage
<1>. QED BY <1>n, <1>2, <1>3 DEF TransferPart
LEMMA SumOneMore ==
  ASSUME NEW S, IsFiniteSet(S), NEW x, x \notin S,
         NEW f, DOMAIN f = S, \A y \in S : f[y] \in Int,
         NEW g, DOMAIN g = S \cup {x}, \A y \in S : g[y] = f[y], g[x] \in Int
  PROVE  SumFunction(g) = SumFunction(f) + g[x]
<1>1. SumFunctionOnSet(g, S \cup {x}) = SumFunctionOnSet(g, S) + g[x]
  BY SumAdd
<1>2. SumFunctionOnSet(g, S) = SumFunctionOnSet(f, S)
  BY SumSame
<1>3. SumFunctionOnSet(g, S \cup {x}) = SumFunctionOnSet(f, S) + g[x]
  BY <1>1, <1>2, Zenon
<1>. QED BY <1>3, Zenon DEF SumFunction

(* The supply of the abstract contract is such a sum. *)
LEMMA SupplyIs ==
  /\ Atomic!Supply = SumFunctionOnSet(visible, Accounts)
  /\ Atomic!Supply' = SumFunctionOnSet(visible', Accounts)
BY DEF Atomic!Supply, Atomic!SumFunctionOnSet, SumFunctionOnSet,
   Atomic!FoldFunctionOnSet, FoldFunctionOnSet, Atomic!MapThenFoldSet, MapThenFoldSet

LEMMA CommitKeeps ==
  ASSUME Inv, Commit
  PROVE  /\ Inv' /\ Atomic!SettleOrder(run.ref, Platform)
         /\ run.ref \in OrderRefs \ Booked /\ Platform \in Accounts
<1>n. PICK o \in OrderRefs \ Booked : o = run.ref
  BY DEF Inv, Running, Underway, Commit
<1>p. PICK n \in Nat : n = Len(run.list)
  BY RunIs DEF Inv
<1>0. /\ run \in Run /\ run.before \in [Accounts -> Nat] /\ run.list \in Seq(Recipient)
      /\ run.total \in Int /\ run.amounts \in Seq(Int)
      /\ balance \in [Accounts -> Nat] /\ events \in [OrderRefs -> {None} \cup Event]
  BY RunIs DEF Inv, Types
<1>1. /\ Underway /\ Transferring /\ config # None /\ ~Idle /\ run.sent = n
      /\ Platform \in Accounts /\ Platform' = Platform
  BY <1>p DEF Inv, Types, Running, Underway, Commit, Idle, Platform
<1>2. /\ Len(run.amounts) = n /\ DOMAIN run.list = 1 .. n
      /\ SumFunctionOnSet(run.amounts, 1 .. n) = Pool(run.total)
      /\ Asked(run.total, run.list) /\ Parts(run.total, run.list, run.amounts)
  BY <1>p, <1>0, <1>1 DEF Underway, Transferring, Parts
<1> DEFINE ev == [total |-> run.total, list |-> run.list, amounts |-> run.amounts]
<1>3. ev \in Event /\ ev # None
  BY <1>0, NoneIsNothing DEF Event
<1>4. /\ events' = [events EXCEPT ![o] = ev] /\ markers' = markers \cup {o}
      /\ run' = NoRun /\ UNCHANGED <<config, balance, token>>
  BY <1>n DEF Commit
<1>5. /\ events'[o] = ev /\ \A x \in OrderRefs \ {o} : events'[x] = events[x]
      /\ events' \in [OrderRefs -> {None} \cup Event]
  <2>. HIDE DEF ev
  <2>. QED BY <1>0, <1>3, <1>4
<1>6. Booked' = Booked \cup {o}
  <2>. HIDE DEF ev
  <2>. QED BY <1>3, <1>5 DEF Booked
<1>7. /\ \A x \in Booked : events'[x] = events[x]
      /\ \A x \in Booked, a \in Accounts : CreditOf(x, a)' = CreditOf(x, a)
  <2>1. \A x \in Booked : events'[x] = events[x]
    BY <1>5 DEF Booked
  <2>2. \A x \in Booked, a \in Accounts : CreditOf(x, a)' = CreditOf(x, a)
    BY <2>1, Zenon DEF CreditOf
  <2>. QED BY <2>1, <2>2
<1>8. \A a \in Accounts : CreditOf(o, a)' = Given(a, n)
  <2>1. events'[o].amounts = run.amounts /\ events'[o].list = run.list
    BY <1>5
  <2>. HIDE DEF ev
  <2>. QED BY <1>2, <2>1, Zenon DEF CreditOf, Given, PartsOf
<1>9. \A a \in Accounts : Given(a, n) \in Int
  <2>1. ASSUME NEW a \in Accounts PROVE Given(a, n) \in Int
    <3> DEFINE S == {i \in 1 .. n : run.list[i].address = a}
    <3>1. S \subseteq 1 .. n /\ \A i \in S : run.amounts[i] \in Int
      BY <1>0, <1>2
    <3>2. IsFiniteSet(1 .. n)
      BY FS_Interval
    <3>3. SumFunctionOnSet(run.amounts, S) \in Int
      <4>. HIDE DEF S
      <4>. QED BY <3>1, <3>2, FS_Subset, SumIsInt
    <3>. QED BY <3>3 DEF Given, PartsOf
  <2>. QED BY <2>1
<1>10. ASSUME NEW a \in Accounts PROVE Credits(a)' = Credits(a) + Given(a, n)
  <2> DEFINE f == [x \in Booked |-> CreditOf(x, a)]
             g == [x \in Booked \cup {o} |-> CreditOf(x, a)']
  <2>1. \A x \in Booked : f[x] \in Int /\ g[x] = f[x]
    BY <1>7, BookIs DEF Inv
  <2>2. g[o] = Given(a, n)
    BY <1>8
  <2>3. IsFiniteSet(Booked)
    BY BookIs DEF Inv
  <2>4. DOMAIN f = Booked /\ DOMAIN g = Booked \cup {o}
    OBVIOUS
  <2>5. SumFunction(g) = SumFunction(f) + g[o]
    <3>. HIDE DEF f, g, ev, Booked, Given
    <3>. QED BY <1>9, <2>1, <2>2, <2>3, <2>4, SumOneMore
  <2>6. Credits(a)' = SumFunction(g)
    BY <1>6, Zenon DEF Credits
  <2>. QED BY <2>2, <2>5, <2>6 DEF Credits
<1>11. PaidOut' = PaidOut + Pool(run.total)
  <2> DEFINE f == [x \in Booked |-> Pool(events[x].total)]
             g == [x \in Booked \cup {o} |-> Pool(events'[x].total)]
  <2>1. \A x \in Booked : f[x] \in Int /\ g[x] = f[x]
    BY <1>7, BookIs DEF Inv
  <2>2. g[o] = Pool(run.total)
    BY <1>5
  <2>3. IsFiniteSet(Booked) /\ Pool(run.total) \in Int
    <3>1. run.total \in Nat
      BY <1>0, <1>2 DEF Asked
    <3>. QED BY <3>1, BookIs, PoolIs DEF Inv
  <2>4. DOMAIN f = Booked /\ DOMAIN g = Booked \cup {o}
    OBVIOUS
  <2>5. SumFunction(g) = SumFunction(f) + g[o]
    <3>. HIDE DEF f, g, ev, Booked
    <3>. QED BY <2>1, <2>2, <2>3, <2>4, SumOneMore
  <2>6. PaidOut' = SumFunction(g)
    BY <1>6, Zenon DEF PaidOut, Pool, Fee, Part
  <2>. QED BY <2>2, <2>5, <2>6 DEF PaidOut
<1>12. visible = run.before /\ visible' = balance
  BY <1>1, <1>4, NoRunIs DEF visible, Idle
<1>13. Explained'
  <2>1. ASSUME NEW a \in Accounts
        PROVE  balance[a] = Credits(a)' + IF config' # None /\ a = Platform'
                                          THEN PaidIn' - PaidOut' ELSE 0
    <3>1. balance[a] = run.before[a] + Given(a, n)
            - IF a = Platform THEN SumFunctionOnSet(run.amounts, 1 .. n) ELSE 0
      BY <1>1 DEF Transferring
    <3>2. run.before[a] = Credits(a) + IF a = Platform THEN PaidIn - PaidOut ELSE 0
      BY <1>1, <1>12 DEF Inv, Explained
    <3>3. Credits(a) \in Int /\ PaidOut \in Int /\ PaidIn \in Int /\ PaidIn' = PaidIn
      BY <1>4, BookIsInt, DepositType DEF Inv, Types, PaidIn, token
    <3>4. Pool(run.total) \in Int
      BY <1>0, <1>1, PoolIs DEF Underway, Asked
    <3>5. config' # None /\ Credits(a)' = Credits(a) + Given(a, n) /\ Given(a, n) \in Int
      BY <1>1, <1>4, <1>9, <1>10
    <3>. HIDE DEF ev, Given, Credits, PaidIn, PaidOut, Pool, Platform
    <3>. QED BY <1>1, <1>2, <1>11, <3>1, <3>2, <3>3, <3>4, <3>5
  <2>. QED BY <1>12, <2>1 DEF Explained
<1>14. Settled'
  <2>1. markers' = Booked'
    BY <1>4, <1>6 DEF Inv, Settled
  <2>2. ASSUME NEW x \in Booked'
        PROVE  /\ Asked(events'[x].total, events'[x].list)
               /\ Parts(events'[x].total, events'[x].list, events'[x].amounts)
    <3>1. CASE x = o
      <4>1. /\ events'[x].total = run.total /\ events'[x].list = run.list
            /\ events'[x].amounts = run.amounts
        BY <1>5, <3>1
      <4>. QED BY <1>2, <4>1, Zenon
    <3>2. CASE x \in Booked
      <4>1. /\ Asked(events[x].total, events[x].list)
            /\ Parts(events[x].total, events[x].list, events[x].amounts)
        BY <3>2 DEF Inv, Settled
      <4>. QED BY <1>7, <3>2, <4>1, Zenon
    <3>. QED BY <1>6, <3>1, <3>2
  <2>3. \A x \in Booked' : Parts(events[x].total, events[x].list, events[x].amounts)'
    BY <2>2, Zenon DEF Parts, Pool, Fee, Part
  <2>4. \A x \in Booked' : Asked(events[x].total, events[x].list)'
    BY <2>2, Zenon DEF Asked
  <2>. QED BY <2>1, <2>3, <2>4 DEF Settled
<1>15. Types' /\ Fresh' /\ Running'
  <2>. HIDE DEF ev
  <2>. QED BY <1>1, <1>4, <1>5, NoRunIs DEF Inv, Types, Fresh, Running, token
<1>16. Atomic!SettleOrder(o, Platform)
  <2>1. o \notin markers /\ markers' = markers \cup {o}
    BY <1>4 DEF Inv, Settled
  <2>2. SumFunctionOnSet(visible', Accounts) = SumFunctionOnSet(visible, Accounts)
    <3>1. SumFunctionOnSet(balance, Accounts) = SumFunctionOnSet(run.before, Accounts)
      BY <1>1 DEF Transferring
    <3>. QED BY <1>12, <3>1, Zenon
  <2>3. \A a \in Accounts \ {Platform} : visible'[a] >= visible[a]
    BY <1>1, <1>12 DEF Transferring
  <2>4. Atomic!Supply' = Atomic!Supply
    BY <2>2, SupplyIs
  <2>. QED BY <2>1, <2>3, <2>4 DEF Atomic!SettleOrder
<1>. QED BY <1>n, <1>1, <1>13, <1>14, <1>15, <1>16 DEF Inv
-----------------------------------------------------------------------------
(* The theorems of the contract. *)

LEMMA VisibleIs ==
  ASSUME Types
  PROVE  visible \in [Accounts -> Nat]
BY RunIs DEF Types, visible

LEMMA StepKeeps ==
  ASSUME Inv, [Next]_contractVars
  PROVE  Inv' /\ [Atomic!Next]_<<markers, visible>>
<1>1. ASSUME NEW p \in Accounts \cup {Usdc}, NEW t \in Accounts \cup {Usdc}, Initialize(p, t)
      PROVE  Inv' /\ UNCHANGED <<markers, visible>>
  BY <1>1, InitializeKeeps
<1>2. ASSUME NEW s \in Accounts, NEW o \in OrderRefs, NEW total \in Totals, NEW list \in Lists,
             Settle(s, o, total, list)
      PROVE  Inv' /\ UNCHANGED <<markers, visible>>
  BY <1>2, SettleKeeps
<1>3. CASE CheckRecipient
  BY <1>3, CheckRecipientKeeps
<1>4. CASE CheckSum
  BY <1>4, CheckSumKeeps
<1>5. CASE SplitPart
  BY <1>5, SplitPartKeeps
<1>6. CASE TransferPart
  BY <1>6, TransferPartKeeps
<1>7. CASE Commit
  BY <1>7, CommitKeeps DEF Atomic!Next
<1>8. CASE Fund
  <2>1. Inv' /\ markers' = markers /\ visible' = [visible EXCEPT ![Platform] = @ + Deposit]
    BY <1>8, FundKeeps
  <2>2. Platform \in Accounts /\ visible \in [Accounts -> Nat] /\ visible[Platform] \in Nat
    BY <1>8, VisibleIs DEF Inv, Types, Fund, Platform
  <2>3. CASE Deposit = 0
    <3>1. visible' = visible
      BY <2>1, <2>2, <2>3
    <3>. QED BY <2>1, <3>1
  <2>4. CASE Deposit > 0
    <3>1. visible'[Platform] > visible[Platform]
      BY <2>1, <2>2, <2>4, DepositType
    <3>2. \A a \in Accounts \ {Platform} : visible'[a] = visible[a]
      BY <2>1, <2>2
    <3>. QED BY <2>1, <2>2, <3>1, <3>2 DEF Atomic!Next, Atomic!Receive
  <2>. QED BY <2>3, <2>4, DepositType
<1>9. ASSUME NEW a \in Accounts, ChangeTrust(a)
      PROVE  Inv' /\ UNCHANGED <<markers, visible>>
  BY <1>9, ChangeTrustKeeps
<1>10. CASE UNCHANGED contractVars
  <2>1. visible' = visible
    BY <1>10 DEF contractVars, visible, Idle
  <2>2. Settled' /\ Explained'
    BY <1>10, <2>1, StillExplained DEF Inv, contractVars
  <2>3. Booked' = Booked
    BY <1>10, BookKept DEF contractVars
  <2>4. Types' /\ Fresh'
    BY <1>10 DEF Inv, Types, Fresh, contractVars
  <2>5. Running'
    <3>1. /\ config' = config /\ balance' = balance /\ run' = run
          /\ UNCHANGED <<storage, events>> /\ RunShape
      BY <1>10 DEF contractVars, storage, RunShape
    <3>2. Underway => Underway'
      BY <3>1, StillUnderway
    <3>3. Splitting => Splitting'
      BY <3>1, Zenon DEF Splitting, UpTo, Rounded, Pool, Fee, Part
    <3>4. Transferring => Transferring'
      BY <3>1, Zenon DEF Transferring, Parts, Pool, Fee, Part, Given, PartsOf, Platform
    <3>. QED BY <3>1, <3>2, <3>3, <3>4 DEF Inv, Running
  <2>. QED BY <1>10, <2>1, <2>2, <2>4, <2>5 DEF Inv, contractVars
<1>. QED BY <1>1, <1>2, <1>3, <1>4, <1>5, <1>6, <1>7, <1>8, <1>9, <1>10 DEF Next, Execute

(* Whatever is asked of the contract and however it ends, the run that is  *)
(* in progress, the ledger and the events agree on what was paid.          *)
THEOREM ContractInvariant == Spec => []Inv
<1>1. Init => Inv
  BY FirstState
<1>2. Inv /\ [Next]_contractVars => Inv'
  BY StepKeeps
<1>. QED BY <1>1, <1>2, PTL DEF Spec

(* The settlement contract implements the abstract one: settling an order  *)
(* is one step that takes from the platform only, and happens once.        *)
THEOREM ContractAtomic == Spec => IsAtomic
<1>1. Init => Atomic!Init
  BY NoRunIs DEF Init, Atomic!Init, visible, Idle
<1>2. Inv /\ [Next]_contractVars => [Atomic!Next]_(Atomic!atomicVars)
  BY StepKeeps DEF Atomic!atomicVars
<1>. QED BY <1>1, <1>2, ContractInvariant, PTL DEF Spec, IsAtomic, Atomic!Spec

(* Every variable of the contract has its type. *)
THEOREM ContractTyped == Spec => []TypeOK
<1>1. Inv => TypeOK
  <2> SUFFICES ASSUME Inv PROVE TypeOK
    OBVIOUS
  <2>1. run.before \in [Accounts -> Nat] /\ run.pc \in {"idle", "validate", "split", "transfer"}
    BY DEF Inv, Types, Run
  <2>2. /\ Len(run.list) \in Nat /\ Len(run.amounts) \in Nat /\ run.sent \in Nat
    BY RunIs DEF Inv
  <2>3. Len(run.amounts) <= Len(run.list) /\ run.sent <= Len(run.amounts)
    <3>1. CASE run = NoRun
      BY <3>1 DEF NoRun
    <3>2. CASE run.pc = "validate"
      BY <2>2, <3>2 DEF Inv, Running
    <3>3. CASE run.pc = "split"
      BY <2>2, <3>3 DEF Inv, Running, Splitting
    <3>4. CASE run.pc = "transfer"
      BY <2>2, <3>4 DEF Inv, Running, Transferring, Parts
    <3>. QED BY <2>1, <3>1, <3>2, <3>3, <3>4 DEF Inv, Running
  <2>4. \A o \in Booked : /\ events[o].total \in Totals /\ events[o].list \in Lists
                          /\ Len(events[o].amounts) = Len(events[o].list)
    BY DEF Inv, Settled, Asked, Parts
  <2>5. markers \subseteq OrderRefs
    BY DEF Inv, Settled, Booked
  <2>. QED BY <2>1, <2>3, <2>4, <2>5 DEF Inv, Types, TypeOK
<1>. QED BY <1>1, ContractInvariant, PTL

(* The events account for every unit on the ledger between two runs.       *)
THEOREM ContractExplained == Spec => []EventsExplainBalances
<1>1. Inv => EventsExplainBalances
  BY DEF Inv, Explained, EventsExplainBalances, Credits, visible
<1>. QED BY <1>1, ContractInvariant, PTL

(* The parts of a settled order are what its shares come to, rounded down, *)
(* but for the last one, and add up to its pool.                           *)
THEOREM ContractSplits == Spec => []SplitIsExact
<1>1. Inv => SplitIsExact
  <2> SUFFICES ASSUME Inv, NEW o \in Booked
               PROVE  /\ SumFunction(events[o].amounts) = Pool(events[o].total)
                      /\ \A i \in DOMAIN events[o].amounts : FairPart(o, i)
    BY DEF SplitIsExact
  <2>1. /\ events[o] \in Event /\ events[o].total \in Nat
        /\ Parts(events[o].total, events[o].list, events[o].amounts)
    BY BookIs DEF Inv, Settled, Asked, Event
  <2>2. PICK n \in Nat : n = Len(events[o].list)
    BY <2>1 DEF Event
  <2>3. DOMAIN events[o].amounts = 1 .. n
    BY <2>1, <2>2 DEF Event, Parts
  <2>4. SumFunction(events[o].amounts) = Pool(events[o].total)
    <3>1. SumFunctionOnSet(events[o].amounts, 1 .. n) = Pool(events[o].total)
      BY <2>1, <2>2 DEF Parts
    <3>. QED BY <2>3, <3>1, Zenon DEF SumFunction
  <2>5. ASSUME NEW i \in 1 .. n PROVE FairPart(o, i)
    <3> DEFINE least == Part(Pool(events[o].total), events[o].list[i].share)
    <3>1. /\ i < n => events[o].amounts[i] = least
          /\ i = n => events[o].amounts[i] \in least .. least + n - 1
          /\ events[o].list[i].share \in 1 .. Denominator
      BY <2>1, <2>2 DEF Parts
    <3>2. events[o].list[i].share \in Nat /\ Pool(events[o].total) \in Nat
      BY <2>1, <3>1, FeeType, PoolIs
    <3>3. least \in Nat
      BY <3>2, PartIs
    <3>4. events[o].amounts[i] \in least .. least + (IF i = n THEN n - 1 ELSE 0)
      <4>. HIDE DEF least
      <4>1. CASE i = n
        BY <3>1, <3>3, <4>1
      <4>2. CASE i # n
        BY <3>1, <3>3, <4>2
      <4>. QED BY <4>1, <4>2
    <3>. QED BY <2>2, <3>4 DEF FairPart
  <2>. QED BY <2>3, <2>4, <2>5
<1>. QED BY <1>1, ContractInvariant, PTL
-----------------------------------------------------------------------------
(* The copies of the split. *)

(* The last part is what the others leave. *)
LEMMA RestIs ==
  ASSUME NEW total, Pool(total) \in Int, NEW list, NEW amounts \in Seq(Int), NEW m \in Nat,
         Len(list) = m + 1, Parts(total, list, amounts)
  PROVE  /\ SumFunctionOnSet(amounts, 1 .. m) \in Int
         /\ amounts[m + 1] = Pool(total) - SumFunctionOnSet(amounts, 1 .. m)
<1>1. /\ \A i \in 1 .. m + 1 : amounts[i] \in Int
      /\ SumFunctionOnSet(amounts, 1 .. m + 1) = Pool(total)
  BY DEF Parts
<1>2. SumFunctionOnSet(amounts, 1 .. m + 1) = SumFunctionOnSet(amounts, 1 .. m) + amounts[m + 1]
  BY <1>1, SumUpTo
<1>3. SumFunctionOnSet(amounts, 1 .. m) \in Int
  <2>1. \A i \in 1 .. m : amounts[i] \in Int
    BY <1>1
  <2>2. IsFiniteSet(1 .. m)
    BY FS_Interval
  <2>. QED BY <2>1, <2>2, SumIsInt
<1>. QED BY <1>1, <1>2, <1>3

FirstParts(pool, list, m) == [j \in 1 .. m |-> Part(pool, list[j].share)]

LEMMA ComputedAre ==
  ASSUME NEW pool, NEW list, NEW m \in Nat, Len(list) = m + 1,
         NEW computed, computed = CreatorAmounts(pool, list),
         NEW parts, parts = FirstParts(pool, list, m)
  PROVE  /\ computed = [i \in 1 .. m + 1 |-> computed[i]]
         /\ \A i \in 1 .. m : computed[i] = parts[i]
         /\ computed[m + 1] = pool - SumFunctionOnSet(parts, 1 .. m)
<1>1. computed = [i \in 1 .. m + 1 |->
        IF i = m + 1 THEN pool - SumFunction([j \in 1 .. i - 1 |-> Part(pool, list[j].share)])
                     ELSE Part(pool, list[i].share)]
  BY DEF CreatorAmounts
<1>2. computed[m + 1] = pool - SumFunction([j \in 1 .. (m + 1) - 1 |-> Part(pool, list[j].share)])
  BY <1>1
<1>3. /\ (m + 1) - 1 = m /\ DOMAIN parts = 1 .. m
      /\ parts = [j \in 1 .. m |-> Part(pool, list[j].share)]
  BY DEF FirstParts
<1>4. computed[m + 1] = pool - SumFunctionOnSet(parts, 1 .. m)
  BY <1>2, <1>3, Zenon DEF SumFunction
<1>5. \A i \in 1 .. m : computed[i] = parts[i]
  <2>1. \A i \in 1 .. m : i \in 1 .. m + 1 /\ i # m + 1
    OBVIOUS
  <2>. QED BY <1>1, <1>3, <2>1
<1>6. computed = [i \in 1 .. m + 1 |-> computed[i]]
  BY <1>1
<1>. QED BY <1>4, <1>5, <1>6

(* What settle paid is what recordSettlementSuccess computes. *)
LEMMA PartsAreComputed ==
  ASSUME NEW total, Pool(total) \in Int, NEW list, NEW amounts \in Seq(Int),
         Len(list) \in Nat \ {0}, Parts(total, list, amounts)
  PROVE  amounts = CreatorAmounts(Pool(total), list)
<1>1. PICK m \in Nat : Len(list) = m + 1
  <2>1. Len(list) - 1 \in Nat /\ Len(list) = (Len(list) - 1) + 1
    OBVIOUS
  <2>. QED BY <2>1
<1> DEFINE pool == Pool(total)
           computed == CreatorAmounts(pool, list)
           parts == FirstParts(pool, list, m)
<1>2. /\ amounts = [i \in 1 .. m + 1 |-> amounts[i]]
      /\ \A i \in 1 .. m : amounts[i] = parts[i]
  BY <1>1 DEF Parts, FirstParts
<1>3. amounts[m + 1] = pool - SumFunctionOnSet(amounts, 1 .. m)
  BY <1>1, RestIs
<1>4. /\ computed = [i \in 1 .. m + 1 |-> computed[i]]
      /\ \A i \in 1 .. m : computed[i] = parts[i]
      /\ computed[m + 1] = pool - SumFunctionOnSet(parts, 1 .. m)
  BY <1>1, ComputedAre
<1>. HIDE DEF computed, parts, pool
<1>5. SumFunctionOnSet(amounts, 1 .. m) = SumFunctionOnSet(parts, 1 .. m)
  <2>1. IsFiniteSet(1 .. m)
    BY FS_Interval
  <2>. QED BY <1>2, <2>1, SumSame
<1>6. \A i \in 1 .. m + 1 : amounts[i] = computed[i]
  <2>1. \A i \in 1 .. m + 1 : i \in 1 .. m \/ i = m + 1
    OBVIOUS
  <2>2. amounts[m + 1] = computed[m + 1]
    BY <1>3, <1>4, <1>5
  <2>. QED BY <1>2, <1>4, <2>1, <2>2
<1>7. amounts = computed
  BY <1>2, <1>4, <1>6
<1>. QED BY <1>7 DEF computed, pool

(* What is booked stays as it is. *)
LEMMA BookedStay ==
  ASSUME Inv, [Next]_contractVars
  PROVE  \A o \in Booked : o \in Booked' /\ events'[o] = events[o]
<1>1. CASE Commit
  <2>1. run.ref \in OrderRefs \ Booked /\ events \in [OrderRefs -> {None} \cup Event]
    BY <1>1, CommitKeeps DEF Inv, Types
  <2>. QED BY <1>1, <2>1 DEF Commit, Booked
<1>2. CASE ~Commit
  <2>1. events' = events
    BY <1>2 DEF Next, Execute, Initialize, Settle, CheckRecipient, CheckSum, SplitPart,
       TransferPart, Fund, ChangeTrust, Abandon, contractVars
  <2>. QED BY <2>1 DEF Booked
<1>. QED BY <1>1, <1>2

(* The rows hold what is computed from the event. *)
InCents(amounts) == [i \in DOMAIN amounts |-> Stored(amounts[i])]
Computed(o) == CreatorAmounts(Pool(events[o].total), events[o].list)
Held(o) ==
  [computed |-> Computed(o),
   stored |-> InCents(Computed(o)),
   fee |-> Stored(Fee(events[o].total))]
Recorded ==
  /\ DOMAIN row = OrderRefs
  /\ \A o \in OrderRefs : row[o] # None => o \in Booked /\ row[o] = Held(o)

LEMMA HeldStays ==
  ASSUME NEW o, events'[o] = events[o]
  PROVE  Held(o)' = Held(o)
BY Zenon DEF Held, Computed, InCents, Stored, CreatorAmounts, Pool, Fee, Part

LEMMA RecordedStep ==
  ASSUME Inv, Recorded, [MirrorNext]_mirrorVars
  PROVE  [Next]_contractVars /\ Recorded'
<1>1. CASE Next /\ UNCHANGED row
  <2>1. \A o \in Booked : o \in Booked' /\ events'[o] = events[o]
    BY <1>1, BookedStay
  <2>2. ASSUME NEW o \in OrderRefs, row'[o] # None
        PROVE  o \in Booked' /\ row'[o] = Held(o)'
    <3>1. o \in Booked /\ row'[o] = row[o] /\ row[o] = Held(o)
      BY <1>1, <2>2 DEF Recorded
    <3>2. events'[o] = events[o] /\ o \in Booked'
      BY <2>1, <3>1
    <3>. QED BY <3>1, <3>2, HeldStays
  <2>. QED BY <1>1, <2>2 DEF Recorded
<1>2. ASSUME NEW o \in OrderRefs, RecordSettlement(o)
      PROVE  [Next]_contractVars /\ Recorded'
  <2>1. /\ events' = events /\ UNCHANGED contractVars /\ o \in Booked
    BY <1>2 DEF RecordSettlement, contractVars, Inv, Settled
  <2>2. Booked' = Booked
    BY <2>1, BookKept
  <2>3. row' = [row EXCEPT ![o] = Held(o)]
    BY <1>2, Zenon DEF RecordSettlement, Held, Computed, InCents
  <2>4. ASSUME NEW x \in OrderRefs, row'[x] # None PROVE x \in Booked' /\ row'[x] = Held(x)'
    <3>1. x \in Booked /\ row'[x] = Held(x)
      BY <2>1, <2>3, <2>4 DEF Recorded
    <3>2. Held(x)' = Held(x)
      BY <2>1, HeldStays
    <3>. QED BY <2>2, <3>1, <3>2
  <2>5. DOMAIN row' = OrderRefs
    BY <2>3 DEF Recorded
  <2>. QED BY <2>1, <2>4, <2>5 DEF Recorded
<1>3. CASE UNCHANGED mirrorVars
  <2>1. events' = events /\ row' = row /\ UNCHANGED contractVars
    BY <1>3 DEF mirrorVars, contractVars
  <2>2. Booked' = Booked
    BY <2>1, BookKept
  <2>3. \A x : Held(x)' = Held(x)
    BY <2>1, HeldStays
  <2>4. Recorded'
    BY <2>1, <2>2, <2>3 DEF Recorded
  <2>. QED BY <2>1, <2>4
<1>. QED BY <1>1, <1>2, <1>3 DEF MirrorNext

LEMMA RecordHolds == MirrorSpec => [](Inv /\ Recorded)
<1>1. MirrorInit => Inv /\ Recorded
  BY FirstState DEF MirrorInit, Recorded
<1>2. Inv /\ Recorded /\ [MirrorNext]_mirrorVars => (Inv /\ Recorded)'
  BY RecordedStep, StepKeeps
<1>. QED BY <1>1, <1>2, PTL DEF MirrorSpec

(* What is paid in a settlement. *)
LEMMA PaidIs ==
  ASSUME Inv, NEW o \in Booked
  PROVE  /\ events[o].total \in Nat /\ Pool(events[o].total) \in Int
         /\ events[o].amounts \in Seq(Int)
         /\ Len(events[o].list) \in Nat \ {0}
         /\ Parts(events[o].total, events[o].list, events[o].amounts)
<1>1. events[o] \in Event /\ Pool(events[o].total) \in Int
  BY BookIs DEF Inv
<1>2. /\ Asked(events[o].total, events[o].list)
      /\ Parts(events[o].total, events[o].list, events[o].amounts)
  BY DEF Inv, Settled
<1>3. /\ events[o].total \in Int /\ events[o].amounts \in Seq(Int)
      /\ events[o].list \in Seq(Recipient)
  BY <1>1 DEF Event
<1>. QED BY <1>1, <1>2, <1>3 DEF Asked

(* The fee of a whole total is a whole number of base units. *)
LEMMA FeeIsWhole ==
  ASSUME NEW total \in Nat
  PROVE  Fee(total) \in Int
<1>1. Part(total, FeeBps) \in Nat
  BY FeeType, PartIs
<1>. QED BY <1>1 DEF Fee

(* InCents to the cent, an amount is half a cent off at most. *)
LEMMA HalfACent ==
  ASSUME NEW amount \in Int
  PROVE  2 * Off(Stored(amount), amount) <= Cent
<1> DEFINE half == Cent \div 2
           cents == Stored(amount)
           x == amount + half
<1>1. Cent \in Nat \ {0}
  BY CentType
<1>2. half \in Nat /\ 2 * half <= Cent /\ Cent <= 2 * half + 1
  BY <1>1
<1>3. x \in Int
  BY <1>2
<1>4. cents \in Int /\ Cent * cents <= x /\ x <= Cent * cents + (Cent - 1)
  <2>1. cents = x \div Cent
    BY DEF Stored
  <2>2. Cent > 0
    BY <1>1
  <2>. HIDE DEF x, cents
  <2>. QED BY <1>1, <1>3, <2>1, <2>2
<1>5. cents * Cent = Cent * cents /\ Cent * cents \in Int
  BY <1>1, <1>4
<1>. HIDE DEF half, cents
<1>6. /\ 2 * (Cent * cents - amount) <= Cent
      /\ 2 * (amount - Cent * cents) <= Cent
  BY <1>1, <1>2, <1>4, <1>5
<1>7. 2 * Off(cents, amount) <= Cent
  BY <1>1, <1>5, <1>6 DEF Off
<1>. QED BY <1>7 DEF cents

(* The rows of a settlement are what was paid: the parts computed again    *)
(* are the contract's, and what the columns keep of them and of the fee is *)
(* half a cent off at most.                                                *)
THEOREM RecordStaysFaithful == MirrorSpec => []RecordMatchesPayment
<1>1. Inv /\ Recorded => RecordMatchesPayment
  <2> SUFFICES ASSUME Inv, Recorded, NEW o \in OrderRefs, row[o] # None
               PROVE  Exact(o) /\ ToTheCent(o)
    BY DEF RecordMatchesPayment
  <2>1. o \in Booked /\ row[o] = Held(o)
    BY DEF Recorded
  <2>2. Computed(o) = events[o].amounts
    BY <2>1, PaidIs, PartsAreComputed DEF Computed
  <2>3. /\ row[o].computed = events[o].amounts
        /\ row[o].stored = InCents(events[o].amounts)
        /\ row[o].fee = Stored(Fee(events[o].total))
    BY <2>1, <2>2 DEF Held
  <2>4. ASSUME NEW i \in DOMAIN row[o].stored
        PROVE  2 * Off(row[o].stored[i], events[o].amounts[i]) <= Cent
    <3>1. i \in DOMAIN events[o].amounts /\ row[o].stored[i] = Stored(events[o].amounts[i])
      BY <2>3, <2>4 DEF InCents
    <3>2. events[o].amounts[i] \in Int
      BY <2>1, <3>1, PaidIs
    <3>. QED BY <3>1, <3>2, HalfACent
  <2>5. 2 * Off(row[o].fee, Fee(events[o].total)) <= Cent
    <3>1. events[o].total \in Nat
      BY <2>1, PaidIs
    <3>2. Fee(events[o].total) \in Int
      BY <3>1, FeeIsWhole
    <3>. QED BY <2>3, <3>2, HalfACent
  <2>. QED BY <2>3, <2>4, <2>5 DEF Exact, ToTheCent
<1>. QED BY <1>1, RecordHolds, PTL

-----------------------------------------------------------------------------
(* The preview of the product form. *)

(* The pool of an amount in cents is less than a cent more, in base units, *)
(* than the pool of the amount itself.                                     *)
LEMMA PoolInCents ==
  ASSUME NEW T \in Nat
  PROVE  Cent * Pool(T) - Pool(Cent * T) \in 0 .. Cent - 1
<1> DEFINE f == Fee(T)
           g == Fee(Cent * T)
           x == T * FeeBps
           d == g - Cent * f
<1>1. /\ Denominator \in Nat \ {0} /\ FeeBps \in Nat /\ Cent \in Nat \ {0}
      /\ Cent * T \in Nat /\ x \in Nat
  BY FeeType, CentType
<1>2. /\ f \in Nat /\ Denominator * f <= x /\ x <= Denominator * f + (Denominator - 1)
  BY <1>1, PartIs DEF Fee
<1>3. /\ g \in Nat /\ Denominator * g <= Cent * x /\ Cent * x <= Denominator * g + (Denominator - 1)
  <2>1. (Cent * T) * FeeBps = Cent * x
    BY <1>1
  <2>2. /\ g \in Nat /\ Denominator * g <= (Cent * T) * FeeBps
        /\ (Cent * T) * FeeBps <= Denominator * g + (Denominator - 1)
    BY <1>1, PartIs DEF Fee
  <2>. QED BY <2>1, <2>2
<1>4. d \in Int /\ Cent * Pool(T) - Pool(Cent * T) = d
  <2>1. Cent * (T - f) = Cent * T - Cent * f
    BY <1>1, <1>2
  <2>. HIDE DEF x
  <2>. QED BY <1>1, <1>2, <1>3, <2>1 DEF Pool
<1>. HIDE DEF f, g, x
<1>5. Denominator * d = Denominator * g - Cent * (Denominator * f)
  BY <1>1, <1>2, <1>3
<1>6. /\ Cent * (Denominator * f) <= Cent * x
      /\ Cent * x <= Cent * (Denominator * f + (Denominator - 1))
  BY <1>1, <1>2, Grow
<1>7. Cent * (Denominator * f + (Denominator - 1))
        = Cent * (Denominator * f) + Denominator * Cent - Cent
  BY <1>1, <1>2
<1>8. /\ Denominator * d \in Int /\ Cent * (Denominator * f) \in Int /\ Denominator * g \in Int
      /\ Cent * x \in Int /\ Denominator * Cent \in Int
  BY <1>1, <1>2, <1>3, <1>4
<1>. HIDE DEF d
<1>9. Denominator * d < Denominator * Cent
  BY <1>1, <1>3, <1>5, <1>6, <1>7, <1>8
<1>10. Denominator * (-1) < Denominator * d
  BY <1>1, <1>3, <1>5, <1>6, <1>8
<1>11. d < Cent /\ -1 < d
  BY <1>1, <1>4, <1>9, <1>10, Cancel
<1>. QED BY <1>1, <1>4, <1>11

(* And so is a part of it. *)
LEMMA PartInCents ==
  ASSUME NEW P \in Nat, NEW Q \in Nat, Cent * P - Q \in 0 .. Cent - 1,
         NEW share \in 1 .. Denominator
  PROVE  Cent * Part(P, share) - Part(Q, share) \in -(Cent - 1) .. Cent - 1
<1> DEFINE f == Part(P, share)
           g == Part(Q, share)
           e == Cent * P - Q
           x == P * share
           d == Cent * f - g
<1>1. /\ Denominator \in Nat \ {0} /\ Cent \in Nat \ {0} /\ share \in Nat \ {0}
      /\ share <= Denominator /\ x \in Nat /\ Cent * P \in Nat /\ e \in 0 .. Cent - 1
  BY FeeType, CentType
<1>2. /\ f \in Nat /\ Denominator * f <= x /\ x <= Denominator * f + (Denominator - 1)
  BY <1>1, PartIs
<1>3. /\ g \in Nat /\ Denominator * g <= Q * share /\ Q * share <= Denominator * g + (Denominator - 1)
  BY <1>1, PartIs
<1>4. d \in Int
  BY <1>1, <1>2, <1>3
<1>5. Q * share = Cent * x - e * share
  <2>1. Q = Cent * P - e
    BY <1>1
  <2>2. (Cent * P) * share = Cent * (P * share)
    BY <1>1
  <2> DEFINE y == Cent * P
  <2>3. e \in Int /\ y \in Int
    BY <1>1
  <2>4. (y - e) * share = y * share - e * share
    <3>. HIDE DEF y, e
    <3>. QED BY <1>1, <2>3
  <2>. HIDE DEF e
  <2>. QED BY <2>1, <2>2, <2>4
<1>6. e \in Int /\ 0 <= e /\ e + 1 <= Cent
  BY <1>1
<1>. HIDE DEF f, g, e, x
<1>7. Denominator * d = Cent * (Denominator * f) - Denominator * g
  BY <1>1, <1>2, <1>3
<1>8. /\ Cent * (Denominator * f) <= Cent * x
      /\ Cent * x <= Cent * (Denominator * f + (Denominator - 1))
  BY <1>1, <1>2, Grow
<1>9. Cent * (Denominator * f + (Denominator - 1))
        = Cent * (Denominator * f) + Denominator * Cent - Cent
  BY <1>1, <1>2
<1>10. 0 <= e * share /\ e * share <= Denominator * e
  <2>1. e \in Nat
    BY <1>6
  <2>2. e * share <= e * Denominator
    BY <1>1, <2>1, Grow
  <2>3. e * Denominator = Denominator * e /\ e * share \in Nat
    BY <1>1, <2>1
  <2>. QED BY <2>2, <2>3
<1>11. Denominator * (e + 1) = Denominator * e + Denominator /\ Denominator * (-Cent) = -(Denominator * Cent)
  BY <1>1, <1>6
<1>12. /\ Denominator * d \in Int /\ Cent * (Denominator * f) \in Int /\ Denominator * g \in Int
       /\ Cent * x \in Int /\ Denominator * Cent \in Int /\ e * share \in Int /\ Denominator * e \in Int
  BY <1>1, <1>2, <1>3, <1>4, <1>6
<1>. HIDE DEF d
<1>13. Denominator * d < Denominator * (e + 1)
  BY <1>1, <1>3, <1>5, <1>7, <1>8, <1>10, <1>11, <1>12
<1>14. Denominator * (-Cent) < Denominator * d
  BY <1>1, <1>3, <1>5, <1>7, <1>8, <1>9, <1>10, <1>11, <1>12
<1>15. d < e + 1 /\ -Cent < d
  <2>1. e + 1 \in Int /\ -Cent \in Int
    BY <1>1, <1>6
  <2>. QED BY <1>1, <1>4, <1>13, <1>14, <2>1, Cancel
<1>16. d \in -(Cent - 1) .. Cent - 1
  BY <1>1, <1>4, <1>6, <1>15
<1>. QED BY <1>16 DEF d, f, g
LEMMA OffIs ==
  ASSUME NEW shown \in Int, NEW paid \in Int, NEW most \in Int,
         Cent * shown - paid < most, paid - Cent * shown < most
  PROVE  Off(shown, paid) < most
<1>1. Cent * shown = shown * Cent /\ shown * Cent \in Int
  BY CentType
<1>. QED BY <1>1 DEF Off

LEMMA PreviewOf ==
  ASSUME NEW T \in Nat, NEW list, NEW paid \in Seq(Int), NEW m \in Nat, Len(list) = m + 1,
         Parts(Cent * T, list, paid)
  PROVE  LET shown == CreatorAmounts(Pool(T), list)
         IN /\ \A i \in 1 .. m : Off(shown[i], paid[i]) < Cent
            /\ Off(shown[m + 1], paid[m + 1]) < Cent * (m + 1)
<1> DEFINE P == Pool(T)
           Q == Pool(Cent * T)
           shown == CreatorAmounts(P, list)
           parts == FirstParts(P, list, m)
           c == Cent - 1
<1>1. Cent \in Nat \ {0} /\ c \in Nat /\ Cent * T \in Nat
  BY CentType
<1>2. P \in Nat /\ Q \in Nat /\ Cent * P - Q \in 0 .. Cent - 1
  <2>1. P \in Nat
    BY PoolIs
  <2>2. Q \in Nat
    <3> DEFINE total == Cent * T
    <3>1. total \in Nat
      BY <1>1
    <3>. HIDE DEF total
    <3>2. Pool(total) \in 0 .. total
      BY <3>1, PoolIs
    <3>3. Pool(total) \in Nat
      BY <3>1, <3>2
    <3>. QED BY <3>3 DEF total
  <2>3. Cent * P - Q \in 0 .. Cent - 1
    BY PoolInCents
  <2>. QED BY <2>1, <2>2, <2>3
<1>3. /\ \A i \in 1 .. m : shown[i] = parts[i]
      /\ shown[m + 1] = P - SumFunctionOnSet(parts, 1 .. m)
  BY ComputedAre
<1>4. /\ SumFunctionOnSet(paid, 1 .. m) \in Int
      /\ paid[m + 1] = Q - SumFunctionOnSet(paid, 1 .. m)
  <2>. HIDE DEF P
  <2>. QED BY <1>2, RestIs
<1>5. \A i \in 1 .. m : list[i].share \in 1 .. Denominator /\ paid[i] = Part(Q, list[i].share)
  BY DEF Parts
<1>. HIDE DEF P, Q, shown
<1>6. ASSUME NEW i \in 1 .. m
      PROVE  /\ parts[i] \in Int /\ paid[i] \in Int
             /\ Cent * parts[i] - paid[i] \in -c .. c
  <2>1. list[i].share \in Nat
    BY <1>5, FeeType
  <2>2. /\ Part(P, list[i].share) \in Nat /\ Part(Q, list[i].share) \in Nat
        /\ Cent * Part(P, list[i].share) - Part(Q, list[i].share) \in -(Cent - 1) .. Cent - 1
    BY <1>2, <1>5, <2>1, PartIs, PartInCents
  <2>. QED BY <1>5, <2>2 DEF FirstParts
<1>. HIDE DEF parts, c
<1>7. IsFiniteSet(1 .. m) /\ Cardinality(1 .. m) = m
  BY FS_Interval
<1>8. SumFunctionOnSet(parts, 1 .. m) \in Int
  BY <1>6, <1>7, SumIsInt
<1> DEFINE gap == Cent * SumFunctionOnSet(parts, 1 .. m) - SumFunctionOnSet(paid, 1 .. m)
<1>9. gap <= c * m /\ -gap <= c * m
  <2>1. /\ Cent * SumFunctionOnSet(parts, 1 .. m) - SumFunctionOnSet(paid, 1 .. m)
             <= c * Cardinality(1 .. m)
        /\ SumFunctionOnSet(paid, 1 .. m) - Cent * SumFunctionOnSet(parts, 1 .. m)
             <= c * Cardinality(1 .. m)
    <3>1. /\ \A x \in 1 .. m : parts[x] \in Int
          /\ \A x \in 1 .. m : paid[x] \in Int
          /\ \A x \in 1 .. m : Cent * parts[x] - paid[x] \in -c .. c
      BY <1>6
    <3>2. Cent \in Int /\ c \in Nat /\ IsFiniteSet(1 .. m)
      BY <1>1, <1>7
    <3>. QED BY ONLY <3>1, <3>2, SumClose
  <2>2. Cent * SumFunctionOnSet(parts, 1 .. m) \in Int
    BY <1>1, <1>8
  <2>. QED BY <1>4, <1>7, <2>1, <2>2
<1>10. /\ shown[m + 1] \in Int /\ paid[m + 1] \in Int /\ gap \in Int
       /\ Cent * shown[m + 1] - paid[m + 1] = (Cent * P - Q) - gap
  <2>1. Cent * (P - SumFunctionOnSet(parts, 1 .. m)) = Cent * P - Cent * SumFunctionOnSet(parts, 1 .. m)
    BY <1>1, <1>2, <1>8
  <2>2. Cent * SumFunctionOnSet(parts, 1 .. m) \in Int /\ Cent * P \in Int
    BY <1>1, <1>2, <1>8
  <2>3. gap \in Int /\ shown[m + 1] \in Int /\ paid[m + 1] \in Int
    <3>1. shown[m + 1] \in Int
      BY <1>2, <1>3, <1>8
    <3>2. paid[m + 1] \in Int
      BY <1>2, <1>4
    <3>3. gap \in Int
      BY <1>4, <2>2
    <3>. QED BY <3>1, <3>2, <3>3
  <2>4. Cent * shown[m + 1] = Cent * P - Cent * SumFunctionOnSet(parts, 1 .. m)
    BY <1>3, <2>1
  <2>. QED BY <1>2, <1>4, <2>2, <2>3, <2>4
<1>11. c * m + c < Cent * (m + 1) /\ c * m \in Int /\ c = Cent - 1
  <2>1. (Cent - 1) * m = Cent * m - m /\ Cent * (m + 1) = Cent * m + Cent /\ Cent * m \in Int
    BY <1>1
  <2>. QED BY <1>1, <2>1 DEF c
<1>12. Off(shown[m + 1], paid[m + 1]) < Cent * (m + 1)
  <2>1. Cent * (m + 1) \in Int /\ Cent * shown[m + 1] \in Int /\ Cent * P \in Int
    BY <1>1, <1>2, <1>10
  <2>2. /\ Cent * shown[m + 1] - paid[m + 1] < Cent * (m + 1)
        /\ paid[m + 1] - Cent * shown[m + 1] < Cent * (m + 1)
    <3>. HIDE DEF gap
    <3>. QED BY <1>1, <1>2, <1>9, <1>10, <1>11, <2>1
  <2>. HIDE DEF gap
  <2>. QED BY <1>10, <2>1, <2>2, OffIs
<1>13. ASSUME NEW i \in 1 .. m PROVE Off(shown[i], paid[i]) < Cent
  <2>1. /\ shown[i] \in Int /\ paid[i] \in Int
        /\ Cent * shown[i] - paid[i] \in -c .. c
    BY <1>3, <1>6
  <2>2. Cent * shown[i] \in Int
    BY <1>1, <2>1
  <2>3. Cent * shown[i] - paid[i] < Cent /\ paid[i] - Cent * shown[i] < Cent
    BY <1>1, <1>11, <2>1, <2>2
  <2>. QED BY <1>1, <2>1, <2>3, OffIs
<1>. QED BY <1>12, <1>13 DEF shown, P

LEMMA WholeCents ==
  ASSUME NEW total \in Nat, total % Cent = 0
  PROVE  total \div Cent \in Nat /\ total = Cent * (total \div Cent)
BY CentType

(* What the form shows of a price is what is paid for it, up to the cents  *)
(* that the form cannot show.                                              *)
THEOREM PreviewStaysClose == MirrorSpec => []PreviewIsClose
<1>1. Inv => PreviewIsClose
  <2> SUFFICES ASSUME Inv, NEW o \in Priced, NEW i \in DOMAIN events[o].amounts
               PROVE  LET paid == events[o].amounts
                      IN Off(Shown(o)[i], paid[i])
                           < Cent * (IF i = Len(paid) THEN Len(paid) ELSE 1)
    BY DEF PreviewIsClose
  <2> DEFINE total == events[o].total
             list == events[o].list
             paid == events[o].amounts
             T == total \div Cent
             shown == CreatorAmounts(Pool(T), list)
  <2>1. o \in Booked /\ total % Cent = 0
    BY DEF Priced
  <2>2. PICK m \in Nat : Len(list) = m + 1
    <3>1. Len(list) - 1 \in Nat /\ Len(list) = (Len(list) - 1) + 1
      BY <2>1, PaidIs
    <3>. QED BY <3>1
  <2>3. paid \in Seq(Int) /\ Len(paid) = m + 1 /\ Parts(total, list, paid) /\ total \in Nat
    BY <2>1, <2>2, PaidIs DEF Parts
  <2>4. T \in Nat /\ total = Cent * T
    BY <2>1, <2>3, WholeCents
  <2>5. Parts(Cent * T, list, paid)
    BY <2>3, <2>4, Zenon
  <2>6. /\ \A j \in 1 .. m : Off(shown[j], paid[j]) < Cent
        /\ Off(shown[m + 1], paid[m + 1]) < Cent * (m + 1)
    <3>. HIDE DEF T, list, paid, total
    <3>. QED BY <2>2, <2>3, <2>4, <2>5, PreviewOf, Zenon
  <2>7. i \in 1 .. m \/ i = m + 1
    BY <2>3
  <2>8. Off(shown[i], paid[i]) < Cent * (IF i = Len(paid) THEN Len(paid) ELSE 1)
    <3>. HIDE DEF shown, paid
    <3>1. CASE i = m + 1
      BY <2>3, <2>6, <3>1
    <3>2. CASE i \in 1 .. m
      BY <2>3, <2>6, <3>2, CentType
    <3>. QED BY <2>7, <3>1, <3>2
  <2>. QED BY <2>8 DEF ComputeSplit, Shown
<1>. QED BY <1>1, RecordHolds, PTL

(* The copies leave the contract alone: what is proved of it holds beside  *)
(* them.                                                                   *)
THEOREM MirrorOnlyReads == MirrorSpec => Spec
<1>1. MirrorInit => Init
  BY DEF MirrorInit
<1>2. [MirrorNext]_mirrorVars => [Next]_contractVars
  BY DEF MirrorNext, RecordSettlement, mirrorVars
<1>. QED BY <1>1, <1>2, PTL DEF MirrorSpec, Spec
=============================================================================
