----------------------------- MODULE PayoutsProofs -----------------------------
(***************************************************************************)
(* The payout ledger keeps the promise of Ledger for any number of sales,  *)
(* marks, screens and weeks.  The reason is the row lock: a sale a mark    *)
(* has taken cannot be linked by anyone else before the mark ends, so all  *)
(* that was true of it when it was taken is true when it is recorded.  The *)
(* amounts are sums over sets, of which a first part tells what is needed. *)
(***************************************************************************)
EXTENDS PayoutProperties, FiniteSetsExt, FiniteSetTheorems, TLAPS

-------------------------------------------------------------------------------
(* Sums over finite sets, as MapThenSumSet defines them: by recursion on     *)
(* subsets, taking out a chosen element at a time.  The recursion has one    *)
(* solution, and its value does not depend on the elements chosen.  Where    *)
(* one would argue by induction, the proofs take a smallest set for which    *)
(* the claim fails.                                                          *)

Pick(s) == CHOOSE x \in s : TRUE

\* g is the sum of f over every part of S.
Adds(g, f, S) == g = [s \in SUBSET S |-> IF s = {} THEN 0 ELSE f[Pick(s)] + g[s \ {Pick(s)}]]

Total(f, S) == MapThenSumSet(LAMBDA x : f[x], S)

LEMMA TotalIs ==
  ASSUME NEW f, NEW S
  PROVE  Total(f, S) = (CHOOSE g : Adds(g, f, S))[S]
BY DEF Total, MapThenSumSet, MapThenFoldSet, Adds, Pick

LEMMA MinimalSet ==
  ASSUME NEW S, IsFiniteSet(S), NEW C, C \subseteq SUBSET S, C # {}
  PROVE  \E T \in C : \A U \in C : U \subseteq T => U = T
<1>1. FiniteSubsetsOf(S) = SUBSET S
  BY FS_FiniteSubsetsOfFinite
<1>2. IsWellFoundedOn(StrictSubsetOrdering(S), SUBSET S)
  BY <1>1, FS_StrictSubsetOrderingWellFounded
<1>3. \E T \in C : \A U \in C : ~ (<<U, T>> \in StrictSubsetOrdering(S))
  BY <1>2, WFMin
<1> QED
  BY <1>3 DEF StrictSubsetOrdering

LEMMA PickIn == ASSUME NEW s, s # {} PROVE Pick(s) \in s
BY DEF Pick

\* Whatever sums f over S and over a part of it agrees on the part.
LEMMA AddsAgree ==
  ASSUME NEW f, NEW S, IsFiniteSet(S), NEW T \in SUBSET S,
         NEW g, Adds(g, f, S), NEW h, Adds(h, f, T)
  PROVE  \A s \in SUBSET T : g[s] = h[s]
<1> DEFINE C == {s \in SUBSET T : g[s] # h[s]}
<1> SUFFICES ASSUME C # {} PROVE FALSE
  OBVIOUS
<1>1. PICK s \in C : \A u \in C : u \subseteq s => u = s
  <2>1. C \subseteq SUBSET S
    OBVIOUS
  <2> HIDE DEF C
  <2> QED
    BY <2>1, MinimalSet
<1>2. s # {}
  BY DEF Adds
<1>3. Pick(s) \in s
  BY <1>2, PickIn
<1>4. g[s \ {Pick(s)}] = h[s \ {Pick(s)}]
  BY <1>1, <1>3
<1>5. /\ g[s] = f[Pick(s)] + g[s \ {Pick(s)}]
      /\ h[s] = f[Pick(s)] + h[s \ {Pick(s)}]
  BY <1>2 DEF Adds
<1> QED
  BY <1>4, <1>5

LEMMA AddsExists ==
  ASSUME NEW f, NEW S, IsFiniteSet(S)
  PROVE  \E g : Adds(g, f, S)
<1> DEFINE C == {T \in SUBSET S : ~ \E g : Adds(g, f, T)}
<1> SUFFICES ASSUME C # {} PROVE FALSE
  OBVIOUS
<1>1. PICK T \in C : \A U \in C : U \subseteq T => U = T
  <2>1. C \subseteq SUBSET S
    OBVIOUS
  <2> HIDE DEF C
  <2> QED
    BY <2>1, MinimalSet
<1> DEFINE sum(U) == CHOOSE g : Adds(g, f, U)
           g == [s \in SUBSET T |->
                   IF s = {} THEN 0
                   ELSE f[Pick(s)] + sum(s \ {Pick(s)})[s \ {Pick(s)}]]
<1>2. ASSUME NEW U \in SUBSET T, U # T PROVE Adds(sum(U), f, U)
  BY <1>1, <1>2
<1> HIDE DEF sum
<1>3. ASSUME NEW U \in SUBSET T, U # T PROVE sum(U)[U] = g[U]
  <2>1. sum(U)[U] = IF U = {} THEN 0 ELSE f[Pick(U)] + sum(U)[U \ {Pick(U)}]
    BY <1>2, <1>3 DEF Adds
  <2>2. CASE U = {}
    BY <2>1, <2>2
  <2>3. CASE U # {}
    <3> DEFINE V == U \ {Pick(U)}
    <3>1. V \in SUBSET U /\ V \in SUBSET T /\ V # T
      BY <1>3, <2>3, PickIn
    <3>2. IsFiniteSet(U)
      BY FS_Subset
    <3>3. sum(U)[V] = sum(V)[V]
      BY <1>2, <1>3, <3>1, <3>2, AddsAgree
    <3> QED
      BY <2>1, <2>3, <3>3
  <2> QED
    BY <2>2, <2>3
<1>4. ASSUME NEW s \in SUBSET T
      PROVE  g[s] = IF s = {} THEN 0 ELSE f[Pick(s)] + g[s \ {Pick(s)}]
  <2>1. CASE s = {}
    BY <2>1
  <2>2. CASE s # {}
    <3>1. s \ {Pick(s)} \in SUBSET T /\ s \ {Pick(s)} # T
      BY <2>2, PickIn
    <3> QED
      BY <1>3, <2>2, <3>1
  <2> QED
    BY <2>1, <2>2
<1>5. Adds(g, f, T)
  <2>1. g = [s \in SUBSET T |-> g[s]]
    OBVIOUS
  <2> HIDE DEF g
  <2> QED
    BY <1>4, <2>1 DEF Adds
<1> QED
  BY <1>1, <1>5

-------------------------------------------------------------------------------
(* What a sum is, and that any element may be taken out of it first.         *)

LEMMA TotalAdds ==
  ASSUME NEW f, NEW S, IsFiniteSet(S), NEW g, Adds(g, f, S), NEW T \in SUBSET S
  PROVE  Total(f, T) = g[T]
<1> DEFINE h == CHOOSE h : Adds(h, f, T)
<1>1. IsFiniteSet(T)
  BY FS_Subset
<1>2. Adds(h, f, T)
  BY <1>1, AddsExists
<1>3. Total(f, T) = h[T]
  BY TotalIs
<1> HIDE DEF h
<1> QED
  BY <1>2, <1>3, AddsAgree

LEMMA TotalPicks ==
  ASSUME NEW f, NEW S, IsFiniteSet(S)
  PROVE  Total(f, S) = IF S = {} THEN 0 ELSE f[Pick(S)] + Total(f, S \ {Pick(S)})
<1>1. PICK g : Adds(g, f, S)
  BY AddsExists
<1>2. \A T \in SUBSET S : Total(f, T) = g[T]
  BY <1>1, TotalAdds
<1>3. g[S] = IF S = {} THEN 0 ELSE f[Pick(S)] + g[S \ {Pick(S)}]
  BY <1>1 DEF Adds
<1> QED
  BY <1>2, <1>3

\* Of nothing the sum is 0.
THEOREM TotalOfNone == ASSUME NEW f PROVE Total(f, {}) = 0
BY TotalPicks, FS_EmptySet

\* The sum is a number, and any element may be taken out of it.
THEOREM TotalWithout ==
  ASSUME NEW f, NEW S, IsFiniteSet(S), \A x \in S : f[x] \in Int
  PROVE  /\ Total(f, S) \in Int
         /\ \A x \in S : Total(f, S) = f[x] + Total(f, S \ {x})
<1> DEFINE Holds(T) == /\ Total(f, T) \in Int
                       /\ \A x \in T : Total(f, T) = f[x] + Total(f, T \ {x})
           C == {T \in SUBSET S : ~ Holds(T)}
<1> SUFFICES ASSUME C # {} PROVE FALSE
  OBVIOUS
<1>1. PICK T \in C : \A U \in C : U \subseteq T => U = T
  <2>1. C \subseteq SUBSET S
    OBVIOUS
  <2> HIDE DEF C
  <2> QED
    BY <2>1, MinimalSet
<1>2. \A U \in SUBSET T : U # T => Holds(U)
  BY <1>1
<1>3. T \in SUBSET S /\ ~ Holds(T) /\ IsFiniteSet(T)
  BY <1>1, FS_Subset
<1>4. T # {}
  <2>1. Total(f, {}) \in Int
    BY TotalOfNone
  <2>2. Holds({})
    BY <2>1
  <2> HIDE DEF Holds
  <2> QED
    BY <1>3, <2>2
<1> DEFINE y == Pick(T)
<1>5. y \in T /\ f[y] \in Int /\ Total(f, T) = f[y] + Total(f, T \ {y})
  BY <1>3, <1>4, PickIn, TotalPicks
<1> HIDE DEF y
<1>6. Holds(T \ {y})
  BY <1>2, <1>5
<1>7. Total(f, T) \in Int
  BY <1>5, <1>6
<1>8. ASSUME NEW x \in T PROVE Total(f, T) = f[x] + Total(f, T \ {x})
  <2>1. CASE x = y
    BY <1>5, <2>1
  <2>2. CASE x # y
    <3>1. Holds(T \ {x}) /\ y \in T \ {x} /\ x \in T \ {y}
      BY <1>2, <1>5, <2>2
    <3>2. (T \ {x}) \ {y} = (T \ {y}) \ {x}
      OBVIOUS
    <3> DEFINE rest == Total(f, (T \ {y}) \ {x})
    <3>3. /\ Total(f, T \ {y}) = f[x] + rest
          /\ Total(f, T \ {x}) = f[y] + rest
      BY <1>6, <3>1, <3>2
    <3>4. Holds((T \ {y}) \ {x})
      BY <1>2, <1>5
    <3>5. rest \in Int /\ f[x] \in Int
      BY <1>3, <3>4
    <3> HIDE DEF rest
    <3> QED
      BY <1>5, <3>3, <3>5
  <2> QED
    BY <2>1, <2>2
<1> QED
  BY <1>3, <1>7, <1>8

\* It depends on nothing but the values of the elements.
THEOREM TotalOfSame ==
  ASSUME NEW f, NEW g, NEW S, IsFiniteSet(S), \A x \in S : f[x] = g[x]
  PROVE  Total(f, S) = Total(g, S)
<1> DEFINE C == {T \in SUBSET S : Total(f, T) # Total(g, T)}
<1> SUFFICES ASSUME C # {} PROVE FALSE
  OBVIOUS
<1>1. PICK T \in C : \A U \in C : U \subseteq T => U = T
  <2>1. C \subseteq SUBSET S
    OBVIOUS
  <2> HIDE DEF C
  <2> QED
    BY <2>1, MinimalSet
<1>2. IsFiniteSet(T) /\ T # {}
  BY <1>1, TotalOfNone, FS_Subset
<1>3. Pick(T) \in T
  BY <1>2, PickIn
<1>4. Total(f, T \ {Pick(T)}) = Total(g, T \ {Pick(T)})
  BY <1>1, <1>3
<1> QED
  BY <1>1, <1>2, <1>3, <1>4, TotalPicks

\* Sums over parts add up.
THEOREM TotalOfParts ==
  ASSUME NEW f, NEW S, IsFiniteSet(S), \A x \in S : f[x] \in Int, NEW A \in SUBSET S
  PROVE  Total(f, S) = Total(f, A) + Total(f, S \ A)
<1> DEFINE C == {T \in SUBSET S : Total(f, T) # Total(f, T \cap A) + Total(f, T \ A)}
<1> SUFFICES C = {}
  <2>1. S \cap A = A
    OBVIOUS
  <2> QED
    BY <2>1
<1> SUFFICES ASSUME C # {} PROVE FALSE
  OBVIOUS
<1>1. PICK T \in C : \A U \in C : U \subseteq T => U = T
  <2>1. C \subseteq SUBSET S
    OBVIOUS
  <2> HIDE DEF C
  <2> QED
    BY <2>1, MinimalSet
<1>2. /\ IsFiniteSet(T) /\ IsFiniteSet(T \cap A) /\ IsFiniteSet(T \ A)
      /\ T \subseteq S /\ Total(f, T) # Total(f, T \cap A) + Total(f, T \ A)
  BY <1>1, FS_Subset
<1>3. PICK x \in T : TRUE
  <2>1. CASE T = {}
    <3>1. T \cap A = {} /\ T \ A = {}
      BY <2>1
    <3> QED
      BY <1>2, <2>1, <3>1, TotalOfNone
  <2> QED
    BY <2>1
<1> DEFINE U == T \ {x}
           In == U \cap A
           Out == U \ A
<1>4. Total(f, U) = Total(f, In) + Total(f, Out)
  BY <1>1, <1>3
<1>5. f[x] \in Int /\ Total(f, T) = f[x] + Total(f, U)
  BY <1>2, <1>3, TotalWithout
<1>6. IsFiniteSet(In) /\ IsFiniteSet(Out)
  BY <1>2, FS_Subset
<1>7. Total(f, In) \in Int /\ Total(f, Out) \in Int
  BY <1>2, <1>6, TotalWithout
<1>8. /\ x \in A => x \in T \cap A /\ (T \cap A) \ {x} = In /\ T \ A = Out
      /\ x \notin A => x \in T \ A /\ (T \ A) \ {x} = Out /\ T \cap A = In
  BY <1>3
<1>9. /\ \A y \in T \cap A : Total(f, T \cap A) = f[y] + Total(f, (T \cap A) \ {y})
      /\ \A y \in T \ A : Total(f, T \ A) = f[y] + Total(f, (T \ A) \ {y})
  BY <1>2, TotalWithout
<1> HIDE DEF U, In, Out
<1>10. CASE x \in A
  <2>1. Total(f, T \cap A) = f[x] + Total(f, In) /\ Total(f, T \ A) = Total(f, Out)
    BY <1>8, <1>9, <1>10
  <2> QED
    BY <1>2, <1>4, <1>5, <1>7, <2>1
<1>11. CASE x \notin A
  <2>1. Total(f, T \ A) = f[x] + Total(f, Out) /\ Total(f, T \cap A) = Total(f, In)
    BY <1>8, <1>9, <1>11
  <2> QED
    BY <1>2, <1>4, <1>5, <1>7, <2>1
<1> QED
  BY <1>10, <1>11

\* A sum of naturals is a natural.
THEOREM TotalOfNaturals ==
  ASSUME NEW f, NEW S, IsFiniteSet(S), \A x \in S : f[x] \in Nat
  PROVE  Total(f, S) \in Nat
<1> DEFINE C == {T \in SUBSET S : Total(f, T) \notin Nat}
<1> SUFFICES ASSUME C # {} PROVE FALSE
  OBVIOUS
<1>1. PICK T \in C : \A U \in C : U \subseteq T => U = T
  <2>1. C \subseteq SUBSET S
    OBVIOUS
  <2> HIDE DEF C
  <2> QED
    BY <2>1, MinimalSet
<1>2. IsFiniteSet(T) /\ T # {}
  <2>1. Total(f, {}) = 0
    BY TotalOfNone
  <2>2. 0 \in Nat
    OBVIOUS
  <2> QED
    BY <1>1, <2>1, <2>2, FS_Subset
<1>3. Pick(T) \in T
  BY <1>2, PickIn
<1>4. Total(f, T \ {Pick(T)}) \in Nat
  BY <1>1, <1>3
<1>5. Total(f, T) = f[Pick(T)] + Total(f, T \ {Pick(T)})
  BY <1>2, TotalPicks
<1> QED
  BY <1>1, <1>3, <1>4, <1>5

\* Where every element is a multiple of 10, as the nominals of certificates are,
\* so is the sum.
THEOREM TotalOfTens ==
  ASSUME NEW f, NEW S, IsFiniteSet(S), \A x \in S : f[x] \in Nat /\ f[x] % 10 = 0
  PROVE  Total(f, S) % 10 = 0
<1> DEFINE C == {T \in SUBSET S : Total(f, T) % 10 # 0}
<1> SUFFICES ASSUME C # {} PROVE FALSE
  OBVIOUS
<1>1. PICK T \in C : \A U \in C : U \subseteq T => U = T
  <2>1. C \subseteq SUBSET S
    OBVIOUS
  <2> HIDE DEF C
  <2> QED
    BY <2>1, MinimalSet
<1>2. IsFiniteSet(T) /\ T # {}
  <2>1. Total(f, {}) = 0
    BY TotalOfNone
  <2>2. 0 % 10 = 0
    OBVIOUS
  <2> QED
    BY <1>1, <2>1, <2>2, FS_Subset
<1>3. Pick(T) \in T
  BY <1>2, PickIn
<1>4. Total(f, T \ {Pick(T)}) % 10 = 0
  BY <1>1, <1>3
<1>5. Total(f, T) = f[Pick(T)] + Total(f, T \ {Pick(T)})
  BY <1>2, TotalPicks
<1>6. Total(f, T \ {Pick(T)}) \in Nat /\ f[Pick(T)] \in Nat /\ f[Pick(T)] % 10 = 0
  <2>1. IsFiniteSet(T \ {Pick(T)})
    BY <1>2, FS_Subset
  <2> QED
    BY <1>1, <1>3, <2>1, TotalOfNaturals
<1>7. \A a, b \in Nat : a % 10 = 0 /\ b % 10 = 0 => (a + b) % 10 = 0
  OBVIOUS
<1> QED
  BY <1>1, <1>4, <1>5, <1>6, <1>7

\* A sum of naturals is no less than any of its parts, or of its elements.
THEOREM TotalCountsParts ==
  ASSUME NEW f, NEW S, IsFiniteSet(S), \A x \in S : f[x] \in Nat, NEW A \in SUBSET S
  PROVE  Total(f, A) <= Total(f, S) /\ \A x \in S : f[x] <= Total(f, S)
<1>1. IsFiniteSet(A) /\ IsFiniteSet(S \ A) /\ \A x \in S : IsFiniteSet(S \ {x})
  BY FS_Subset
<1>2. /\ Total(f, A) \in Nat /\ Total(f, S \ A) \in Nat /\ Total(f, S) \in Nat
      /\ \A x \in S : Total(f, S \ {x}) \in Nat
  BY <1>1, TotalOfNaturals
<1>3. Total(f, S) = Total(f, A) + Total(f, S \ A)
  BY TotalOfParts
<1>4. \A x \in S : Total(f, S) = f[x] + Total(f, S \ {x})
  BY TotalWithout
<1>5. Total(f, A) <= Total(f, S)
  BY <1>2, <1>3
<1>6. ASSUME NEW x \in S PROVE f[x] <= Total(f, S)
  <2>1. f[x] \in Nat /\ Total(f, S \ {x}) \in Nat /\ Total(f, S) = f[x] + Total(f, S \ {x})
    BY <1>2, <1>4
  <2> QED
    BY <2>1
<1> QED
  BY <1>5, <1>6

-------------------------------------------------------------------------------
(* The invariant.                                                            *)

MarkRecords(E) ==
  [pc : Outcomes, merchant : Merchants \cup {None}, week : Weeks \cup {None}, expected : E,
   rest : SUBSET Sales, taken : SUBSET Sales, next : Sales \cup {None}]

Types ==
  /\ state \in [Sales -> {"unpaid", "paid", "needs_review", "refunded"}]
  /\ week \in [Sales -> Weeks \cup {None}]
  /\ payoutId \in [Sales -> Marks \cup {None}]
  /\ DOMAIN payouts = Marks
  /\ locks \in [Sales -> Marks \cup {None}]
  /\ \E E : mark \in [Marks -> MarkRecords(E)]

\* What Finik took money for has its week.
Dated == \A s \in Sales : state[s] # "unpaid" => week[s] \in Weeks

\* A sale of the week and merchant that a mark is for.
Fits(p, s) == state[s] = "paid" /\ MerchantOf[s] = mark[p].merchant /\ week[s] = mark[p].week

\* The rows a mark is going through fit, and it holds those it has taken, which
\* no payout covers yet.
Going ==
  \A p \in Marks : mark[p].pc = "locking" =>
    /\ mark[p].merchant \in Merchants /\ mark[p].week \in Weeks
    /\ \A s \in Sales : s \in mark[p].rest \cup mark[p].taken \/ s = mark[p].next => Fits(p, s)
    /\ \A s \in mark[p].taken : locks[s] = p /\ payoutId[s] = None

\* Only a mark that is over has its payout, and a sale points to one that exists.
Linked ==
  /\ \A p \in Marks : payouts[p] # None => mark[p].pc = "recorded"
  /\ \A s \in Sales : payoutId[s] # None => payouts[payoutId[s]] # None

\* Only a mark at work waits for a row.
Waiting == \A p \in Marks : mark[p].next \in Sales => mark[p].pc = "locking"

Inv == Types /\ Dated /\ Going /\ Linked /\ Waiting

USE PayoutAssumption

-------------------------------------------------------------------------------
LEMMA InitInv == Init => Inv
<1> SUFFICES ASSUME Init PROVE Inv
  OBVIOUS
<1> USE DEF Init
<1>1. Types
  <2>1. mark \in [Marks -> MarkRecords({None})]
    BY DEF MarkRecords, Idle, Outcomes
  <2> QED
    BY <2>1 DEF Types
<1>2. Dated
  BY DEF Dated
<1>3. Going
  BY DEF Going, Idle
<1>4. Linked /\ Waiting
  BY DEF Linked, Waiting, Idle
<1> QED
  BY <1>1, <1>2, <1>3, <1>4 DEF Inv

\* A sale that lands is in no mark's hands: those are paid already.
LEMMA PayInv ==
  ASSUME Inv, NEW s \in Sales, NEW w \in Weeks, NEW v \in {"paid", "needs_review"}, Pay(s, w, v)
  PROVE  Inv'
<1> USE DEF Pay, ledgerVars
<1>1. Types'
  BY DEF Inv, Types
<1>2. Dated'
  BY DEF Inv, Types, Dated
<1>3. Going'
  BY DEF Inv, Types, Going, Fits
<1>4. Linked' /\ Waiting'
  BY DEF Inv, Linked, Waiting
<1> QED
  BY <1>1, <1>2, <1>3, <1>4 DEF Inv

LEMMA ResolveInv ==
  ASSUME Inv, NEW s \in Sales, NEW v \in {"paid", "refunded"}, Resolve(s, v)
  PROVE  Inv'
<1> USE DEF Resolve, ledgerVars
<1>1. Types'
  BY DEF Inv, Types
<1>2. Dated'
  BY DEF Inv, Types, Dated
<1>3. Going'
  BY DEF Inv, Types, Going, Fits
<1>4. Linked' /\ Waiting'
  BY DEF Inv, Linked, Waiting
<1> QED
  BY <1>1, <1>2, <1>3, <1>4 DEF Inv

\* Screens, and deaths counted, touch nothing the invariant speaks of.
LEMMA FrameInv ==
  ASSUME Inv, UNCHANGED <<state, week, payoutId, payouts, locks, mark>>
  PROVE  Inv'
<1>1. Types' /\ Dated' /\ Linked' /\ Waiting'
  BY DEF Inv, Types, Dated, Linked, Waiting
<1>2. Going'
  BY DEF Inv, Going, Fits
<1> QED
  BY <1>1, <1>2 DEF Inv

LEMMA AskInv ==
  ASSUME Inv, NEW p \in Marks, NEW m \in Merchants, NEW w \in Weeks, NEW e, Ask(p, m, w, e)
  PROVE  Inv'
<1> DEFINE asked == [Idle EXCEPT !.pc = "locking", !.merchant = m, !.week = w,
                                 !.expected = e, !.rest = DueSales(m, w)]
<1>1. /\ mark[p] = Idle /\ mark' = [mark EXCEPT ![p] = asked]
      /\ UNCHANGED <<state, week, payoutId, payouts, locks>>
  BY DEF Ask, saleVars, ledgerVars
<1>2. \A s \in DueSales(m, w) : /\ s \in Sales /\ state[s] = "paid"
                                /\ MerchantOf[s] = m /\ week[s] = w
  BY DEF DueSales, PaidSales, InWeek
<1>3. /\ asked.pc = "locking" /\ asked.merchant = m /\ asked.week = w
      /\ asked.rest = DueSales(m, w) /\ asked.taken = {} /\ asked.next = None
  BY DEF Idle
<1>4. Types'
  <2>1. PICK E : mark \in [Marks -> MarkRecords(E)]
    BY DEF Inv, Types
  <2>2. asked \in MarkRecords(E \cup {e})
    BY <1>2 DEF MarkRecords, Idle, Outcomes
  <2>3. mark' \in [Marks -> MarkRecords(E \cup {e})]
    <3>1. \A q \in Marks : mark[q] \in MarkRecords(E \cup {e})
      BY <2>1 DEF MarkRecords
    <3> HIDE DEF asked
    <3> QED
      BY <1>1, <2>1, <2>2, <3>1
  <2> QED
    BY <1>1, <2>3 DEF Inv, Types
<1> HIDE DEF asked
<1>5. mark'[p] = asked /\ \A q \in Marks \ {p} : mark'[q] = mark[q]
  BY <1>1 DEF Inv, Types
<1>6. Dated'
  BY <1>1 DEF Inv, Dated
<1>7. Going'
  BY <1>1, <1>2, <1>3, <1>5 DEF Inv, Going, Fits
<1>8. Linked' /\ Waiting'
  BY <1>1, <1>3, <1>5 DEF Inv, Linked, Waiting, Idle
<1> QED
  BY <1>4, <1>6, <1>7, <1>8 DEF Inv

LEMMA ReachInv ==
  ASSUME Inv, NEW p \in Marks, NEW s \in Sales, Reach(p, s)
  PROVE  Inv'
<1>0. /\ mark' = [mark EXCEPT ![p].next = s, ![p].rest = @ \ {s}]
      /\ mark[p].pc = "locking" /\ s \in mark[p].rest
      /\ UNCHANGED <<state, week, payoutId, payouts, locks>>
  BY DEF Reach, saleVars, ledgerVars
<1>1. Types'
  <2>1. PICK E : mark \in [Marks -> MarkRecords(E)]
    BY DEF Inv, Types
  <2>2. mark' \in [Marks -> MarkRecords(E)]
    BY <1>0, <2>1 DEF MarkRecords
  <2> QED
    BY <1>0, <2>2 DEF Inv, Types
<1>2. /\ mark'[p].pc = mark[p].pc /\ mark'[p].merchant = mark[p].merchant
      /\ mark'[p].week = mark[p].week /\ mark'[p].taken = mark[p].taken
      /\ mark'[p].rest = mark[p].rest \ {s} /\ mark'[p].next = s
      /\ \A q \in Marks \ {p} : mark'[q] = mark[q]
  BY <1>0 DEF Inv, Types, MarkRecords
<1>3. Dated'
  BY <1>0 DEF Inv, Dated
<1>4. Going'
  <2>1. s \in mark[p].rest /\ UNCHANGED <<state, week, payoutId, locks>>
    BY <1>0
  <2> QED
    BY <1>2, <2>1 DEF Inv, Going, Fits
<1>5. Linked' /\ Waiting'
  <2>1. mark[p].pc = "locking" /\ UNCHANGED <<payoutId, payouts>>
    BY <1>0
  <2> QED
    BY <1>2, <2>1 DEF Inv, Linked, Waiting
<1> QED
  BY <1>1, <1>3, <1>4, <1>5 DEF Inv

\* A row that is free is in no one's hands, so taking it takes it from no one.
LEMMA TakeInv ==
  ASSUME Inv, NEW p \in Marks, Take(p)
  PROVE  Inv'
<1>1. PICK s \in Sales :
        /\ mark[p].next = s /\ locks[s] = None
        /\ \/ /\ StillMatches(s)
              /\ locks' = [locks EXCEPT ![s] = p]
              /\ mark' = [mark EXCEPT ![p].next = None, ![p].taken = @ \cup {s}]
           \/ /\ mark' = [mark EXCEPT ![p].next = None]
              /\ UNCHANGED locks
        /\ UNCHANGED <<state, week, payoutId, payouts>>
  BY DEF Take, saleVars, ledgerVars
<1>2. Types'
  <2>1. PICK E : mark \in [Marks -> MarkRecords(E)]
    BY DEF Inv, Types
  <2>2. mark' \in [Marks -> MarkRecords(E)]
    BY <1>1, <2>1 DEF MarkRecords
  <2>3. locks' \in [Sales -> Marks \cup {None}]
    BY <1>1 DEF Inv, Types
  <2> QED
    BY <1>1, <2>2, <2>3 DEF Inv, Types
<1>3. /\ mark'[p].pc = mark[p].pc /\ mark'[p].merchant = mark[p].merchant
      /\ mark'[p].week = mark[p].week /\ mark'[p].rest = mark[p].rest /\ mark'[p].next = None
      /\ \A q \in Marks \ {p} : mark'[q] = mark[q]
  BY <1>1 DEF Inv, Types, MarkRecords
<1>4. \/ /\ mark'[p].taken = mark[p].taken \cup {s} /\ Uncovered(s)
         /\ locks' = [locks EXCEPT ![s] = p]
      \/ mark'[p].taken = mark[p].taken /\ locks' = locks
  BY <1>1 DEF Inv, Types, MarkRecords, StillMatches
<1>5. Dated'
  BY <1>1 DEF Inv, Dated
<1>6. Going'
  <2> SUFFICES ASSUME NEW q \in Marks, mark'[q].pc = "locking"
               PROVE  /\ mark'[q].merchant \in Merchants /\ mark'[q].week \in Weeks
                      /\ \A t \in Sales :
                           t \in mark'[q].rest \cup mark'[q].taken \/ t = mark'[q].next
                             => Fits(q, t)'
                      /\ \A t \in mark'[q].taken : locks'[t] = q /\ payoutId'[t] = None
    BY DEF Going
  <2>1. CASE q # p
    <3>1. mark'[q] = mark[q] /\ UNCHANGED <<state, week, payoutId>>
      BY <1>1, <1>3, <2>1
    <3>2. \A t \in mark[q].taken : t \in Sales /\ locks[t] = q
      BY <3>1 DEF Inv, Types, MarkRecords, Going
    <3>3. \A t \in mark[q].taken : locks'[t] = q
      BY <1>1, <1>4, <3>2 DEF Inv, Types
    <3> QED
      BY <3>1, <3>3 DEF Inv, Going, Fits
  <2>2. CASE q = p
    <3>1. mark[p].taken \subseteq Sales
      BY DEF Inv, Types, MarkRecords
    <3> QED
      BY <1>1, <1>3, <1>4, <2>2, <3>1 DEF Inv, Types, Going, Fits, Uncovered
  <2> QED
    BY <2>1, <2>2
<1>7. Linked' /\ Waiting'
  BY <1>1, <1>3 DEF Inv, Linked, Waiting
<1> QED
  BY <1>2, <1>5, <1>6, <1>7 DEF Inv

\* What the end of a transaction does to the marks and the locks.
LEMMA EndFacts ==
  ASSUME Inv, NEW p \in Marks, NEW outcome \in Outcomes, End(p, outcome)
  PROVE  /\ locks' \in [Sales -> Marks \cup {None}]
         /\ \A s \in Sales : locks[s] # p => locks'[s] = locks[s]
         /\ \E E : mark' \in [Marks -> MarkRecords(E)]
         /\ mark'[p].pc = outcome /\ mark'[p].next = None
         /\ \A q \in Marks \ {p} : mark'[q] = mark[q]
<1>1. PICK E : mark \in [Marks -> MarkRecords(E)]
  BY DEF Inv, Types
<1>2. mark' \in [Marks -> MarkRecords(E)]
  BY <1>1 DEF End, MarkRecords
<1>3. mark'[p].pc = outcome /\ mark'[p].next = None /\ \A q \in Marks \ {p} : mark'[q] = mark[q]
  BY <1>1 DEF End, MarkRecords
<1>4. /\ locks' \in [Sales -> Marks \cup {None}]
      /\ \A s \in Sales : locks[s] # p => locks'[s] = locks[s]
  BY DEF End, Inv, Types
<1> QED
  BY <1>2, <1>3, <1>4

LEMMA EndInv ==
  ASSUME Inv, NEW p \in Marks, mark[p].pc = "locking",
         NEW outcome \in Outcomes \ {"locking"}, End(p, outcome),
         UNCHANGED <<state, week, payoutId, payouts>>
  PROVE  Inv'
<1>1. /\ locks' \in [Sales -> Marks \cup {None}]
      /\ \A s \in Sales : locks[s] # p => locks'[s] = locks[s]
      /\ \E E : mark' \in [Marks -> MarkRecords(E)]
      /\ mark'[p].pc = outcome /\ mark'[p].next = None
      /\ \A q \in Marks \ {p} : mark'[q] = mark[q]
  BY EndFacts
<1>2. Types' /\ Dated'
  BY <1>1 DEF Inv, Types, Dated
<1>3. Going'
  <2> SUFFICES ASSUME NEW q \in Marks \ {p}, mark[q].pc = "locking"
               PROVE  \A s \in mark[q].taken : locks'[s] = q
    BY <1>1 DEF Inv, Going, Fits
  <2>1. mark[q].taken \subseteq Sales
    BY DEF Inv, Types, MarkRecords
  <2> QED
    BY <1>1, <2>1 DEF Inv, Going
<1>4. Linked' /\ Waiting'
  BY <1>1 DEF Inv, Linked, Waiting
<1> QED
  BY <1>2, <1>3, <1>4 DEF Inv

\* No sale a mark has taken was linked meanwhile: it links them all.
LEMMA LinksAll ==
  ASSUME Inv, NEW p \in Marks, mark[p].pc = "locking"
  PROVE  Links(p) = mark[p].taken
BY DEF Links, Uncovered, Inv, Going

\* What a mark that records something has done.
LEMMA RecordFacts ==
  ASSUME Inv, NEW p \in Marks, Record(p), payouts' # payouts \/ payoutId' # payoutId
  PROVE  LET S == mark[p].taken IN
         /\ mark[p].pc = "locking" /\ S # {} /\ S \subseteq Sales
         /\ payouts' = [payouts EXCEPT ![p] = Payout(mark[p].merchant, mark[p].week, S)]
         /\ Payout(mark[p].merchant, mark[p].week, S) # None
         /\ payoutId' = [s \in Sales |-> IF s \in S THEN p ELSE payoutId[s]]
         /\ End(p, "recorded")
         /\ UNCHANGED <<state, week>>
<1>1. mark[p].pc = "locking" /\ mark[p].taken # {}
  BY DEF Record, Locked
<1>2. Links(p) = mark[p].taken
  BY <1>1, LinksAll
<1>3. mark[p].taken \subseteq Sales
  BY DEF Inv, Types, MarkRecords
<1>4. mark[p].merchant \in Merchants /\ mark[p].week \in Weeks
  BY <1>1 DEF Inv, Going
<1>5. Payout(mark[p].merchant, mark[p].week, mark[p].taken) # None
  BY <1>3, <1>4, NoneAssumption
<1> QED
  BY <1>1, <1>2, <1>3, <1>5 DEF Record, saleVars, ledgerVars

LEMMA RecordInv ==
  ASSUME Inv, NEW p \in Marks, Record(p)
  PROVE  Inv'
<1>1. CASE UNCHANGED <<payouts, payoutId>>
  <2>1. mark[p].pc = "locking"
    BY DEF Record, Locked
  <2>2. PICK outcome \in Outcomes \ {"locking"} : End(p, outcome)
    BY DEF Record, Outcomes
  <2>3. UNCHANGED <<state, week>>
    BY DEF Record, saleVars
  <2> QED
    BY <1>1, <2>1, <2>2, <2>3, EndInv
<1>2. CASE payouts' # payouts \/ payoutId' # payoutId
  <2> DEFINE S == mark[p].taken
             row == Payout(mark[p].merchant, mark[p].week, S)
  <2>1. /\ mark[p].pc = "locking" /\ S # {} /\ S \subseteq Sales
        /\ payouts' = [payouts EXCEPT ![p] = row] /\ row # None
        /\ payoutId' = [s \in Sales |-> IF s \in S THEN p ELSE payoutId[s]]
        /\ End(p, "recorded") /\ UNCHANGED <<state, week>>
    BY <1>2, RecordFacts
  <2> HIDE DEF row
  <2>2. /\ locks' \in [Sales -> Marks \cup {None}]
        /\ \A s \in Sales : locks[s] # p => locks'[s] = locks[s]
        /\ \E E : mark' \in [Marks -> MarkRecords(E)]
        /\ mark'[p].pc = "recorded" /\ mark'[p].next = None
        /\ \A q \in Marks \ {p} : mark'[q] = mark[q]
    BY <2>1, EndFacts DEF Outcomes
  <2>3. /\ DOMAIN payouts' = Marks /\ payouts'[p] # None
        /\ \A q \in Marks \ {p} : payouts'[q] = payouts[q]
    BY <2>1 DEF Inv, Types
  <2>4. Types'
    BY <2>1, <2>2, <2>3 DEF Inv, Types
  <2>5. Dated'
    BY <2>1 DEF Inv, Dated
  <2>6. Going'
    <3>1. UNCHANGED <<state, week>>
      BY <2>1
    <3>2. \A s \in S : locks[s] = p
      BY <2>1 DEF Inv, Going
    <3>3. ASSUME NEW q \in Marks \ {p}, mark[q].pc = "locking", NEW s \in mark[q].taken
          PROVE  locks'[s] = q /\ payoutId'[s] = None
      <4>1. s \in Sales
        BY <3>3 DEF Inv, Types, MarkRecords
      <4>2. locks[s] = q /\ payoutId[s] = None
        BY <3>3 DEF Inv, Going
      <4> QED
        BY <2>1, <2>2, <3>2, <4>1, <4>2
    <3> HIDE DEF S
    <3> QED
      BY <2>2, <3>1, <3>3 DEF Inv, Going, Fits
  <2>7. Linked'
    <3>1. \A q \in Marks : payouts'[q] # None => mark'[q].pc = "recorded"
      BY <2>2, <2>3 DEF Inv, Linked
    <3>2. \A s \in Sales : payoutId'[s] # None => payouts'[payoutId'[s]] # None
      BY <2>1, <2>3 DEF Inv, Types, Linked
    <3> QED
      BY <3>1, <3>2 DEF Linked
  <2>8. Waiting'
    BY <2>2 DEF Inv, Waiting
  <2> QED
    BY <2>4, <2>5, <2>6, <2>7, <2>8 DEF Inv
<1> QED
  BY <1>1, <1>2

LEMMA NextInv == Inv /\ [Next]_vars => Inv'
<1> SUFFICES ASSUME Inv, [Next]_vars PROVE Inv'
  OBVIOUS
<1>1. CASE UNCHANGED vars
  BY <1>1, FrameInv DEF vars, saleVars, ledgerVars
<1>2. ASSUME NEW s \in Sales, NEW w \in Weeks, NEW v \in {"paid", "needs_review"}, Pay(s, w, v)
      PROVE  Inv'
  BY <1>2, PayInv
<1>3. ASSUME NEW s \in Sales, NEW v \in {"paid", "refunded"}, Resolve(s, v) PROVE Inv'
  BY <1>3, ResolveInv
<1>4. ASSUME NEW a \in Screens, ReadScreen(a) PROVE Inv'
  BY <1>4, FrameInv DEF ReadScreen, saleVars, ledgerVars
<1>5. ASSUME NEW a \in Screens, NEW m \in Merchants, NEW w \in Weeks, OpenScreen(a, m, w)
      PROVE  Inv'
  BY <1>5, FrameInv DEF OpenScreen, saleVars, ledgerVars
<1>6. ASSUME NEW p \in Marks, MarkStep(p) \/ Die(p) PROVE Inv'
  <2>1. CASE \E s \in Sales : Reach(p, s)
    BY <2>1, ReachInv
  <2>2. CASE Take(p)
    BY <2>2, TakeInv
  <2>3. CASE Record(p)
    BY <2>3, RecordInv
  <2>4. CASE Refuse(p) \/ Deadlock(p) \/ Die(p)
    <3>1. UNCHANGED <<state, week, payoutId, payouts>>
      BY <2>4 DEF Refuse, Deadlock, Die, saleVars, ledgerVars
    <3>2. mark[p].pc = "locking"
      <4>1. CASE Refuse(p) \/ Die(p)
        BY <4>1 DEF Refuse, Die, Locked
      <4>2. CASE Deadlock(p)
        BY <4>2 DEF Deadlock, WaitsFor, Inv, Waiting
      <4> QED
        BY <2>4, <4>1, <4>2
    <3>3. \E outcome \in Outcomes \ {"locking"} : End(p, outcome)
      BY <2>4 DEF Refuse, Deadlock, Die, Outcomes
    <3> QED
      BY <3>1, <3>2, <3>3, EndInv
  <2> QED
    BY <1>6, <2>1, <2>2, <2>3, <2>4 DEF MarkStep
<1>7. ASSUME NEW p \in Marks, NEW m \in Merchants, NEW w \in Weeks, NEW e, Ask(p, m, w, e)
      PROVE  Inv'
  BY <1>7, AskInv
<1>8. ASSUME Next PROVE Inv'
  <2>1. CASE \E s \in Sales, w \in Weeks, v \in {"paid", "needs_review"} : Pay(s, w, v)
    BY <2>1, <1>2
  <2>2. CASE \E s \in Sales, v \in {"paid", "refunded"} : Resolve(s, v)
    BY <2>2, <1>3
  <2>3. CASE \E a \in Screens :
               ReadScreen(a) \/ \E m \in Merchants, w \in Weeks : OpenScreen(a, m, w)
    BY <2>3, <1>4, <1>5
  <2>4. CASE \E p \in Marks : MarkStep(p) \/ Die(p)
    BY <2>4, <1>6
  <2>5. CASE \E p \in Marks, m \in Merchants, w \in Weeks :
               \E e \in {None} \cup {screen[a].due : a \in Screens} : Ask(p, m, w, e)
    BY <2>5, <1>7
  <2> QED
    BY <1>8, <2>1, <2>2, <2>3, <2>4, <2>5 DEF Next
<1> QED
  BY <1>1, <1>8

-------------------------------------------------------------------------------
(* Every step is one of Ledger, or none of its business.                     *)

ledgerView == <<Landed, Transfers>>

\* A sale lands when it is paid or when its review ends in its favour.
LEMMA LandStep ==
  ASSUME Inv, NEW s \in Sales, NEW w \in Weeks, state[s] # "paid",
         \/ state'[s] = "paid" /\ week'[s] = w
         \/ state'[s] # "paid",
         \A t \in Sales \ {s} : state'[t] = state[t] /\ week'[t] = week[t],
         UNCHANGED <<payoutId, payouts>>
  PROVE  L!Land(s, w) \/ UNCHANGED ledgerView
<1>1. UNCHANGED Transfers
  BY DEF Transfers, CoveredBy
<1>2. Landed[s] = None
  BY DEF Landed
<1>3. CASE state'[s] = "paid" /\ week'[s] = w
  <2>1. Landed' = [Landed EXCEPT ![s] = w]
    BY <1>3 DEF Landed
  <2> QED
    BY <1>1, <1>2, <2>1 DEF L!Land
<1>4. CASE state'[s] # "paid"
  <2>1. UNCHANGED Landed
    BY <1>4 DEF Landed
  <2> QED
    BY <1>1, <2>1 DEF ledgerView
<1> QED
  BY <1>3, <1>4

LEMMA StutterStep ==
  ASSUME UNCHANGED <<state, week, payoutId, payouts>>
  PROVE  UNCHANGED ledgerView
<1>1. UNCHANGED Landed
  BY DEF Landed
<1>2. UNCHANGED Transfers
  BY DEF Transfers, CoveredBy
<1> QED
  BY <1>1, <1>2 DEF ledgerView

\* The payout of a mark that records covers what the mark took, and no other
\* payout covers more or less than before.
LEMMA RecordCovers ==
  ASSUME Inv, NEW p \in Marks, Record(p), payouts' # payouts \/ payoutId' # payoutId
  PROVE  /\ payouts[p] = None
         /\ payouts'[p] = Payout(mark[p].merchant, mark[p].week, mark[p].taken)
         /\ CoveredBy(p)' = mark[p].taken
         /\ \A q \in Marks \ {p} : payouts'[q] = payouts[q] /\ CoveredBy(q)' = CoveredBy(q)
         /\ \A s \in mark[p].taken : Fits(p, s) /\ payoutId[s] = None
<1> DEFINE S == mark[p].taken
           row == Payout(mark[p].merchant, mark[p].week, S)
<1>1. /\ mark[p].pc = "locking" /\ S # {} /\ S \subseteq Sales
      /\ payouts' = [payouts EXCEPT ![p] = row]
      /\ payoutId' = [s \in Sales |-> IF s \in S THEN p ELSE payoutId[s]]
  BY RecordFacts
<1>2. \A s \in S : Fits(p, s) /\ payoutId[s] = None
  BY <1>1 DEF Inv, Going
<1>3. payouts[p] = None /\ \A s \in Sales : payoutId[s] # p
  BY <1>1 DEF Inv, Linked
<1> HIDE DEF row
<1>4. /\ \A q \in Marks \ {p} : payouts'[q] = payouts[q] /\ CoveredBy(q)' = CoveredBy(q)
      /\ payouts'[p] = row /\ CoveredBy(p)' = S
  BY <1>1, <1>2, <1>3 DEF Inv, Types, CoveredBy
<1> QED
  BY <1>2, <1>3, <1>4 DEF row

\* A mark that records makes one transfer, of sales no other transfer covers.
LEMMA RecordStep ==
  ASSUME Inv, NEW p \in Marks, Record(p)
  PROVE  (\E S \in SUBSET Sales : L!Transfer(p, S)) \/ UNCHANGED ledgerView
<1>1. CASE UNCHANGED <<payouts, payoutId>>
  BY <1>1, StutterStep DEF Record, saleVars
<1>2. CASE payouts' # payouts \/ payoutId' # payoutId
  <2> DEFINE S == mark[p].taken
             m == mark[p].merchant
             w == mark[p].week
             row == Payout(m, w, S)
  <2>1. /\ mark[p].pc = "locking" /\ S # {} /\ S \subseteq Sales
        /\ payouts' = [payouts EXCEPT ![p] = row] /\ row # None
        /\ payoutId' = [s \in Sales |-> IF s \in S THEN p ELSE payoutId[s]]
        /\ UNCHANGED <<state, week>>
    BY <1>2, RecordFacts
  <2>2. row.payout = L!Share(S)
    BY DEF Payout, Split, L!Share
  <2>3. /\ payouts[p] = None /\ payouts'[p] = row /\ CoveredBy(p)' = S
        /\ \A q \in Marks \ {p} : payouts'[q] = payouts[q] /\ CoveredBy(q)' = CoveredBy(q)
        /\ \A s \in S : Fits(p, s) /\ payoutId[s] = None
    BY <1>2, RecordCovers
  <2>4. w \in Weeks /\ m \in {MerchantOf[s] : s \in S}
    BY <2>1, <2>3 DEF Inv, Going, Fits
  <2> HIDE DEF row
  <2>5. Transfers[p] = None
    BY <2>3 DEF Transfers
  <2>6. S \subseteq L!Owed(m, w)
    <3> SUFFICES ASSUME NEW s \in S PROVE s \in L!Owed(m, w)
      OBVIOUS
    <3>1. s \in Sales /\ payoutId[s] = None /\ Fits(p, s)
      BY <2>1, <2>3
    <3>2. \A q \in Marks : s \notin CoveredBy(q)
      BY <3>1 DEF CoveredBy
    <3>3. s \notin L!Covered
      BY <3>2 DEF L!Covered, Transfers
    <3>4. Landed[s] = w /\ MerchantOf[s] = m
      BY <3>1 DEF Landed, Fits
    <3> QED
      BY <3>1, <3>3, <3>4 DEF L!Owed
  <2>7. Transfers' = [Transfers EXCEPT ![p] = [sales |-> S, amount |-> L!Share(S)]]
    BY <2>1, <2>2, <2>3 DEF Transfers
  <2>8. UNCHANGED Landed
    BY <2>1 DEF Landed
  <2>9. L!Transfer(p, S)
    BY <2>1, <2>4, <2>5, <2>6, <2>7, <2>8 DEF L!Transfer
  <2> QED
    BY <2>1, <2>9
<1> QED
  BY <1>1, <1>2

LEMMA Steps == Inv /\ [Next]_vars => [L!Next]_ledgerView
<1> SUFFICES ASSUME Inv, [Next]_vars PROVE L!Next \/ UNCHANGED ledgerView
  OBVIOUS
<1>1. CASE UNCHANGED vars
  BY <1>1, StutterStep DEF vars, saleVars, ledgerVars
<1>2. ASSUME NEW s \in Sales, NEW w \in Weeks, NEW v \in {"paid", "needs_review"}, Pay(s, w, v)
      PROVE  L!Next \/ UNCHANGED ledgerView
  <2>1. /\ state[s] = "unpaid" /\ state'[s] = v /\ week'[s] = w
        /\ \A t \in Sales \ {s} : state'[t] = state[t] /\ week'[t] = week[t]
        /\ UNCHANGED <<payoutId, payouts>>
    BY <1>2 DEF Pay, Inv, Types, ledgerVars
  <2>2. L!Land(s, w) \/ UNCHANGED ledgerView
    BY <2>1, LandStep
  <2> QED
    BY <2>2 DEF L!Next
<1>3. ASSUME NEW s \in Sales, NEW v \in {"paid", "refunded"}, Resolve(s, v)
      PROVE  L!Next \/ UNCHANGED ledgerView
  <2>1. /\ state[s] = "needs_review" /\ state'[s] = v /\ week'[s] = week[s]
        /\ \A t \in Sales \ {s} : state'[t] = state[t] /\ week'[t] = week[t]
        /\ UNCHANGED <<payoutId, payouts>>
    BY <1>3 DEF Resolve, Inv, Types, ledgerVars
  <2>2. week[s] \in Weeks
    BY <2>1 DEF Inv, Dated
  <2>3. L!Land(s, week[s]) \/ UNCHANGED ledgerView
    BY <2>1, <2>2, LandStep
  <2> QED
    BY <2>2, <2>3 DEF L!Next
<1>4. ASSUME NEW p \in Marks, Record(p) PROVE L!Next \/ UNCHANGED ledgerView
  BY <1>4, RecordStep DEF L!Next
<1>5. ASSUME NEW p \in Marks, \/ \E s \in Sales : Reach(p, s)
                             \/ Take(p) \/ Refuse(p) \/ Deadlock(p) \/ Die(p)
      PROVE  UNCHANGED ledgerView
  BY <1>5, StutterStep DEF Reach, Take, Refuse, Deadlock, Die, saleVars, ledgerVars
<1>6. ASSUME NEW a \in Screens,
             ReadScreen(a) \/ \E m \in Merchants, w \in Weeks : OpenScreen(a, m, w)
      PROVE  UNCHANGED ledgerView
  BY <1>6, StutterStep DEF ReadScreen, OpenScreen, saleVars, ledgerVars
<1>7. ASSUME NEW p \in Marks, NEW m \in Merchants, NEW w \in Weeks, NEW e, Ask(p, m, w, e)
      PROVE  UNCHANGED ledgerView
  BY <1>7, StutterStep DEF Ask, saleVars, ledgerVars
<1>8. ASSUME Next PROVE L!Next \/ UNCHANGED ledgerView
  <2>1. CASE \E s \in Sales, w \in Weeks, v \in {"paid", "needs_review"} : Pay(s, w, v)
    BY <2>1, <1>2
  <2>2. CASE \E s \in Sales, v \in {"paid", "refunded"} : Resolve(s, v)
    BY <2>2, <1>3
  <2>3. CASE \E a \in Screens :
               ReadScreen(a) \/ \E m \in Merchants, w \in Weeks : OpenScreen(a, m, w)
    BY <2>3, <1>6
  <2>4. CASE \E p \in Marks : MarkStep(p) \/ Die(p)
    BY <2>4, <1>4, <1>5 DEF MarkStep
  <2>5. CASE \E p \in Marks, m \in Merchants, w \in Weeks :
               \E e \in {None} \cup {screen[a].due : a \in Screens} : Ask(p, m, w, e)
    BY <2>5, <1>7
  <2> QED
    BY <1>8, <2>1, <2>2, <2>3, <2>4, <2>5 DEF Next
<1> QED
  BY <1>1, <1>8

\* markPaidOut keeps the promise of Ledger whatever marks, sales, resolutions and
\* deaths interleave: each sale is covered by one payout at most, of its merchant
\* and week and for the share of all it covers, and what is recorded stays.
THEOREM LedgerKept == Spec => KeepsLedger
<1>1. Init => L!Init
  BY DEF Init, L!Init, Landed, Transfers
<1>2. Inv /\ [Next]_vars => [L!Next]_ledgerView
  BY Steps
<1> QED
  BY <1>1, <1>2, InitInv, NextInv, PTL DEF Spec, KeepsLedger, L!Spec, ledgerView

-------------------------------------------------------------------------------
(* Each payout is the snapshot of its sales.  Whatever the numbers of orders *)
(* and of requests, those with money in them are finitely many, so that the  *)
(* sums are numbers.                                                         *)

Snapshots ==
  \A p \in Marks : \A r \in {payouts[p]} \ {None} :
    /\ r.merchant \in Merchants /\ r.week \in Weeks
    /\ r = Payout(r.merchant, r.week, CoveredBy(p))
    /\ CoveredBy(p) # {}
    /\ CoveredBy(p) \subseteq PaidSales(r.merchant, r.week)

Sold == {s \in Sales : state[s] # "unpaid"}
Made == {p \in Marks : payouts[p] # None}
FinitelyMany == IsFiniteSet(Sold) /\ IsFiniteSet(Made)

MoneyInv == Inv /\ Snapshots /\ FinitelyMany

\* What is paid stays paid in its week.
PaidStays == \A s \in Sales : state[s] = "paid" => state'[s] = "paid" /\ week'[s] = week[s]

\* A step of the table: one sale moves, or a mark records.
Sells == /\ UNCHANGED <<payoutId, payouts>>
         /\ \/ UNCHANGED <<state, week>>
            \/ \E s \in Sales : \A t \in Sales \ {s} : state'[t] = state[t]
Records(p) == Record(p) /\ (payouts' # payouts \/ payoutId' # payoutId)

LEMMA TableStep ==
  ASSUME Inv, [Next]_vars
  PROVE  PaidStays /\ (Sells \/ \E p \in Marks : Records(p))
<1>1. ASSUME UNCHANGED <<state, week, payoutId, payouts>> PROVE PaidStays /\ Sells
  BY <1>1 DEF PaidStays, Sells
<1>2. ASSUME NEW s \in Sales, NEW w \in Weeks, NEW v \in {"paid", "needs_review"}, Pay(s, w, v)
      PROVE  PaidStays /\ Sells
  BY <1>2 DEF Pay, Inv, Types, PaidStays, Sells, ledgerVars
<1>3. ASSUME NEW s \in Sales, NEW v \in {"paid", "refunded"}, Resolve(s, v)
      PROVE  PaidStays /\ Sells
  BY <1>3 DEF Resolve, Inv, Types, PaidStays, Sells, ledgerVars
<1>4. ASSUME NEW p \in Marks, MarkStep(p) \/ Die(p)
      PROVE  PaidStays /\ (Sells \/ \E q \in Marks : Records(q))
  <2>1. CASE Record(p)
    <3>1. UNCHANGED <<state, week>>
      BY <2>1 DEF Record, saleVars
    <3> QED
      BY <1>1, <2>1, <3>1 DEF Records, PaidStays
  <2>2. CASE \/ \E s \in Sales : Reach(p, s)
             \/ Take(p) \/ Refuse(p) \/ Deadlock(p) \/ Die(p)
    BY <1>1, <2>2 DEF Reach, Take, Refuse, Deadlock, Die, saleVars, ledgerVars
  <2> QED
    BY <1>4, <2>1, <2>2 DEF MarkStep
<1>5. ASSUME NEW a \in Screens,
             ReadScreen(a) \/ \E m \in Merchants, w \in Weeks : OpenScreen(a, m, w)
      PROVE  PaidStays /\ Sells
  BY <1>1, <1>5 DEF ReadScreen, OpenScreen, saleVars, ledgerVars
<1>6. ASSUME NEW p \in Marks, NEW m \in Merchants, NEW w \in Weeks, NEW e, Ask(p, m, w, e)
      PROVE  PaidStays /\ Sells
  BY <1>1, <1>6 DEF Ask, saleVars, ledgerVars
<1>7. CASE UNCHANGED vars
  BY <1>1, <1>7 DEF vars, saleVars, ledgerVars
<1>8. CASE Next
  <2>1. CASE \E s \in Sales, w \in Weeks, v \in {"paid", "needs_review"} : Pay(s, w, v)
    BY <2>1, <1>2
  <2>2. CASE \E s \in Sales, v \in {"paid", "refunded"} : Resolve(s, v)
    BY <2>2, <1>3
  <2>3. CASE \E a \in Screens :
               ReadScreen(a) \/ \E m \in Merchants, w \in Weeks : OpenScreen(a, m, w)
    BY <2>3, <1>5
  <2>4. CASE \E p \in Marks : MarkStep(p) \/ Die(p)
    BY <2>4, <1>4
  <2>5. CASE \E p \in Marks, m \in Merchants, w \in Weeks :
               \E e \in {None} \cup {screen[a].due : a \in Screens} : Ask(p, m, w, e)
    BY <2>5, <1>6
  <2> QED
    BY <1>8, <2>1, <2>2, <2>3, <2>4, <2>5 DEF Next
<1> QED
  BY <1>7, <1>8

LEMMA SnapshotsStep ==
  ASSUME Inv, Snapshots, [Next]_vars
  PROVE  Snapshots'
<1>1. PaidStays /\ (Sells \/ \E p \in Marks : Records(p))
  BY TableStep
<1>2. \A m, w : PaidSales(m, w) \subseteq PaidSales(m, w)'
  BY <1>1 DEF PaidSales, InWeek, PaidStays
<1>3. CASE Sells
  <2>1. UNCHANGED payouts /\ \A p \in Marks : CoveredBy(p)' = CoveredBy(p)
    BY <1>3 DEF Sells, CoveredBy
  <2> QED
    BY <1>2, <2>1 DEF Snapshots
<1>4. ASSUME NEW p \in Marks, Records(p) PROVE Snapshots'
  <2>0. /\ mark[p].pc = "locking" /\ mark[p].taken # {} /\ mark[p].taken \subseteq Sales
        /\ UNCHANGED <<state, week>>
    BY <1>4, RecordFacts DEF Records
  <2>1. PICK m \in Merchants, w \in Weeks, S \in SUBSET Sales :
          /\ m = mark[p].merchant /\ w = mark[p].week /\ S = mark[p].taken
          /\ S # {} /\ UNCHANGED <<state, week>>
    BY <2>0 DEF Inv, Going
  <2> DEFINE row == Payout(m, w, S)
  <2>2. /\ payouts'[p] = row /\ CoveredBy(p)' = S
        /\ \A q \in Marks \ {p} : payouts'[q] = payouts[q] /\ CoveredBy(q)' = CoveredBy(q)
        /\ \A s \in S : Fits(p, s)
    BY <1>4, <2>1, RecordCovers DEF Records
  <2>3. row.merchant = m /\ row.week = w
    BY DEF Payout
  <2>4. S \subseteq PaidSales(m, w)'
    BY <2>1, <2>2 DEF Fits, PaidSales, InWeek
  <2>5. row = Payout(row.merchant, row.week, S)
    BY <2>3
  <2> HIDE DEF row
  <2>6. ASSUME NEW q \in Marks, NEW r \in {payouts'[q]} \ {None}
        PROVE  /\ r.merchant \in Merchants /\ r.week \in Weeks
               /\ r = Payout(r.merchant, r.week, CoveredBy(q)')
               /\ CoveredBy(q)' # {}
               /\ CoveredBy(q)' \subseteq PaidSales(r.merchant, r.week)'
    <3>1. CASE q = p
      BY <2>1, <2>2, <2>3, <2>4, <2>5, <3>1
    <3>2. CASE q # p
      <4>1. /\ r.merchant \in Merchants /\ r.week \in Weeks
            /\ r = Payout(r.merchant, r.week, CoveredBy(q))
            /\ CoveredBy(q) # {}
            /\ CoveredBy(q) \subseteq PaidSales(r.merchant, r.week)
        BY <2>2, <2>6, <3>2 DEF Snapshots
      <4>2. CoveredBy(q)' = CoveredBy(q)
        BY <2>2, <3>2
      <4> QED
        BY <1>2, <4>1, <4>2
    <3> QED
      BY <3>1, <3>2
  <2> QED
    BY <2>6 DEF Snapshots
<1> QED
  BY <1>1, <1>3, <1>4

LEMMA FinitelyManyStep ==
  ASSUME Inv, FinitelyMany, [Next]_vars
  PROVE  FinitelyMany'
<1>1. CASE Sells
  <2>1. Made' = Made
    BY <1>1 DEF Sells, Made
  <2>2. CASE UNCHANGED state
    BY <2>1, <2>2 DEF FinitelyMany, Sold
  <2>3. ASSUME NEW s \in Sales, \A t \in Sales \ {s} : state'[t] = state[t]
        PROVE  IsFiniteSet(Sold')
    <3>1. IsFiniteSet(Sold \cup {s})
      BY FS_AddElement DEF FinitelyMany
    <3>2. Sold' \in SUBSET (Sold \cup {s})
      BY <2>3 DEF Sold
    <3> QED
      BY <3>1, <3>2, FS_Subset
  <2> QED
    BY <1>1, <2>1, <2>2, <2>3 DEF Sells, FinitelyMany
<1>2. ASSUME NEW p \in Marks, Records(p) PROVE FinitelyMany'
  <2>1. UNCHANGED state /\ \A q \in Marks \ {p} : payouts'[q] = payouts[q]
    BY <1>2, RecordFacts, RecordCovers DEF Records
  <2>2. Sold' = Sold
    BY <2>1 DEF Sold
  <2>3. IsFiniteSet(Made \cup {p})
    BY FS_AddElement DEF FinitelyMany
  <2>4. Made' \in SUBSET (Made \cup {p})
    BY <2>1 DEF Made
  <2>5. IsFiniteSet(Made')
    BY <2>3, <2>4, FS_Subset
  <2> QED
    BY <2>2, <2>5 DEF FinitelyMany
<1> QED
  BY <1>1, <1>2, TableStep

LEMMA MoneyInit == Init => MoneyInv
<1> SUFFICES ASSUME Init PROVE MoneyInv
  OBVIOUS
<1>1. Sold = {} /\ Made = {} /\ Snapshots
  BY DEF Init, Sold, Made, Snapshots
<1> QED
  BY <1>1, InitInv, FS_EmptySet DEF MoneyInv, FinitelyMany

LEMMA MoneyNext == MoneyInv /\ [Next]_vars => MoneyInv'
BY NextInv, SnapshotsStep, FinitelyManyStep DEF MoneyInv

-------------------------------------------------------------------------------
(* The sums of the ledger.                                                   *)

LEMMA GrossIs == \A S : Gross(S) = Total(Amount, S)
BY DEF Gross, Total

\* A part of what was sold has a total, made up of the totals of its parts.
LEMMA GrossAdds ==
  ASSUME NEW S \in SUBSET Sales, IsFiniteSet(S), NEW A \in SUBSET S
  PROVE  /\ Gross(S) \in Nat /\ Gross(S) % 10 = 0
         /\ Gross(A) \in Nat /\ Gross(A) % 10 = 0
         /\ Gross(S \ A) \in Nat /\ Gross(S \ A) % 10 = 0
         /\ Gross(S) = Gross(A) + Gross(S \ A)
<1>1. \A s \in S : Amount[s] \in Nat /\ Amount[s] % 10 = 0 /\ Amount[s] \in Int
  OBVIOUS
<1>2. IsFiniteSet(A) /\ IsFiniteSet(S \ A)
  BY FS_Subset
<1>3. Total(Amount, S) \in Nat /\ Total(Amount, A) \in Nat /\ Total(Amount, S \ A) \in Nat
  BY <1>1, <1>2, TotalOfNaturals
<1>4. /\ Total(Amount, S) % 10 = 0 /\ Total(Amount, A) % 10 = 0
      /\ Total(Amount, S \ A) % 10 = 0
  BY <1>1, <1>2, TotalOfTens
<1>5. Total(Amount, S) = Total(Amount, A) + Total(Amount, S \ A)
  BY <1>1, TotalOfParts
<1> QED
  BY <1>3, <1>4, <1>5, GrossIs

ShareOf(S) == Split(Gross(S)).payout

\* No nominal is odd, so nothing is lost in the floors: shares add up as totals do.
LEMMA ShareAdds ==
  ASSUME NEW S \in SUBSET Sales, IsFiniteSet(S), NEW A \in SUBSET S
  PROVE  /\ ShareOf(S) \in Nat /\ ShareOf(A) \in Nat /\ ShareOf(S \ A) \in Nat
         /\ ShareOf(S) = ShareOf(A) + ShareOf(S \ A)
<1>1. \A n \in Nat : n % 10 = 0 => (n * 90) \div 100 = 9 * (n \div 10)
  OBVIOUS
<1>2. \A n \in Nat : Split(n).payout = (n * 90) \div 100
  BY DEF Split
<1>3. ASSUME NEW a \in Nat, NEW b \in Nat, a % 10 = 0, b % 10 = 0
      PROVE  (a + b) \div 10 = a \div 10 + b \div 10
  BY <1>3
<1>4. /\ Gross(S) \in Nat /\ Gross(S) % 10 = 0
      /\ Gross(A) \in Nat /\ Gross(A) % 10 = 0
      /\ Gross(S \ A) \in Nat /\ Gross(S \ A) % 10 = 0
      /\ Gross(S) = Gross(A) + Gross(S \ A)
  BY GrossAdds
<1>5. /\ ShareOf(S) = 9 * (Gross(S) \div 10)
      /\ ShareOf(A) = 9 * (Gross(A) \div 10)
      /\ ShareOf(S \ A) = 9 * (Gross(S \ A) \div 10)
  BY <1>1, <1>2, <1>4 DEF ShareOf
<1>6. Gross(S) \div 10 = Gross(A) \div 10 + Gross(S \ A) \div 10
  BY <1>3, <1>4
<1>7. \A n \in Nat : n \div 10 \in Nat
  OBVIOUS
<1> HIDE DEF ShareOf
<1> QED
  BY <1>4, <1>5, <1>6, <1>7

\* A recorded payout is the snapshot of the paid sales that point to it, of its
\* merchant and week, and the two halves of its split make up their total; for
\* any numbers of sales, marks and screens.
THEOREM PayoutsCoverTheirSalesHolds == Spec => []PayoutsCoverTheirSales
<1>1. MoneyInv => PayoutsCoverTheirSales
  <2> SUFFICES ASSUME MoneyInv PROVE PayoutsCoverTheirSales
    OBVIOUS
  <2>1. \A s \in Sales : payoutId[s] # None => payouts[payoutId[s]] # None
    BY DEF MoneyInv, Inv, Linked
  <2>2. ASSUME NEW p \in Marks, payouts[p] # None
        PROVE  /\ CoveredBy(p) # {}
               /\ CoveredBy(p) \subseteq PaidSales(payouts[p].merchant, payouts[p].week)
               /\ payouts[p].ordersCount = Cardinality(CoveredBy(p))
               /\ payouts[p].gross = Gross(CoveredBy(p))
               /\ payouts[p].payout + payouts[p].commission = payouts[p].gross
    <3>1. /\ payouts[p] = Payout(payouts[p].merchant, payouts[p].week, CoveredBy(p))
          /\ CoveredBy(p) # {}
          /\ CoveredBy(p) \subseteq PaidSales(payouts[p].merchant, payouts[p].week)
      BY <2>2 DEF MoneyInv, Snapshots
    <3>2. /\ payouts[p].ordersCount = Cardinality(CoveredBy(p))
          /\ payouts[p].gross = Gross(CoveredBy(p))
          /\ payouts[p].payout = Split(Gross(CoveredBy(p))).payout
          /\ payouts[p].commission = Split(Gross(CoveredBy(p))).commission
      BY <3>1 DEF Payout
    <3>3. Sold \in SUBSET Sales /\ IsFiniteSet(Sold) /\ CoveredBy(p) \in SUBSET Sold
      BY <3>1 DEF MoneyInv, FinitelyMany, Sold, PaidSales
    <3>4. Gross(CoveredBy(p)) \in Nat
      BY <3>3, GrossAdds
    <3>5. \A n \in Nat : Split(n).payout + Split(n).commission = n
      BY DEF Split
    <3> QED
      BY <3>1, <3>2, <3>4, <3>5
  <2> QED
    BY <2>1, <2>2 DEF PayoutsCoverTheirSales
<1> QED
  BY <1>1, MoneyInit, MoneyNext, PTL DEF Spec

-------------------------------------------------------------------------------
(* What was paid out for a week and what is due for it.                      *)

Pays == [p \in Marks |-> payouts[p].payout]

LEMMA PaidOutIs ==
  ASSUME NEW m, NEW w, IsFiniteSet(Recorded(m, w))
  PROVE  PaidOut(m, w) = Total(Pays, Recorded(m, w))
<1> DEFINE R == Recorded(m, w)
           Sums(g) == g = [s \in SUBSET R |->
                             IF s = {} THEN 0
                             ELSE payouts[Pick(s)].payout + g[s \ {Pick(s)}]]
           h == CHOOSE g : Sums(g)
<1>1. PaidOut(m, w) = h[R]
  BY DEF PaidOut, MapThenSumSet, MapThenFoldSet, Pick
<1>2. \A s \in SUBSET R : s # {} => Pays[Pick(s)] = payouts[Pick(s)].payout
  BY PickIn DEF Pays, Recorded
<1>3. ASSUME NEW g PROVE Sums(g) <=> Adds(g, Pays, R)
  <2>1. [s \in SUBSET R |-> IF s = {} THEN 0
                            ELSE payouts[Pick(s)].payout + g[s \ {Pick(s)}]]
          = [s \in SUBSET R |-> IF s = {} THEN 0 ELSE Pays[Pick(s)] + g[s \ {Pick(s)}]]
    BY <1>2
  <2> QED
    BY <2>1 DEF Adds
<1>4. \E g : Sums(g)
  BY <1>3, AddsExists
<1> HIDE DEF Sums
<1>5. Sums(h)
  BY <1>4
<1> HIDE DEF h
<1>6. Adds(h, Pays, R)
  BY <1>3, <1>5
<1>7. Total(Pays, R) = h[R]
  BY <1>6, TotalAdds
<1> QED
  BY <1>1, <1>7

\* Each payout is the share of the sales it covers, so any number of them are the
\* share of all theirs.
LEMMA PaysAddUp ==
  ASSUME MoneyInv, NEW T \in SUBSET Made
  PROVE  Total(Pays, T) = ShareOf({s \in Sales : payoutId[s] \in T})
<1> DEFINE Cover(U) == {s \in Sales : payoutId[s] \in U}
           C == {U \in SUBSET Made : Total(Pays, U) # ShareOf(Cover(U))}
<1> SUFFICES ASSUME C # {} PROVE FALSE
  OBVIOUS
<1>0. IsFiniteSet(Made) /\ IsFiniteSet(Sold)
  BY DEF MoneyInv, FinitelyMany
<1>1. PICK U \in C : \A V \in C : V \subseteq U => V = U
  <2>1. C \subseteq SUBSET Made
    OBVIOUS
  <2> HIDE DEF C
  <2> QED
    BY <1>0, <2>1, MinimalSet
<1>2. \A p \in Made : /\ Cover({p}) \in SUBSET Sold /\ Cover({p}) \in SUBSET Sales
                      /\ Pays[p] = ShareOf(Cover({p}))
  <2> SUFFICES ASSUME NEW p \in Made
               PROVE  /\ Cover({p}) \in SUBSET Sold /\ Cover({p}) \in SUBSET Sales
                      /\ Pays[p] = ShareOf(Cover({p}))
    OBVIOUS
  <2>1. p \in Marks /\ payouts[p] # None
    BY DEF Made
  <2>2. Cover({p}) = CoveredBy(p)
    BY DEF CoveredBy
  <2>3. /\ payouts[p] = Payout(payouts[p].merchant, payouts[p].week, CoveredBy(p))
        /\ CoveredBy(p) \subseteq PaidSales(payouts[p].merchant, payouts[p].week)
    BY <2>1 DEF MoneyInv, Snapshots
  <2>4. Pays[p] = ShareOf(CoveredBy(p))
    BY <2>1, <2>3 DEF Payout, Pays, ShareOf
  <2> QED
    BY <2>2, <2>3, <2>4 DEF PaidSales, Sold
<1>3. Cover(U) \in SUBSET Sales /\ Cover(U) \in SUBSET Sold
  BY <1>1, <1>2
<1>4. IsFiniteSet(Cover(U)) /\ IsFiniteSet(U)
  BY <1>0, <1>1, <1>3, FS_Subset
<1>5. CASE U = {}
  <2>1. Cover(U) = {}
    BY <1>5
  <2>2. Gross({}) = 0
    BY GrossIs, TotalOfNone
  <2>3. ShareOf({}) = 0
    BY <2>2 DEF ShareOf, Split
  <2> QED
    BY <1>1, <1>5, <2>1, <2>3, TotalOfNone
<1>6. CASE U # {}
  <2>1. PICK p \in U : TRUE
    BY <1>6
  <2> DEFINE V == U \ {p}
  <2>2. Total(Pays, V) = ShareOf(Cover(V))
    BY <1>1, <2>1
  <2>3. Cover({p}) \in SUBSET Cover(U) /\ Cover(V) = Cover(U) \ Cover({p})
    BY <2>1
  <2>4. /\ ShareOf(Cover({p})) \in Nat
        /\ ShareOf(Cover(U)) = ShareOf(Cover({p})) + ShareOf(Cover(V))
    <3> HIDE DEF Cover
    <3> QED
      BY <1>3, <1>4, <2>3, ShareAdds
  <2>5. \A q \in U : Pays[q] \in Int
    <3> SUFFICES ASSUME NEW q \in U PROVE Pays[q] \in Int
      OBVIOUS
    <3>1. q \in Made /\ Cover({q}) \in SUBSET Cover(U)
      BY <1>1
    <3> HIDE DEF Cover, C
    <3>2. ShareOf(Cover({q})) \in Nat
      BY <1>3, <1>4, <3>1, ShareAdds
    <3> QED
      BY <1>2, <3>1, <3>2
  <2>6. Total(Pays, U) = Pays[p] + Total(Pays, V)
    BY <1>4, <2>1, <2>5, TotalWithout
  <2>7. Pays[p] = ShareOf(Cover({p})) /\ Total(Pays, U) # ShareOf(Cover(U))
    BY <1>1, <1>2, <2>1
  <2> HIDE DEF Cover, V
  <2> QED
    BY <2>2, <2>4, <2>6, <2>7
<1> QED
  BY <1>5, <1>6

\* The sales that a week's payouts cover.
PaidFor(m, w) == {s \in Sales : payoutId[s] \in Recorded(m, w)}

\* They are the week's paid sales that are not due.
LEMMA WeekSplits ==
  ASSUME MoneyInv, NEW m, NEW w
  PROVE  /\ Recorded(m, w) \in SUBSET Made /\ IsFiniteSet(Recorded(m, w))
         /\ PaidSales(m, w) \in SUBSET Sales /\ IsFiniteSet(PaidSales(m, w))
         /\ PaidFor(m, w) \in SUBSET PaidSales(m, w)
         /\ DueSales(m, w) = PaidSales(m, w) \ PaidFor(m, w)
<1>1. Recorded(m, w) \in SUBSET Made /\ PaidSales(m, w) \in SUBSET Sales
  BY DEF Recorded, Made, PaidSales
<1>2. PaidSales(m, w) \in SUBSET Sold
  BY DEF PaidSales, Sold
<1>3. IsFiniteSet(Recorded(m, w)) /\ IsFiniteSet(PaidSales(m, w))
  BY <1>1, <1>2, FS_Subset DEF MoneyInv, FinitelyMany
<1>4. ASSUME NEW s \in Sales, payoutId[s] # None
      PROVE  /\ payoutId[s] \in Marks /\ payouts[payoutId[s]] # None
             /\ s \in PaidSales(payouts[payoutId[s]].merchant, payouts[payoutId[s]].week)
  <2>1. payoutId[s] \in Marks /\ payouts[payoutId[s]] # None
    BY <1>4 DEF MoneyInv, Inv, Types, Linked
  <2>2. s \in CoveredBy(payoutId[s])
    BY DEF CoveredBy
  <2> QED
    BY <2>1, <2>2 DEF MoneyInv, Snapshots
<1>5. None \notin Recorded(m, w)
  BY DEF Recorded
<1>6. ASSUME NEW s \in Sales, payoutId[s] \in Recorded(m, w) PROVE s \in PaidSales(m, w)
  BY <1>4, <1>5, <1>6 DEF Recorded
<1>7. ASSUME NEW s \in PaidSales(m, w), payoutId[s] # None PROVE payoutId[s] \in Recorded(m, w)
  <2>1. s \in Sales /\ MerchantOf[s] = m /\ week[s] = w
    BY DEF PaidSales, InWeek
  <2>2. /\ payoutId[s] \in Marks /\ payouts[payoutId[s]] # None
        /\ MerchantOf[s] = payouts[payoutId[s]].merchant
        /\ week[s] = payouts[payoutId[s]].week
    BY <1>4, <1>7, <2>1 DEF PaidSales, InWeek
  <2> QED
    BY <2>1, <2>2 DEF Recorded
<1>8. DueSales(m, w) = PaidSales(m, w) \ PaidFor(m, w)
  BY <1>1, <1>5, <1>7 DEF DueSales, Uncovered, PaidFor
<1>9. PaidFor(m, w) \in SUBSET PaidSales(m, w)
  BY <1>6 DEF PaidFor
<1> QED
  BY <1>1, <1>3, <1>8, <1>9

LEMMA Balances ==
  ASSUME MoneyInv, NEW m, NEW w
  PROVE  /\ PaidOut(m, w) \in Nat /\ Due(m, w) \in Nat
         /\ PaidOut(m, w) = ShareOf(PaidFor(m, w))
         /\ ShareOf(PaidSales(m, w)) \in Nat
         /\ PaidOut(m, w) + Due(m, w) = ShareOf(PaidSales(m, w))
<1>1. /\ Recorded(m, w) \in SUBSET Made /\ IsFiniteSet(Recorded(m, w))
      /\ PaidSales(m, w) \in SUBSET Sales /\ IsFiniteSet(PaidSales(m, w))
      /\ PaidFor(m, w) \in SUBSET PaidSales(m, w)
      /\ DueSales(m, w) = PaidSales(m, w) \ PaidFor(m, w)
  BY WeekSplits
<1>2. PaidOut(m, w) = ShareOf(PaidFor(m, w))
  BY <1>1, PaidOutIs, PaysAddUp DEF PaidFor
<1>3. Due(m, w) = ShareOf(PaidSales(m, w) \ PaidFor(m, w))
  BY <1>1 DEF Due, ShareOf
<1>4. /\ ShareOf(PaidSales(m, w)) \in Nat /\ ShareOf(PaidFor(m, w)) \in Nat
      /\ ShareOf(PaidSales(m, w) \ PaidFor(m, w)) \in Nat
      /\ ShareOf(PaidSales(m, w))
           = ShareOf(PaidFor(m, w)) + ShareOf(PaidSales(m, w) \ PaidFor(m, w))
  BY <1>1, ShareAdds
<1> QED
  BY <1>2, <1>3, <1>4

\* Whatever was sold late and whichever marks ran at once, what payout-ledger.ts
\* paid out for a week and what it says is due make up the merchant's share of
\* the week, to the som.
THEOREM LedgerBalancesHolds == Spec => []LedgerBalances
<1>1. MoneyInv => LedgerBalances
  BY Balances DEF LedgerBalances, ShareOf
<1> QED
  BY <1>1, MoneyInit, MoneyNext, PTL DEF Spec

\* What is due is a share of sales that are finitely many.
LEMMA DueIs ==
  ASSUME MoneyInv, NEW m, NEW w
  PROVE  /\ DueSales(m, w) \in SUBSET Sales /\ IsFiniteSet(DueSales(m, w))
         /\ Due(m, w) = ShareOf(DueSales(m, w))
<1>1. DueSales(m, w) \in SUBSET Sales /\ DueSales(m, w) \in SUBSET Sold
  BY DEF DueSales, PaidSales, Sold
<1>2. IsFiniteSet(DueSales(m, w))
  BY <1>1, FS_Subset DEF MoneyInv, FinitelyMany
<1> QED
  BY <1>1, <1>2 DEF Due, ShareOf

\* markPaidOut records the amount the administrator was shown, if the request
\* brought one, and what is due for the merchant's week falls by exactly that
\* amount; what is due for anyone else, or any other week, stays as it was.
THEOREM RecordsWhatWasSeenHolds == Spec => RecordsWhatWasSeen
<1>1. ASSUME MoneyInv, [Next]_vars, NEW p \in Marks, payouts'[p] # payouts[p]
      PROVE  /\ mark[p].expected \in {None, payouts'[p].payout}
             /\ \A m \in Merchants, w \in Weeks :
                  Due(m, w)' = Due(m, w) - IF p \in Recorded(m, w)'
                                           THEN payouts'[p].payout ELSE 0
  <2>1. Records(p)
    <3>1. PICK q \in Marks : Records(q)
      BY <1>1, TableStep DEF MoneyInv, Sells
    <3>2. \A r \in Marks \ {q} : payouts'[r] = payouts[r]
      BY <1>1, <3>1, RecordCovers DEF MoneyInv, Records
    <3> QED
      BY <1>1, <3>1, <3>2
  <2>2. PICK m \in Merchants, w \in Weeks, S \in SUBSET Sales :
          m = mark[p].merchant /\ w = mark[p].week /\ S = mark[p].taken
    <3>1. mark[p].pc = "locking" /\ mark[p].taken \subseteq Sales
      BY <1>1, <2>1, RecordFacts DEF MoneyInv, Records
    <3> QED
      BY <1>1, <3>1 DEF MoneyInv, Inv, Going
  <2> DEFINE row == Payout(m, w, S)
  <2>3. /\ UNCHANGED <<state, week>> /\ row # None
        /\ payoutId' = [s \in Sales |-> IF s \in S THEN p ELSE payoutId[s]]
    BY <1>1, <2>1, <2>2, RecordFacts DEF MoneyInv, Records
  <2>4. /\ payouts'[p] = row
        /\ \A s \in S : state[s] = "paid" /\ MerchantOf[s] = m /\ week[s] = w
                                          /\ payoutId[s] = None
    BY <1>1, <2>1, <2>2, RecordCovers DEF MoneyInv, Records, Fits
  <2>5. row.merchant = m /\ row.week = w /\ row.payout = ShareOf(S)
    BY DEF Payout, ShareOf
  <2>6. mark[p].expected \in {None, row.payout}
    BY <2>1, <2>2, <2>5 DEF Records, Record, Accepts, ShareOf
  <2> HIDE DEF row
  <2>7. ASSUME NEW m2 \in Merchants, NEW w2 \in Weeks
        PROVE  Due(m2, w2)' = Due(m2, w2) - IF p \in Recorded(m2, w2)'
                                            THEN payouts'[p].payout ELSE 0
    <3> DEFINE D == DueSales(m2, w2)
    <3>1. D \in SUBSET Sales /\ IsFiniteSet(D) /\ Due(m2, w2) = ShareOf(D)
      BY <1>1, DueIs
    <3>2. Due(m2, w2)' = ShareOf(DueSales(m2, w2)')
      BY DEF Due, ShareOf
    <3>3. p \in Recorded(m2, w2)' <=> m2 = m /\ w2 = w
      BY <2>3, <2>4, <2>5 DEF Recorded
    <3>4. DueSales(m2, w2)' = {s \in D : s \notin S}
      <4>1. \A s \in Sales : payoutId'[s] = IF s \in S THEN p ELSE payoutId[s]
        BY <2>3
      <4>2. p # None
        OBVIOUS
      <4> QED
        BY <2>3, <4>1, <4>2 DEF DueSales, PaidSales, InWeek, Uncovered
    <3>5. CASE m2 = m /\ w2 = w
      <4>1. S \in SUBSET D
        BY <2>4, <3>5 DEF DueSales, PaidSales, InWeek, Uncovered
      <4>2. DueSales(m2, w2)' = D \ S
        BY <3>4
      <4> HIDE DEF D
      <4>3. /\ ShareOf(D) \in Nat /\ ShareOf(S) \in Nat /\ ShareOf(D \ S) \in Nat
            /\ ShareOf(D) = ShareOf(S) + ShareOf(D \ S)
        BY <3>1, <4>1, ShareAdds
      <4>4. Due(m2, w2)' = Due(m2, w2) - ShareOf(S)
        BY <3>1, <3>2, <4>2, <4>3
      <4> QED
        BY <2>4, <2>5, <3>3, <3>5, <4>4
    <3>6. CASE ~ (m2 = m /\ w2 = w)
      <4>1. \A s \in D : MerchantOf[s] = m2 /\ week[s] = w2
        BY DEF DueSales, PaidSales, InWeek
      <4>2. DueSales(m2, w2)' = D
        BY <2>4, <3>4, <3>6, <4>1
      <4> HIDE DEF D
      <4>3. ShareOf(D) \in Nat
        BY <3>1, ShareAdds
      <4>4. Due(m2, w2)' = Due(m2, w2) - 0
        BY <3>1, <3>2, <4>2, <4>3
      <4> QED
        BY <3>3, <3>6, <4>4
    <3> QED
      BY <3>5, <3>6
  <2> QED
    BY <2>4, <2>6, <2>7
<1>2. MoneyInv /\ [Next]_vars =>
        \A p \in Marks : payouts'[p] # payouts[p] =>
          /\ mark[p].expected \in {None, payouts'[p].payout}
          /\ \A m \in Merchants, w \in Weeks :
               Due(m, w)' = Due(m, w) - IF p \in Recorded(m, w)' THEN payouts'[p].payout ELSE 0
  BY <1>1
<1> QED
  BY <1>2, MoneyInit, MoneyNext, PTL DEF Spec, RecordsWhatWasSeen

-------------------------------------------------------------------------------
(* What the screens show, and the types of everything.                       *)

ScreenRecords ==
  [read : 0..4, merchant : Merchants \cup {None}, week : Weeks \cup {None},
   payout : Nat, due : Nat, paidOut : Nat, listed : Nat]

Rows == [merchant : Merchants, week : Weeks, ordersCount : Nat,
         gross : Nat, payout : Nat, commission : Nat]

Typed ==
  /\ payouts \in [Marks -> Rows \cup {None}]
  /\ \A p \in Marks : mark[p].expected \in Nat \cup {None}
  /\ screen \in [Screens -> ScreenRecords]
  /\ faults \in 0..MaxFaults

\* What a screen has read so far is no more than what could be read now, and each
\* answer covers the one before.
Watched(r) ==
  /\ r.read >= 2 => r.payout <= ShareOf(PaidSales(r.merchant, r.week))
  /\ r.read >= 3 => /\ r.paidOut + r.due >= r.payout
                    /\ r.paidOut <= ShareOf(PaidFor(r.merchant, r.week))
  /\ r.read >= 4 => r.listed >= r.paidOut
Watches == \A a \in Screens : \A r \in {screen[a]} : Watched(r)

WatchInv == MoneyInv /\ Typed /\ Watches

\* More sales, larger share.
LEMMA ShareGrows ==
  ASSUME NEW S \in SUBSET Sales, IsFiniteSet(S), NEW A \in SUBSET S
  PROVE  ShareOf(A) \in Nat /\ ShareOf(S) \in Nat /\ ShareOf(A) <= ShareOf(S)
<1>1. /\ ShareOf(S) \in Nat /\ ShareOf(A) \in Nat /\ ShareOf(S \ A) \in Nat
      /\ ShareOf(S) = ShareOf(A) + ShareOf(S \ A)
  BY ShareAdds
<1> HIDE DEF ShareOf
<1> QED
  BY <1>1

\* What is paid, and what is paid out, only grows.
LEMMA Grows ==
  ASSUME MoneyInv, MoneyInv', [Next]_vars, NEW m, NEW w
  PROVE  /\ ShareOf(PaidSales(m, w)) \in Nat /\ ShareOf(PaidSales(m, w)') \in Nat
         /\ ShareOf(PaidSales(m, w)) <= ShareOf(PaidSales(m, w)')
         /\ ShareOf(PaidFor(m, w)) \in Nat /\ ShareOf(PaidFor(m, w)') \in Nat
         /\ ShareOf(PaidFor(m, w)) <= ShareOf(PaidFor(m, w)')
<1>1. PaidStays /\ (Sells \/ \E p \in Marks : Records(p))
  BY TableStep DEF MoneyInv
<1>2. PaidSales(m, w) \subseteq PaidSales(m, w)'
  BY <1>1 DEF PaidSales, InWeek, PaidStays
<1>3. PaidFor(m, w) \subseteq PaidFor(m, w)'
  <2>1. CASE Sells
    BY <2>1 DEF Sells, PaidFor, Recorded
  <2>2. ASSUME NEW p \in Marks, Records(p) PROVE PaidFor(m, w) \subseteq PaidFor(m, w)'
    <3>1. /\ payouts[p] = None /\ \A q \in Marks \ {p} : payouts'[q] = payouts[q]
          /\ \A s \in mark[p].taken : payoutId[s] = None
          /\ payoutId' = [s \in Sales |-> IF s \in mark[p].taken THEN p ELSE payoutId[s]]
      BY <2>2, RecordFacts, RecordCovers DEF Records, MoneyInv
    <3>2. Recorded(m, w) \subseteq Recorded(m, w)'
      BY <3>1 DEF Recorded
    <3>3. None \notin Recorded(m, w)
      BY DEF Recorded
    <3> QED
      BY <3>1, <3>2, <3>3 DEF PaidFor
  <2> QED
    BY <1>1, <2>1, <2>2
<1>4. PaidSales(m, w)' \in SUBSET Sales /\ PaidFor(m, w)' \in SUBSET Sales
  BY DEF PaidSales, PaidFor
<1>5. PaidSales(m, w)' \in SUBSET Sold' /\ PaidFor(m, w)' \in SUBSET Sold'
  <2>1. \A s \in Sales : payoutId'[s] # None =>
          payoutId'[s] \in Marks /\ payouts'[payoutId'[s]] # None
    BY DEF MoneyInv, Inv, Types, Linked
  <2>2. \A p \in Marks : payouts'[p] # None => CoveredBy(p)' \subseteq Sold'
    BY DEF MoneyInv, Snapshots, PaidSales, Sold
  <2>3. None \notin Recorded(m, w)'
    BY DEF Recorded
  <2>4. PaidFor(m, w)' \subseteq Sold'
    BY <2>1, <2>2, <2>3 DEF PaidFor, CoveredBy
  <2> QED
    BY <2>4 DEF PaidSales, Sold
<1>6. IsFiniteSet(PaidSales(m, w)') /\ IsFiniteSet(PaidFor(m, w)')
  BY <1>5, FS_Subset DEF MoneyInv, FinitelyMany
<1> QED
  BY <1>2, <1>3, <1>4, <1>6, ShareGrows

LEMMA WatchedStays ==
  ASSUME MoneyInv, MoneyInv', [Next]_vars, NEW r \in ScreenRecords, Watched(r)
  PROVE  Watched(r)'
<1> DEFINE m == r.merchant
           w == r.week
<1>1. /\ ShareOf(PaidSales(m, w)) \in Nat /\ ShareOf(PaidSales(m, w)') \in Nat
      /\ ShareOf(PaidSales(m, w)) <= ShareOf(PaidSales(m, w)')
      /\ ShareOf(PaidFor(m, w)) \in Nat /\ ShareOf(PaidFor(m, w)') \in Nat
      /\ ShareOf(PaidFor(m, w)) <= ShareOf(PaidFor(m, w)')
  BY Grows
<1>2. /\ ShareOf(PaidSales(m, w))' = ShareOf(PaidSales(m, w)')
      /\ ShareOf(PaidFor(m, w))' = ShareOf(PaidFor(m, w)')
  BY DEF ShareOf
<1>3. r.payout \in Nat /\ r.paidOut \in Nat
  BY DEF ScreenRecords
<1> HIDE DEF ShareOf
<1> QED
  BY <1>1, <1>2, <1>3 DEF Watched

\* The statements of a screen run in the order they are written in.
LEMMA InOrder ==
  ASSUME NEW a, screen[a].read \in 0..4
  PROVE  /\ Reading(a, "sales") => screen[a].read = 1
         /\ Reading(a, "ledger") => screen[a].read = 2
         /\ Reading(a, "payouts") => screen[a].read = 3
         /\ Len(ReadOrder) + 1 = 4
BY DEF Reading, ReadOrder

Blanked(o, k, m, w) == [o EXCEPT !.read = k, !.merchant = m, !.week = w]
SalesRead(o, k, n) == [o EXCEPT !.read = k, !.payout = n]
LedgerRead(o, k, d, n) == [o EXCEPT !.read = k, !.due = d, !.paidOut = n]
PayoutsRead(o, k, n) == [o EXCEPT !.read = k, !.listed = n]

LEMMA BlankedIs ==
  ASSUME NEW o \in ScreenRecords, NEW k \in 0..4,
         NEW m \in Merchants \cup {None}, NEW w \in Weeks \cup {None}
  PROVE  Blanked(o, k, m, w) \in ScreenRecords /\ Blanked(o, k, m, w).read = k
BY DEF Blanked, ScreenRecords

\* What each of the statements makes of the screen o.
IsSalesRead(r, o, k, n) ==
  r \in ScreenRecords /\ r.read = k /\ r.payout = n /\ r.merchant = o.merchant /\ r.week = o.week
IsLedgerRead(r, o, k, d, n) ==
  /\ r \in ScreenRecords /\ r.read = k /\ r.due = d /\ r.paidOut = n
  /\ r.merchant = o.merchant /\ r.week = o.week /\ r.payout = o.payout
IsPayoutsRead(r, o, k, n) ==
  /\ r \in ScreenRecords /\ r.read = k /\ r.listed = n
  /\ r.merchant = o.merchant /\ r.week = o.week /\ r.payout = o.payout
  /\ r.due = o.due /\ r.paidOut = o.paidOut

LEMMA ReadIs ==
  ASSUME NEW o \in ScreenRecords, NEW k \in 0..4, NEW d \in Nat, NEW n \in Nat
  PROVE  /\ IsSalesRead(SalesRead(o, k, n), o, k, n)
         /\ IsLedgerRead(LedgerRead(o, k, d, n), o, k, d, n)
         /\ IsPayoutsRead(PayoutsRead(o, k, n), o, k, n)
<1>1. IsSalesRead(SalesRead(o, k, n), o, k, n)
  BY DEF ScreenRecords, SalesRead, IsSalesRead
<1>2. IsLedgerRead(LedgerRead(o, k, d, n), o, k, d, n)
  BY DEF ScreenRecords, LedgerRead, IsLedgerRead
<1>3. IsPayoutsRead(PayoutsRead(o, k, n), o, k, n)
  BY DEF ScreenRecords, PayoutsRead, IsPayoutsRead
<1> QED
  BY <1>1, <1>2, <1>3

\* A statement that is read leaves a screen that still shows no more than there is.
LEMMA ReadsInv ==
  ASSUME WatchInv, NEW a \in Screens, ReadScreen(a)
  PROVE  \E r \in ScreenRecords : screen' = [screen EXCEPT ![a] = r] /\ Watched(r)
<1>1. PICK o \in ScreenRecords : o = screen[a] /\ Watched(o)
  BY DEF WatchInv, Typed, Watches
<1> DEFINE m == o.merchant
           w == o.week
<1>2. /\ PaidOut(m, w) \in Nat /\ Due(m, w) \in Nat
      /\ PaidOut(m, w) = ShareOf(PaidFor(m, w))
      /\ ShareOf(PaidSales(m, w)) \in Nat
      /\ PaidOut(m, w) + Due(m, w) = ShareOf(PaidSales(m, w))
  BY Balances DEF WatchInv
<1>3. Split(Gross(PaidSales(m, w))).payout = ShareOf(PaidSales(m, w))
  BY DEF ShareOf
<1>4. \/ /\ Reading(a, "sales")
         /\ screen' = [screen EXCEPT ![a] = SalesRead(o, o.read + 1, ShareOf(PaidSales(m, w)))]
      \/ /\ Reading(a, "ledger")
         /\ screen' = [screen EXCEPT ![a] =
                         LedgerRead(o, o.read + 1, Due(m, w), PaidOut(m, w))]
      \/ /\ Reading(a, "payouts")
         /\ screen' = [screen EXCEPT ![a] = PayoutsRead(o, o.read + 1, PaidOut(m, w))]
  BY <1>1, <1>3 DEF ReadScreen, SalesRead, LedgerRead, PayoutsRead, WatchInv, Typed
<1>5. o.read \in 0..4 /\ o.payout \in Nat /\ o.due \in Nat /\ o.paidOut \in Nat
  BY DEF ScreenRecords
<1>6. /\ Reading(a, "sales") => o.read = 1
      /\ Reading(a, "ledger") => o.read = 2
      /\ Reading(a, "payouts") => o.read = 3
  BY <1>1, <1>5, InOrder
<1>7. CASE Reading(a, "sales") /\ screen' = [screen EXCEPT ![a] =
                                    SalesRead(o, o.read + 1, ShareOf(PaidSales(m, w)))]
  <2>1. PICK n \in Nat : n = ShareOf(PaidSales(m, w))
    BY <1>2
  <2>2. PICK k \in 0..4 : k = 2 /\ o.read + 1 = k
    BY <1>5, <1>6, <1>7
  <2>3. PICK r : r = SalesRead(o, k, n) /\ IsSalesRead(r, o, k, n)
    BY <1>1, <2>1, <2>2, ReadIs
  <2>4. r \in ScreenRecords /\ Watched(r)
    BY <1>2, <2>1, <2>2, <2>3 DEF Watched, IsSalesRead
  <2> QED
    BY <1>7, <2>1, <2>2, <2>3, <2>4
<1>8. CASE Reading(a, "ledger") /\ screen' = [screen EXCEPT ![a] =
                                     LedgerRead(o, o.read + 1, Due(m, w), PaidOut(m, w))]
  <2>1. PICK d \in Nat, n \in Nat : d = Due(m, w) /\ n = PaidOut(m, w)
    BY <1>2
  <2>2. PICK k \in 0..4 : k = 3 /\ o.read + 1 = k
    BY <1>5, <1>6, <1>8
  <2>3. PICK r : r = LedgerRead(o, k, d, n) /\ IsLedgerRead(r, o, k, d, n)
    BY <1>1, <2>1, <2>2, ReadIs
  <2>4. o.payout <= ShareOf(PaidSales(m, w))
    BY <1>1, <1>6, <1>8 DEF Watched
  <2>5. r \in ScreenRecords /\ Watched(r)
    BY <1>2, <1>5, <2>1, <2>2, <2>3, <2>4 DEF Watched, IsLedgerRead
  <2> QED
    BY <1>8, <2>1, <2>2, <2>3, <2>5
<1>9. CASE Reading(a, "payouts") /\ screen' = [screen EXCEPT ![a] =
                                      PayoutsRead(o, o.read + 1, PaidOut(m, w))]
  <2>1. PICK n \in Nat : n = PaidOut(m, w)
    BY <1>2
  <2>2. PICK k \in 0..4 : k = 4 /\ o.read + 1 = k
    BY <1>5, <1>6, <1>9
  <2>3. PICK r : r = PayoutsRead(o, k, n) /\ IsPayoutsRead(r, o, k, n)
    BY <1>1, <2>1, <2>2, ReadIs
  <2>4. /\ o.payout <= ShareOf(PaidSales(m, w))
        /\ o.paidOut + o.due >= o.payout
        /\ o.paidOut <= ShareOf(PaidFor(m, w))
    BY <1>1, <1>6, <1>9 DEF Watched
  <2>5. r \in ScreenRecords /\ Watched(r)
    BY <1>2, <1>5, <2>1, <2>2, <2>3, <2>4 DEF Watched, IsPayoutsRead
  <2> QED
    BY <1>9, <2>1, <2>2, <2>3, <2>5
<1> QED
  BY <1>4, <1>7, <1>8, <1>9

LEMMA ScreensStep ==
  ASSUME WatchInv, MoneyInv', [Next]_vars,
         \/ UNCHANGED screen
         \/ \E a \in Screens :
              ReadScreen(a) \/ \E m \in Merchants, w \in Weeks : OpenScreen(a, m, w)
  PROVE  screen' \in [Screens -> ScreenRecords] /\ Watches'
<1>1. \A r \in ScreenRecords : Watched(r) => Watched(r)'
  BY WatchedStays DEF WatchInv
<1>2. /\ screen \in [Screens -> ScreenRecords]
      /\ \A a \in Screens : screen[a] \in ScreenRecords /\ Watched(screen[a])
  BY DEF WatchInv, Typed, Watches
<1>3. \/ UNCHANGED screen
      \/ \E a \in Screens, r \in ScreenRecords :
           screen' = [screen EXCEPT ![a] = r] /\ Watched(r)
  <2>1. ASSUME NEW a \in Screens, NEW m \in Merchants, NEW w \in Weeks, OpenScreen(a, m, w)
        PROVE  \E r \in ScreenRecords : screen' = [screen EXCEPT ![a] = r] /\ Watched(r)
    <3>1. screen' = [screen EXCEPT ![a] = Blanked(Blank, 1, m, w)]
      BY <2>1 DEF OpenScreen, Blanked
    <3>2. Blanked(Blank, 1, m, w) \in ScreenRecords /\ Blanked(Blank, 1, m, w).read = 1
      <4>1. Blank \in ScreenRecords
        BY DEF Blank, ScreenRecords
      <4> QED
        BY <4>1, BlankedIs
    <3>3. Watched(Blanked(Blank, 1, m, w))
      BY <3>2 DEF Watched
    <3> QED
      BY <3>1, <3>2, <3>3
  <2> QED
    BY <2>1, ReadsInv
<1>4. \A a \in Screens : screen'[a] \in ScreenRecords /\ \A r \in {screen'[a]} : Watched(r)
  <2>1. CASE UNCHANGED screen
    BY <1>2, <2>1
  <2>2. ASSUME NEW a \in Screens, NEW r \in ScreenRecords,
               screen' = [screen EXCEPT ![a] = r], Watched(r)
        PROVE  \A b \in Screens : screen'[b] \in ScreenRecords
                                  /\ \A q \in {screen'[b]} : Watched(q)
    BY <1>2, <2>2
  <2> QED
    BY <1>3, <2>1, <2>2
<1>5. Watches'
  BY <1>1, <1>4 DEF Watches
<1>6. screen' \in [Screens -> ScreenRecords]
  BY <1>2, <1>3
<1> QED
  BY <1>5, <1>6

\* Who writes what: the screens are written by those who read them, the amount a
\* mark expects by the one who asks.
LEMMA SideStep ==
  ASSUME Inv, [Next]_vars
  PROVE  /\ \/ UNCHANGED screen
            \/ \E a \in Screens :
                 ReadScreen(a) \/ \E m \in Merchants, w \in Weeks : OpenScreen(a, m, w)
         /\ faults' = faults \/ (faults < MaxFaults /\ faults' = faults + 1)
         /\ \A p \in Marks : \/ mark'[p].expected = mark[p].expected
                             \/ mark'[p].expected \in {None} \cup {screen[a].due : a \in Screens}
<1>0. PICK E : mark \in [Marks -> MarkRecords(E)]
  BY DEF Inv, Types
<1>1. CASE UNCHANGED vars
  BY <1>1 DEF vars
<1>2. CASE UNCHANGED <<mark, faults>> /\ \E a \in Screens :
             ReadScreen(a) \/ \E m \in Merchants, w \in Weeks : OpenScreen(a, m, w)
  BY <1>2
<1>3. CASE UNCHANGED <<mark, screen, faults>>
  BY <1>3
<1>4. ASSUME NEW p \in Marks, NEW outcome \in Outcomes, End(p, outcome)
      PROVE  \A q \in Marks : mark'[q].expected = mark[q].expected
  BY <1>0, <1>4 DEF End, MarkRecords
<1>5. ASSUME NEW p \in Marks, MarkStep(p)
      PROVE  UNCHANGED <<screen, faults>>
             /\ \A q \in Marks : mark'[q].expected = mark[q].expected
  <2>1. CASE \E s \in Sales : Reach(p, s)
    BY <1>0, <2>1 DEF Reach, MarkRecords
  <2>2. CASE Take(p)
    BY <1>0, <2>2 DEF Take, MarkRecords
  <2>3. CASE Refuse(p) \/ Record(p) \/ Deadlock(p)
    <3>1. \E outcome \in Outcomes : End(p, outcome)
      BY <2>3 DEF Refuse, Record, Deadlock, Outcomes
    <3> QED
      BY <1>4, <2>3, <3>1 DEF Refuse, Record, Deadlock
  <2> QED
    BY <1>5, <2>1, <2>2, <2>3 DEF MarkStep
<1>6. ASSUME NEW p \in Marks, Die(p)
      PROVE  /\ UNCHANGED screen /\ faults < MaxFaults /\ faults' = faults + 1
             /\ \A q \in Marks : mark'[q].expected = mark[q].expected
  BY <1>4, <1>6 DEF Die, Outcomes
<1>7. ASSUME NEW p \in Marks, NEW m \in Merchants, NEW w \in Weeks,
             NEW e \in {None} \cup {screen[a].due : a \in Screens}, Ask(p, m, w, e)
      PROVE  /\ UNCHANGED <<screen, faults>>
             /\ \A q \in Marks : mark'[q].expected \in {mark[q].expected, e}
  BY <1>0, <1>7 DEF Ask, Idle
<1>8. CASE Next
  <2>1. CASE \/ \E s \in Sales, w \in Weeks, v \in {"paid", "needs_review"} : Pay(s, w, v)
             \/ \E s \in Sales, v \in {"paid", "refunded"} : Resolve(s, v)
    BY <1>3, <2>1 DEF Pay, Resolve
  <2>2. CASE \E a \in Screens :
               ReadScreen(a) \/ \E m \in Merchants, w \in Weeks : OpenScreen(a, m, w)
    BY <1>2, <2>2 DEF ReadScreen, OpenScreen
  <2>3. CASE \E p \in Marks : MarkStep(p)
    BY <1>5, <2>3
  <2>4. CASE \E p \in Marks : Die(p)
    BY <1>6, <2>4
  <2>5. CASE \E p \in Marks, m \in Merchants, w \in Weeks :
               \E e \in {None} \cup {screen[a].due : a \in Screens} : Ask(p, m, w, e)
    <3>1. PICK p \in Marks, m \in Merchants, w \in Weeks :
               \E e \in {None} \cup {screen[a].due : a \in Screens} : Ask(p, m, w, e)
      BY <2>5
    <3>2. PICK e \in {None} \cup {screen[a].due : a \in Screens} : Ask(p, m, w, e)
      BY <3>1
    <3>3. /\ UNCHANGED <<screen, faults>>
          /\ \A q \in Marks : mark'[q].expected \in {mark[q].expected, e}
      BY <1>7, <3>2
    <3> QED
      BY <3>3
  <2> QED
    BY <1>8, <2>1, <2>2, <2>3, <2>4, <2>5 DEF Next
<1> QED
  BY <1>1, <1>8

LEMMA RowsStep ==
  ASSUME WatchInv, [Next]_vars
  PROVE  payouts' \in [Marks -> Rows \cup {None}]
<1>0. payouts \in [Marks -> Rows \cup {None}]
  BY DEF WatchInv, Typed
<1>1. CASE Sells
  BY <1>0, <1>1 DEF Sells
<1>2. ASSUME NEW p \in Marks, Records(p) PROVE payouts' \in [Marks -> Rows \cup {None}]
  <2>1. mark[p].pc = "locking" /\ mark[p].taken \subseteq Sales
    BY <1>2, RecordFacts DEF WatchInv, MoneyInv, Records
  <2>2. PICK m \in Merchants, w \in Weeks, S \in SUBSET Sales :
          m = mark[p].merchant /\ w = mark[p].week /\ S = mark[p].taken
    BY <2>1 DEF WatchInv, MoneyInv, Inv, Going
  <2>3. payouts' = [payouts EXCEPT ![p] = Payout(m, w, S)]
    BY <1>2, <2>2, RecordFacts DEF WatchInv, MoneyInv, Records
  <2>4. S \in SUBSET Sold
    BY <2>1, <2>2 DEF WatchInv, MoneyInv, Inv, Going, Fits, Sold
  <2>5. IsFiniteSet(S)
    BY <2>4, FS_Subset DEF WatchInv, MoneyInv, FinitelyMany
  <2>6. Cardinality(S) \in Nat /\ Gross(S) \in Nat
    BY <2>5, FS_CardinalityType, GrossAdds
  <2>7. \A n \in Nat : Split(n).payout \in Nat /\ Split(n).commission \in Nat
    BY DEF Split
  <2>8. Payout(m, w, S) \in Rows
    BY <2>6, <2>7 DEF Payout, Rows
  <2> QED
    BY <1>0, <2>3, <2>8
<1> QED
  BY <1>1, <1>2, TableStep DEF WatchInv, MoneyInv

LEMMA WatchInit == Init => WatchInv
<1> SUFFICES ASSUME Init PROVE WatchInv
  OBVIOUS
<1>1. Typed
  BY DEF Init, Typed, Idle, Blank, ScreenRecords
<1>2. Watches
  BY DEF Init, Watches, Watched, Blank
<1> QED
  BY <1>1, <1>2, MoneyInit DEF WatchInv

LEMMA WatchNext == WatchInv /\ [Next]_vars => WatchInv'
<1> SUFFICES ASSUME WatchInv, [Next]_vars PROVE WatchInv'
  OBVIOUS
<1>1. MoneyInv'
  BY MoneyNext DEF WatchInv
<1>2. /\ \/ UNCHANGED screen
         \/ \E a \in Screens :
              ReadScreen(a) \/ \E m \in Merchants, w \in Weeks : OpenScreen(a, m, w)
      /\ faults' = faults \/ (faults < MaxFaults /\ faults' = faults + 1)
      /\ \A p \in Marks : \/ mark'[p].expected = mark[p].expected
                          \/ mark'[p].expected \in {None} \cup {screen[a].due : a \in Screens}
  BY SideStep DEF WatchInv, MoneyInv
<1>3. screen' \in [Screens -> ScreenRecords] /\ Watches'
  BY <1>1, <1>2, ScreensStep
<1>4. \A p \in Marks : mark'[p].expected \in Nat \cup {None}
  <2>1. \A a \in Screens : screen[a].due \in Nat
    BY DEF WatchInv, Typed, ScreenRecords
  <2> QED
    BY <1>2, <2>1 DEF WatchInv, Typed
<1>5. faults' \in 0..MaxFaults
  BY <1>2 DEF WatchInv, Typed
<1>6. Typed'
  BY <1>3, <1>4, <1>5, RowsStep DEF Typed
<1> QED
  BY <1>1, <1>3, <1>6 DEF WatchInv

\* Though the statements of GET /admin/payouts are no snapshot, what a screen shows
\* as paid out and due covers the sales it shows, and its payouts cover what it
\* says was paid out, whatever lands or is marked between two statements.
THEOREM ScreenHidesNothingHolds == Spec => []ScreenHidesNothing
<1>1. WatchInv => ScreenHidesNothing
  <2> SUFFICES ASSUME WatchInv, NEW a \in Screens
               PROVE  /\ ShownToOwner(a) =>
                           screen[a].paidOut + screen[a].due >= screen[a].payout
                      /\ Shown(a) => screen[a].listed >= screen[a].paidOut
    BY DEF ScreenHidesNothing
  <2>1. screen[a].read \in 0..4 /\ Watched(screen[a])
    BY DEF WatchInv, Typed, Watches, ScreenRecords
  <2>2. Len(ReadOrder) + 1 = 4
    BY <2>1, InOrder
  <2> QED
    BY <2>1, <2>2 DEF ShownToOwner, Shown, Watched
<1> QED
  BY <1>1, WatchInit, WatchNext, PTL DEF Spec

\* Every column, request and screen holds what it can hold: sums that are
\* naturals, and split so that neither half is below zero.
THEOREM PayoutTypesHold == Spec => []TypeOK
<1>1. WatchInv => TypeOK
  <2> SUFFICES ASSUME WatchInv PROVE TypeOK
    OBVIOUS
  <2>1. mark \in [Marks -> MarkRecords(Nat \cup {None})]
    <3>1. PICK E : mark \in [Marks -> MarkRecords(E)]
      BY DEF WatchInv, MoneyInv, Inv, Types
    <3>2. \A p \in Marks : mark[p].expected \in Nat \cup {None}
      BY DEF WatchInv, Typed
    <3>3. \A p \in Marks : mark[p] \in MarkRecords(Nat \cup {None})
      BY <3>1, <3>2 DEF MarkRecords
    <3> QED
      BY <3>1, <3>3
  <2> QED
    BY <2>1 DEF WatchInv, MoneyInv, Inv, Types, Typed, TypeOK, MarkRecords, Rows, ScreenRecords
<1> QED
  BY <1>1, WatchInit, WatchNext, PTL DEF Spec
===============================================================================
