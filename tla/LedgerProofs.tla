----------------------------- MODULE LedgerProofs -----------------------------
(***************************************************************************)
(* Proofs that the books balance, for any documents and requests under way *)
(* together, of Structural, Variations and Orders.                         *)
(*                                                                         *)
(* Structural: on an engagement where nothing crossed, one request at      *)
(* most is between reading the ledger and writing it, so that the status   *)
(* and the deposits it read are those it writes over.  A drawing set is    *)
(* only ever stored in an engagement that is past the deposit, so that an  *)
(* approval pays out of a full escrow.                                     *)
(*                                                                         *)
(* Variations: while no approval is botched, one request approves and no   *)
(* order is decided by two, so that what an approval read is still so; the *)
(* sum runs ahead of the approved orders by the one being recorded, the    *)
(* schedule by the milestone it appended.                                  *)
(*                                                                         *)
(* Orders: while no write is jumbled, one request writes lines or the      *)
(* whole cart, and its copy is the cart or is refused; a checkout is alone *)
(* and what it has ordered is both in the cart and on an order.            *)
(*                                                                         *)
(* Both of these add over a set of documents.  The fold that adds is a     *)
(* recursive function: that there is one, and that it does not depend on   *)
(* the order it adds in, follows from a least, or a smallest,              *)
(* counterexample.                                                         *)
(***************************************************************************)
EXTENDS Structural, Variations, Orders, FiniteSetTheorems, SequenceTheorems,
        WellFoundedInduction, TLAPS

-----------------------------------------------------------------------------
(* Least counterexamples, and sums over finite sets *)

LEMMA Least ==
  ASSUME NEW S \in SUBSET Nat, S # {}
  PROVE  \E x \in S : \A y \in S : x <= y
<1> DEFINE less == OpToRel(<, Nat)
<1>1. \A x, y \in Nat : <<y, x>> \in less <=> y < x
  BY DEF OpToRel
<1>2. IsWellFoundedOn(less, Nat)
  BY NatLessThanWellFounded
<1> HIDE DEF less
<1>3. PICK x \in S : \A y \in S : ~(<<y, x>> \in less)
  BY <1>2, WFMin
<1>4. ASSUME NEW y \in S PROVE x <= y
  <2>1. x \in Nat /\ y \in Nat
    OBVIOUS
  <2>2. ~(y < x)
    BY <1>1, <1>3, <2>1
  <2> QED
    BY <2>1, <2>2
<1> QED
  BY <1>4

\* A property of the finite subsets of S holds of all of them when it holds of a
\* set once it holds of the strictly smaller ones.
LEMMA Smallest ==
  ASSUME NEW S, IsFiniteSet(S), NEW T \in SUBSET SUBSET S, T # {}
  PROVE  \E t \in T : \A u \in SUBSET t : u # t => u \notin T
<1> DEFINE less == StrictSubsetOrdering(S)
<1>1. IsWellFoundedOn(less, SUBSET S)
  BY FS_StrictSubsetOrderingWellFounded, FS_FiniteSubsetsOfFinite
<1>2. \A t, u \in SUBSET S : u \subseteq t /\ u # t => <<u, t>> \in less
  BY DEF StrictSubsetOrdering
<1> HIDE DEF less
<1>3. PICK t \in T : \A u \in T : ~(<<u, t>> \in less)
  BY <1>1, WFMin
<1> QED
  BY <1>2, <1>3

-----------------------------------------------------------------------------
(* A sum over a finite set *)

AnyOf(s) == CHOOSE x \in s : TRUE
\* What SumFunctionOnSet defines, by recursion over the subsets.
IsSum(g, f, S) ==
  g = [s \in SUBSET S |-> IF s = {} THEN 0 ELSE f[AnyOf(s)] + g[s \ {AnyOf(s)}]]

Agree(f, e, S) == \A x \in S : f[x] = e[x]

LEMMA AnyIn == ASSUME NEW s, s # {} PROVE AnyOf(s) \in s
BY DEF AnyOf

\* The recursion defines a function: up to every size there is one.
LEMMA SumExists ==
  ASSUME NEW f, NEW S, IsFiniteSet(S)
  PROVE  \E g : IsSum(g, f, S)
<1> DEFINE Small(n) == {s \in SUBSET S : Cardinality(s) <= n}
           Upto(g, n) == g = [s \in Small(n) |->
                                IF s = {} THEN 0 ELSE f[AnyOf(s)] + g[s \ {AnyOf(s)}]]
           Bad == {n \in Nat : ~ \E g : Upto(g, n)}
<1>1. \A s \in SUBSET S : IsFiniteSet(s) /\ Cardinality(s) \in Nat
  BY FS_Subset, FS_CardinalityType
<1>2. \A s \in SUBSET S : s # {} => /\ s \ {AnyOf(s)} \in SUBSET S
                                    /\ Cardinality(s \ {AnyOf(s)}) = Cardinality(s) - 1
  BY <1>1, AnyIn, FS_RemoveElement
<1>3. 0 \notin Bad
  <2>1. Small(0) = {{}}
    BY <1>1, FS_EmptySet
  <2>2. Upto([s \in {{}} |-> 0], 0)
    BY <2>1
  <2> QED
    BY <2>2
<1>4. ASSUME NEW n \in Nat, NEW g, Upto(g, n) PROVE n + 1 \notin Bad
  <2> DEFINE h == [s \in Small(n + 1) |->
                     IF s = {} THEN 0 ELSE f[AnyOf(s)] + g[s \ {AnyOf(s)}]]
  <2>1. \A s \in Small(n + 1) : s # {} => s \ {AnyOf(s)} \in Small(n)
    BY <1>1, <1>2
  <2>2. \A s \in Small(n) : s \in Small(n + 1)
    BY <1>1
  <2>3. \A s \in Small(n) : g[s] = h[s]
    BY <1>4, <2>2
  <2>4. h = [s \in Small(n + 1) |-> IF s = {} THEN 0 ELSE f[AnyOf(s)] + h[s \ {AnyOf(s)}]]
    BY <2>1, <2>3
  <2> QED
    BY <2>4
<1>b. Bad \subseteq Nat /\ \A n \in Nat : n \notin Bad => \E g : Upto(g, n)
  OBVIOUS
<1>5. Bad = {}
  <2> HIDE DEF Bad, Upto
  <2> SUFFICES ASSUME Bad # {} PROVE FALSE
    OBVIOUS
  <2>1. PICK m \in Bad : \A n \in Bad : m <= n
    BY <1>b, Least
  <2>2. m # 0 /\ m \in Nat
    BY <1>3, <1>b, <2>1
  <2>3. m - 1 \in Nat /\ ~(m <= m - 1) /\ (m - 1) + 1 = m
    BY <2>2
  <2>4. m - 1 \notin Bad
    BY <2>1, <2>3
  <2>5. (m - 1) + 1 \notin Bad
    BY <1>4, <1>b, <2>3, <2>4
  <2> QED
    BY <2>1, <2>3, <2>5
<1>6. Cardinality(S) \in Nat /\ Small(Cardinality(S)) = SUBSET S
  BY <1>1, FS_Subset
<1>7. \E g : Upto(g, Cardinality(S))
  BY <1>5, <1>6
<1> QED
  BY <1>6, <1>7 DEF IsSum

LEMMA SumIs ==
  ASSUME NEW f, NEW S, IsFiniteSet(S)
  PROVE  \E g : IsSum(g, f, S) /\ SumFunctionOnSet(f, S) = g[S]
<1> DEFINE g == CHOOSE g : IsSum(g, f, S)
<1>1. IsSum(g, f, S)
  BY SumExists
<1>2. SumFunctionOnSet(f, S) = g[S]
  BY DEF SumFunctionOnSet, FoldFunctionOnSet, MapThenFoldSet, IsSum, AnyOf
<1> QED
  BY <1>1, <1>2

\* Which element the recursion takes first does not matter.
LEMMA SumAny ==
  ASSUME NEW f, NEW S, IsFiniteSet(S), \A x \in S : f[x] \in Int, NEW g, IsSum(g, f, S)
  PROVE  \A s \in SUBSET S : g[s] \in Int /\ \A y \in s : g[s] = f[y] + g[s \ {y}]
<1> DEFINE Right(s) == g[s] \in Int /\ \A y \in s : g[s] = f[y] + g[s \ {y}]
           Bad == {s \in SUBSET S : ~Right(s)}
<1>1. \A s \in SUBSET S : g[s] = IF s = {} THEN 0 ELSE f[AnyOf(s)] + g[s \ {AnyOf(s)}]
  BY DEF IsSum
<1>2. ASSUME NEW s \in SUBSET S, \A u \in SUBSET s : u # s => Right(u)
      PROVE  Right(s)
  <2>1. CASE s = {}
    <3>1. g[s] = 0
      BY <1>1, <2>1
    <3> QED
      BY <2>1, <3>1
  <2>2. CASE s # {}
    <3> DEFINE x == AnyOf(s)
    <3>1. x \in s /\ f[x] \in Int
      BY <2>2, AnyIn
    <3>2. g[s] = f[x] + g[s \ {x}]
      BY <1>1, <2>2
    <3> HIDE DEF x
    <3>3. \A z \in s : g[s \ {z}] \in Int /\ \A y \in s \ {z} : g[s \ {z}] = f[y] + g[(s \ {z}) \ {y}]
      BY <1>2
    <3>4. ASSUME NEW y \in s, y # x PROVE g[s] = f[y] + g[s \ {y}]
      <4>1. PICK u : u = (s \ {x}) \ {y} /\ u = (s \ {y}) \ {x}
        OBVIOUS
      <4>2. u \in SUBSET s /\ u # s
        BY <3>1, <4>1
      <4>3. g[u] \in Int /\ f[y] \in Int /\ f[x] \in Int
        BY <1>2, <3>1, <4>2
      <4>4. g[s \ {x}] = f[y] + g[u]
        BY <3>3, <3>1, <3>4, <4>1
      <4>5. g[s \ {y}] = f[x] + g[u]
        BY <3>3, <3>1, <3>4, <4>1
      <4> QED
        BY <3>2, <4>3, <4>4, <4>5
    <3>5. g[s] = f[x] + g[s \ {x}] /\ g[s \ {x}] \in Int
      BY <3>1, <3>2, <3>3
    <3>6. \A y \in s : g[s] = f[y] + g[s \ {y}]
      BY <3>4, <3>5
    <3>7. g[s] \in Int
      BY <3>1, <3>5
    <3> QED
      BY <3>6, <3>7
  <2> QED
    BY <2>1, <2>2
<1>3. SUFFICES ASSUME Bad # {} PROVE FALSE
  OBVIOUS
<1>4. PICK s \in Bad : \A u \in SUBSET s : u # s => u \notin Bad
  <2>1. Bad \in SUBSET SUBSET S
    OBVIOUS
  <2> HIDE DEF Bad
  <2> QED
    BY <1>3, <2>1, Smallest
<1>5. s \in SUBSET S /\ \A u \in SUBSET s : u # s => Right(u)
  BY <1>4
<1>6. Right(s)
  <2> HIDE DEF Right
  <2> QED
    BY <1>2, <1>5
<1> QED
  BY <1>4, <1>6

\* Nor what the function is elsewhere, nor the set the recursion is started on.
LEMMA SumAgree ==
  ASSUME NEW S, NEW T, IsFiniteSet(T), S \subseteq T, NEW f, NEW e, Agree(f, e, S),
         NEW g, NEW h, IsSum(g, f, S), IsSum(h, e, T)
  PROVE  \A s \in SUBSET S : g[s] = h[s]
<1> DEFINE Bad == {s \in SUBSET S : g[s] # h[s]}
<1>1. \A s \in SUBSET S :
        /\ g[s] = IF s = {} THEN 0 ELSE f[AnyOf(s)] + g[s \ {AnyOf(s)}]
        /\ h[s] = IF s = {} THEN 0 ELSE e[AnyOf(s)] + h[s \ {AnyOf(s)}]
  BY DEF IsSum
<1>2. ASSUME NEW s \in SUBSET S, \A u \in SUBSET s : u # s => g[u] = h[u]
      PROVE  g[s] = h[s]
  <2>1. s # {} => AnyOf(s) \in s
    BY AnyIn
  <2>2. s # {} => g[s \ {AnyOf(s)}] = h[s \ {AnyOf(s)}] /\ f[AnyOf(s)] = e[AnyOf(s)]
    BY <1>2, <2>1 DEF Agree
  <2> QED
    BY <1>1, <2>2
<1>3. SUFFICES ASSUME Bad # {} PROVE FALSE
  OBVIOUS
<1>4. PICK s \in Bad : \A u \in SUBSET s : u # s => u \notin Bad
  <2>1. Bad \in SUBSET SUBSET S /\ IsFiniteSet(S)
    BY FS_Subset
  <2> HIDE DEF Bad
  <2> QED
    BY <1>3, <2>1, Smallest
<1>5. s \in SUBSET S /\ \A u \in SUBSET s : u # s => g[u] = h[u]
  BY <1>4
<1> QED
  BY <1>2, <1>4, <1>5

LEMMA SumEmpty == ASSUME NEW f PROVE SumFunctionOnSet(f, {}) = 0
<1>1. PICK g : IsSum(g, f, {}) /\ SumFunctionOnSet(f, {}) = g[{}]
  BY SumIs, FS_EmptySet
<1> QED
  BY <1>1 DEF IsSum

LEMMA SumSame ==
  ASSUME NEW S, IsFiniteSet(S), NEW f, NEW e, \A x \in S : f[x] = e[x]
  PROVE  SumFunctionOnSet(f, S) = SumFunctionOnSet(e, S)
<1>1. PICK g : IsSum(g, f, S) /\ SumFunctionOnSet(f, S) = g[S]
  BY SumIs
<1>2. PICK h : IsSum(h, e, S) /\ SumFunctionOnSet(e, S) = h[S]
  BY SumIs
<1>3. IsSum(g, f, S) /\ IsSum(h, e, S) /\ S \subseteq S /\ IsFiniteSet(S) /\ Agree(f, e, S)
  BY <1>1, <1>2 DEF Agree
<1>4. \A s \in SUBSET S : g[s] = h[s]
  BY <1>3, SumAgree
<1> QED
  BY <1>1, <1>2, <1>4

LEMMA SumTyped ==
  ASSUME NEW S, IsFiniteSet(S), NEW f, \A x \in S : f[x] \in Int
  PROVE  SumFunctionOnSet(f, S) \in Int
<1>1. PICK g : IsSum(g, f, S) /\ SumFunctionOnSet(f, S) = g[S]
  BY SumIs
<1>2. g[S] \in Int
  BY <1>1, SumAny
<1> QED
  BY <1>1, <1>2

LEMMA SumAdded ==
  ASSUME NEW S, IsFiniteSet(S), NEW x, x \notin S, NEW f, \A y \in S \cup {x} : f[y] \in Int
  PROVE  SumFunctionOnSet(f, S \cup {x}) = SumFunctionOnSet(f, S) + f[x]
<1>1. PICK T : T = S \cup {x}
  OBVIOUS
<1>2. IsFiniteSet(T) /\ T \ {x} = S /\ x \in T /\ S \subseteq T /\ \A y \in T : f[y] \in Int
  BY <1>1, FS_AddElement
<1>3. PICK g : IsSum(g, f, S) /\ SumFunctionOnSet(f, S) = g[S]
  BY SumIs
<1>4. PICK h : IsSum(h, f, T) /\ SumFunctionOnSet(f, T) = h[T]
  BY <1>2, SumIs
<1>5. \A s \in SUBSET S : g[s] = h[s]
  <2>1. IsSum(g, f, S) /\ IsSum(h, f, T)
    BY <1>3, <1>4
  <2>2. IsFiniteSet(T) /\ S \subseteq T /\ Agree(f, f, S)
    BY <1>2 DEF Agree
  <2> QED
    BY <2>1, <2>2, SumAgree
<1>6. \A s \in SUBSET T : h[s] \in Int /\ \A y \in s : h[s] = f[y] + h[s \ {y}]
  BY <1>2, <1>4, SumAny
<1>7. h[T] = f[x] + h[S] /\ g[S] = h[S] /\ h[S] \in Int /\ f[x] \in Int
  BY <1>2, <1>5, <1>6
<1> QED
  BY <1>1, <1>3, <1>4, <1>7

LEMMA SumNat ==
  ASSUME NEW S, IsFiniteSet(S), NEW f, \A x \in S : f[x] \in Nat
  PROVE  SumFunctionOnSet(f, S) \in Nat
<1> DEFINE Bad == {s \in SUBSET S : SumFunctionOnSet(f, s) \notin Nat}
<1>1. SUFFICES ASSUME Bad # {} PROVE FALSE
  OBVIOUS
<1>2. PICK s \in Bad : \A u \in SUBSET s : u # s => u \notin Bad
  <2>1. Bad \in SUBSET SUBSET S
    OBVIOUS
  <2> HIDE DEF Bad
  <2> QED
    BY <1>1, <2>1, Smallest
<1>3. s # {}
  <2>1. SumFunctionOnSet(f, {}) \in Nat
    BY SumEmpty
  <2> QED
    BY <1>2, <2>1
<1>4. PICK x \in s : TRUE
  BY <1>3
<1>5. PICK u : u = s \ {x}
  OBVIOUS
<1>6. u \in SUBSET s /\ u # s /\ s = u \cup {x} /\ x \notin u /\ IsFiniteSet(u) /\ s \in SUBSET S
  BY <1>2, <1>4, <1>5, FS_Subset
<1>7. SumFunctionOnSet(f, u) \in Nat
  BY <1>2, <1>6
<1>8. SumFunctionOnSet(f, u \cup {x}) = SumFunctionOnSet(f, u) + f[x]
  <2>1. \A y \in u \cup {x} : f[y] \in Int
    BY <1>6
  <2> QED
    BY <1>6, <2>1, SumAdded
<1>9. SumFunctionOnSet(f, s) \in Nat
  BY <1>4, <1>6, <1>7, <1>8
<1> QED
  BY <1>2, <1>9

LEMMA SumSplit ==
  ASSUME NEW S, IsFiniteSet(S), NEW f, \A x \in S : f[x] \in Int, NEW T
  PROVE  SumFunctionOnSet(f, S) = SumFunctionOnSet(f, S \cap T) + SumFunctionOnSet(f, S \ T)
<1> DEFINE Splits(s) == SumFunctionOnSet(f, s)
                          = SumFunctionOnSet(f, s \cap T) + SumFunctionOnSet(f, s \ T)
           Bad == {s \in SUBSET S : ~Splits(s)}
<1>1. SUFFICES ASSUME Bad # {} PROVE FALSE
  OBVIOUS
<1>2. PICK s \in Bad : \A u \in SUBSET s : u # s => u \notin Bad
  <2>1. Bad \in SUBSET SUBSET S
    OBVIOUS
  <2> HIDE DEF Bad
  <2> QED
    BY <1>1, <2>1, Smallest
<1>3. s # {}
  <2>1. {} \cap T = {} /\ {} \ T = {}
    OBVIOUS
  <2>2. Splits({})
    BY <2>1, SumEmpty
  <2> QED
    BY <1>2, <2>2
<1>4. PICK x \in s : TRUE
  BY <1>3
<1>5. PICK u : u = s \ {x}
  OBVIOUS
<1>6. /\ u \in SUBSET s /\ u # s /\ s = u \cup {x} /\ x \notin u /\ s \in SUBSET S
      /\ \A y \in s : f[y] \in Int
  BY <1>2, <1>4, <1>5
<1>7. IsFiniteSet(u) /\ IsFiniteSet(u \cap T) /\ IsFiniteSet(u \ T)
  <2>1. u \in SUBSET S /\ u \cap T \in SUBSET S /\ u \ T \in SUBSET S
    BY <1>6
  <2> QED
    BY <2>1, FS_Subset
<1>8. SumFunctionOnSet(f, u) = SumFunctionOnSet(f, u \cap T) + SumFunctionOnSet(f, u \ T)
  BY <1>2, <1>6
<1>9. SumFunctionOnSet(f, s) = SumFunctionOnSet(f, u) + f[x]
  BY <1>6, <1>7, SumAdded
<1>10. SumFunctionOnSet(f, u \cap T) \in Int /\ SumFunctionOnSet(f, u \ T) \in Int /\ f[x] \in Int
  BY <1>6, <1>7, SumTyped
<1>11. CASE x \in T
  <2>1. s \cap T = (u \cap T) \cup {x} /\ s \ T = u \ T /\ x \notin u \cap T
    BY <1>6, <1>11
  <2>2. SumFunctionOnSet(f, (u \cap T) \cup {x}) = SumFunctionOnSet(f, u \cap T) + f[x]
    BY <1>6, <1>7, <2>1, SumAdded
  <2>3. SumFunctionOnSet(f, s \cap T) = SumFunctionOnSet(f, u \cap T) + f[x]
        /\ SumFunctionOnSet(f, s \ T) = SumFunctionOnSet(f, u \ T)
    BY <2>1, <2>2
  <2>4. Splits(s)
    BY <1>8, <1>9, <1>10, <2>3
  <2> QED
    BY <1>2, <2>4
<1>12. CASE x \notin T
  <2>1. s \cap T = u \cap T /\ s \ T = (u \ T) \cup {x} /\ x \notin u \ T
    BY <1>6, <1>12
  <2>2. SumFunctionOnSet(f, (u \ T) \cup {x}) = SumFunctionOnSet(f, u \ T) + f[x]
    BY <1>6, <1>7, <2>1, SumAdded
  <2>3. SumFunctionOnSet(f, s \ T) = SumFunctionOnSet(f, u \ T) + f[x]
        /\ SumFunctionOnSet(f, s \cap T) = SumFunctionOnSet(f, u \cap T)
    BY <2>1, <2>2
  <2>4. Splits(s)
    BY <1>8, <1>9, <1>10, <2>3
  <2> QED
    BY <1>2, <2>4
<1> QED
  BY <1>11, <1>12

-----------------------------------------------------------------------------
(* Structural: engagements and their ledger *)

Errand == [stage : {"idle", "attaching", "depositing", "submitting", "refusing", "asking",
                    "releasing", "cancelling", "detaching", "weighing", "paying", "closing"},
           on : Engagements \cup {None}, set : Nat, used : Nat, stale : BOOLEAN, amount : Nat,
           dispute : StDisputes \cup {None}]
Ruling == [on : Engagements, live : BOOLEAN]

LedgerOf(doc) ==
  /\ doc.status = "AWAITING_ESCROW" => doc.deposited = 0
  /\ doc.status \in LiveStructural => doc.refunded + doc.released + doc.kept = 0
  /\ doc.status = "DRAWINGS_IN_PROGRESS" => doc.deposited = Fee
  /\ doc.status = "COMPLETED" => doc.released + doc.kept = doc.deposited /\ doc.refunded = 0
  /\ doc.status = "CANCELLED" => doc.refunded = doc.deposited /\ doc.released = 0

\* What a request has read still holds of the engagement it is about.
Sound(r) ==
  errand[r].stage # "idle" =>
    /\ errand[r].on \in Engagements /\ engagement[errand[r].on] # None
    /\ errand[r].stage = "submitting" => engagement[errand[r].on].status # "AWAITING_ESCROW"
    /\ errand[r].stage \in {"weighing", "paying", "closing"} =>
         errand[r].dispute \in StDisputes /\ ruling[errand[r].dispute] # None
    /\ errand[r].on \notin crossed =>
         /\ errand[r].stage = "depositing" => engagement[errand[r].on].status = "AWAITING_ESCROW"
         /\ errand[r].stage \in {"asking", "releasing"} =>
              engagement[errand[r].on].status = "DRAWINGS_IN_PROGRESS"
         /\ errand[r].stage = "cancelling" =>
              /\ engagement[errand[r].on].status \in LiveStructural
              /\ errand[r].amount = engagement[errand[r].on].deposited

Pays(r, e) == errand[r].on = e /\ errand[r].stage \in MoneyStages

\* One payment at a time.
PaysAlone ==
  \A e \in Engagements \ crossed : \A q, r \in StRequests : Pays(q, e) /\ Pays(r, e) => q = r

\* Drawings come after the deposit.
DrawingsArePaid ==
  \A e \in Engagements :
    engagement[e] # None /\ engagement[e].status = "AWAITING_ESCROW" => engagement[e].sets = <<>>

RulingsAreAbout == \A d \in StDisputes : ruling[d] # None => engagement[ruling[d].on] # None

StInv ==
  /\ StructuralTypeOK
  /\ \A r \in StRequests : Sound(r)
  /\ PaysAlone
  /\ DrawingsArePaid
  /\ RulingsAreAbout
  /\ LedgerFollowsStatus

-----------------------------------------------------------------------------
(* What the operators return *)

LEMMA NoErrandTyped == NoErrand \in Errand /\ NoErrand.stage = "idle"
BY DEF NoErrand, Errand

LEMMA LoadedTyped ==
  ASSUME NEW e \in Engagements,
         NEW s \in {"attaching", "depositing", "submitting", "refusing", "asking", "releasing",
                    "cancelling", "detaching"}
  PROVE  /\ Loaded(e, s) \in Errand /\ Loaded(e, s).stage = s /\ Loaded(e, s).on = e
BY DEF Loaded, NoErrand, Errand

LEMMA FirstPendingTyped ==
  ASSUME NEW doc \in EngagementDoc PROVE FirstPending(doc) \in Nat
<1> DEFINE I == {i \in 1..Len(doc.sets) : doc.sets[i] = "PENDING_REVIEW"}
<1>1. FirstPending(doc) = IF I # {} THEN Min(I) ELSE 0
  BY DEF FirstPending, SelectInSeq
<1>2. ASSUME I # {} PROVE Min(I) \in Nat
  <2>1. I \subseteq Nat
    BY DEF EngagementDoc
  <2>2. \E n \in I : \A m \in I : n <= m
    BY <1>2, <2>1, Least
  <2> QED
    BY <2>1, <2>2 DEF Min
<1> QED
  BY <1>1, <1>2

LEMMA ReviewingTyped ==
  ASSUME NEW e \in Engagements, engagement[e] \in EngagementDoc,
         NEW s \in {"refusing", "asking"}
  PROVE  Reviewing(e, s) \in Errand /\ Reviewing(e, s).stage = s /\ Reviewing(e, s).on = e
<1>1. FirstPending(engagement[e]) \in Nat
  BY FirstPendingTyped
<1>2. engagement[e].used \in Nat
  BY DEF EngagementDoc
<1>3. Loaded(e, s) \in Errand /\ Loaded(e, s).stage = s /\ Loaded(e, s).on = e
  BY LoadedTyped
<1> QED
  BY <1>1, <1>2, <1>3 DEF Reviewing, Errand

\* Setting an element leaves a sequence of drawing sets one.
LEMMA SetsTyped ==
  ASSUME NEW sets \in Seq(SetStatuses), NEW i, NEW s \in SetStatuses
  PROVE  [sets EXCEPT ![i] = s] \in Seq(SetStatuses)
         /\ (sets = <<>> => [sets EXCEPT ![i] = s] = <<>>)
<1>1. CASE i \in 1..Len(sets)
  BY <1>1, ExceptSeq
<1>2. CASE i \notin 1..Len(sets)
  <2>1. [sets EXCEPT ![i] = s] = [j \in DOMAIN sets |-> sets[j]]
    BY <1>2
  <2>2. sets = [j \in DOMAIN sets |-> sets[j]]
    OBVIOUS
  <2> QED
    BY <2>1, <2>2
<1> QED
  BY <1>1, <1>2

-----------------------------------------------------------------------------
(* The kinds of step *)

LEMMA StructuralBegins == StructuralInit => StInv
<1> SUFFICES ASSUME StructuralInit PROVE StInv
  OBVIOUS
<1>1. NoErrand \in Errand /\ NoErrand.stage = "idle"
  BY NoErrandTyped
<1>2. errand \in [StRequests -> Errand] /\ \A r \in StRequests : errand[r].stage = "idle"
  BY <1>1 DEF StructuralInit
<1>3. StructuralTypeOK
  BY <1>2 DEF StructuralInit, StructuralTypeOK, Errand
<1>4. \A e \in Engagements : engagement[e] = None
  BY DEF StructuralInit
<1>5. \A d \in StDisputes : ruling[d] = None
  BY DEF StructuralInit
<1> QED
  BY <1>2, <1>3, <1>4, <1>5 DEF StInv, Sound, PaysAlone, Pays, MoneyStages, DrawingsArePaid,
     RulingsAreAbout, LedgerFollowsStatus

\* A step of one request that writes neither engagement nor dispute.
LEMMA RequestMoves ==
  ASSUME StInv, NEW r \in StRequests, NEW next \in Errand,
         errand' = [errand EXCEPT ![r] = next],
         UNCHANGED <<engagement, ruling>>,
         engineer' \in Engagements \cup {None},
         crossed \subseteq crossed', crossed' \subseteq Engagements,
         Sound(r)',
         next.stage \in MoneyStages =>
           \/ next.on \in crossed'
           \/ \A q \in StRequests \ {r} : ~Pays(q, next.on)
  PROVE  StInv'
<1>1. errand \in [StRequests -> Errand] /\ errand' \in [StRequests -> Errand]
  BY DEF StInv, StructuralTypeOK, Errand
<1>2. StructuralTypeOK'
  BY <1>1 DEF StInv, StructuralTypeOK, Errand
<1>3. errand'[r] = next /\ \A q \in StRequests \ {r} : errand'[q] = errand[q]
  BY <1>1
<1>4. \A q \in StRequests : Sound(q)'
  BY <1>3 DEF StInv, Sound
<1>5. PaysAlone'
  BY <1>3 DEF StInv, PaysAlone, Pays
<1>6. DrawingsArePaid' /\ RulingsAreAbout'
  BY DEF StInv, DrawingsArePaid, RulingsAreAbout
<1>7. LedgerFollowsStatus'
  BY DEF StInv, LedgerFollowsStatus
<1> QED
  BY <1>2, <1>4, <1>5, <1>6, <1>7 DEF StInv

\* A step of one request that saves its engagement and does no more with money.
LEMMA RequestSaves ==
  ASSUME StInv, NEW r \in StRequests, errand[r].stage # "idle",
         NEW next \in Errand, next.stage \in {"idle", "detaching", "closing"},
         NEW doc \in EngagementDoc,
         engagement' = [engagement EXCEPT ![errand[r].on] = doc],
         errand' \in [StRequests -> Errand], errand'[r] = next,
         \A q \in StRequests \ {r} :
           /\ errand'[q].stage = errand[q].stage /\ errand'[q].on = errand[q].on
           /\ errand'[q].amount = errand[q].amount /\ errand'[q].dispute = errand[q].dispute,
         next.stage # "idle" => next.on = errand[r].on,
         next.stage = "closing" => next.dispute \in StDisputes /\ ruling[next.dispute] # None,
         UNCHANGED <<engineer, ruling>>,
         crossed \subseteq crossed', crossed' \subseteq Engagements,
         doc.status = "AWAITING_ESCROW" =>
           engagement[errand[r].on].status = "AWAITING_ESCROW" /\ doc.sets = <<>>,
         errand[r].on \notin crossed' => LedgerOf(doc),
         \/ errand[r].stage \in MoneyStages
         \/ doc.status = engagement[errand[r].on].status
            /\ doc.deposited = engagement[errand[r].on].deposited
  PROVE  StInv'
<1> DEFINE e == errand[r].on
<1>1. e \in Engagements /\ engagement[e] # None
  BY DEF StInv, Sound
<1>2. engagement \in [Engagements -> EngagementDoc \cup {None}]
      /\ engagement' \in [Engagements -> EngagementDoc \cup {None}]
  BY <1>1 DEF StInv, StructuralTypeOK
<1>3. engagement'[e] = doc /\ doc # None
      /\ \A f \in Engagements \ {e} : engagement'[f] = engagement[f]
  BY <1>1, <1>2, StructuralAssumption
<1>4. StructuralTypeOK'
  BY <1>2 DEF StInv, StructuralTypeOK, Errand
<1>5. ASSUME NEW q \in StRequests PROVE Sound(q)'
  <2>1. CASE q = r
    BY <1>1, <1>3, <2>1 DEF Sound
  <2>2. CASE q # r /\ errand[q].on # e
    BY <1>3, <2>2 DEF StInv, Sound
  <2>3. CASE q # r /\ errand[q].on = e
    <3>1. /\ errand'[q].stage = errand[q].stage /\ errand'[q].on = e
          /\ errand'[q].amount = errand[q].amount /\ errand'[q].dispute = errand[q].dispute
      BY <2>3
    <3>2. ASSUME e \notin crossed', errand[q].stage \in MoneyStages
          PROVE  doc.status = engagement[e].status /\ doc.deposited = engagement[e].deposited
      BY <1>1, <2>3, <3>2 DEF StInv, PaysAlone, Pays
    <3> HIDE DEF e
    <3>3. e = errand[r].on BY DEF e
    <3> QED
      BY <1>1, <1>3, <2>3, <3>1, <3>2, <3>3 DEF StInv, Sound, MoneyStages
  <2> QED
    BY <2>1, <2>2, <2>3
<1>6. PaysAlone'
  <2>1. \A q \in StRequests, f \in Engagements : Pays(q, f)' => q # r /\ Pays(q, f)
    BY DEF Pays, MoneyStages
  <2> QED
    BY <2>1 DEF StInv, PaysAlone
<1>7. DrawingsArePaid'
  BY <1>3 DEF StInv, DrawingsArePaid
<1>8. RulingsAreAbout'
  BY <1>3 DEF StInv, RulingsAreAbout, StructuralTypeOK
<1>9. LedgerFollowsStatus'
  <2> SUFFICES ASSUME NEW f \in Engagements \ crossed', engagement'[f] # None
               PROVE  LedgerOf(engagement'[f])
    BY DEF LedgerFollowsStatus, LedgerOf
  <2>1. CASE f = e
    BY <1>3, <2>1
  <2>2. CASE f # e
    <3>1. engagement'[f] = engagement[f]
      BY <1>3, <2>2
    <3>2. LedgerOf(engagement[f])
      BY <3>1 DEF StInv, LedgerFollowsStatus, LedgerOf
    <3> QED
      BY <3>1, <3>2
  <2> QED
    BY <2>1, <2>2
<1> QED
  BY <1>4, <1>5, <1>6, <1>7, <1>8, <1>9 DEF StInv

-----------------------------------------------------------------------------
(* The actions *)

\* What a request whose engagement is known may use.
LEMMA Underway ==
  ASSUME StInv, NEW r \in StRequests, errand[r].stage # "idle"
  PROVE  /\ errand[r] \in Errand
         /\ errand[r].on \in Engagements
         /\ engagement[errand[r].on] \in EngagementDoc
         /\ LedgerOf(engagement[errand[r].on]) \/ errand[r].on \in crossed
         /\ crossed \subseteq Engagements /\ engineer \in Engagements \cup {None}
BY DEF StInv, StructuralTypeOK, Errand, Sound, LedgerFollowsStatus, LedgerOf

\* What a request that begins may use.
LEMMA Opened ==
  ASSUME StInv, NEW e \in Engagements, engagement[e] # None
  PROVE  /\ engagement[e] \in EngagementDoc
         /\ crossed \subseteq Engagements /\ engineer \in Engagements \cup {None}
BY DEF StInv, StructuralTypeOK

LEMMA CrossingMarked ==
  ASSUME StInv, NEW r \in StRequests, NEW e \in Engagements, MarkCrossing(r, e)
  PROVE  /\ crossed \subseteq crossed' /\ crossed' \subseteq Engagements
         /\ e \in crossed' \/ \A q \in StRequests \ {r} : ~Pays(q, e)
BY DEF MarkCrossing, Pays, StInv, StructuralTypeOK

\* A request that ends, or goes on, without having written.
LEMMA RequestEnds ==
  ASSUME StInv, NEW r \in StRequests, Ends(r), UNCHANGED <<engagement, ruling, crossed>>,
         engineer' \in Engagements \cup {None}
  PROVE  StInv'
<1>1. errand' = [errand EXCEPT ![r] = NoErrand]
  BY DEF Ends
<1>2. crossed \subseteq Engagements /\ errand \in [StRequests -> Errand]
  BY DEF StInv, StructuralTypeOK, Errand
<1>3. errand'[r].stage = "idle"
  BY <1>1, <1>2, NoErrandTyped
<1>4. Sound(r)'
  BY <1>3 DEF Sound
<1>5. NoErrand.stage \notin MoneyStages
  BY NoErrandTyped DEF MoneyStages
<1> QED
  BY <1>1, <1>2, <1>4, <1>5, NoErrandTyped, RequestMoves

LEMMA PushesTyped ==
  ASSUME StInv, NEW r \in StRequests, NEW next \in Errand, Pushes(r, next)
  PROVE  /\ errand' \in [StRequests -> Errand] /\ errand'[r] = next
         /\ \A q \in StRequests \ {r} :
              /\ errand'[q].stage = errand[q].stage /\ errand'[q].on = errand[q].on
              /\ errand'[q].amount = errand[q].amount /\ errand'[q].dispute = errand[q].dispute
<1>1. errand \in [StRequests -> Errand]
  BY DEF StInv, StructuralTypeOK, Errand
<1>2. \A q \in StRequests :
        LET x == [errand[q] EXCEPT !.stale = TRUE] IN
        /\ x \in Errand /\ x.stage = errand[q].stage /\ x.on = errand[q].on
        /\ x.amount = errand[q].amount /\ x.dispute = errand[q].dispute
  BY <1>1 DEF Errand
<1> QED
  BY <1>1, <1>2 DEF Pushes

LEMMA AppointKeeps ==
  ASSUME StInv, NEW r \in StRequests, NEW e \in Engagements, Appoint(r, e) PROVE StInv'
<1> DEFINE next == [NoErrand EXCEPT !.stage = "attaching", !.on = e]
           doc == [status |-> "AWAITING_ESCROW", sets |-> <<>>, used |-> 0,
                   deposited |-> 0, refunded |-> 0, released |-> 0, kept |-> 0]
<1>1. next \in Errand /\ next.stage = "attaching" /\ next.on = e
  BY DEF NoErrand, Errand
<1>2. doc \in EngagementDoc
  BY DEF EngagementDoc, StructuralStatus
<1>3. /\ doc.status = "AWAITING_ESCROW" /\ doc.sets = <<>> /\ LedgerOf(doc) /\ doc # None
  BY <1>2, StructuralAssumption DEF LedgerOf, LiveStructural
<1> HIDE DEF next, doc
<1>4. /\ errand[r].stage = "idle" /\ engagement[e] = None
      /\ engagement' = [engagement EXCEPT ![e] = doc]
      /\ errand' = [errand EXCEPT ![r] = next]
      /\ UNCHANGED <<engineer, ruling, crossed>>
  BY DEF Appoint, next, doc
<1>5. /\ engagement \in [Engagements -> EngagementDoc \cup {None}]
      /\ engagement' \in [Engagements -> EngagementDoc \cup {None}]
      /\ errand \in [StRequests -> Errand] /\ errand' \in [StRequests -> Errand]
  BY <1>1, <1>2, <1>4 DEF StInv, StructuralTypeOK, Errand
<1>6. StructuralTypeOK'
  BY <1>4, <1>5 DEF StInv, StructuralTypeOK, Errand
<1>7. /\ engagement'[e] = doc /\ \A f \in Engagements \ {e} : engagement'[f] = engagement[f]
      /\ errand'[r] = next /\ \A q \in StRequests \ {r} : errand'[q] = errand[q]
  BY <1>4, <1>5
<1>8. ASSUME NEW q \in StRequests PROVE Sound(q)'
  <2>1. CASE q = r
    BY <1>1, <1>3, <1>7, <2>1 DEF Sound
  <2>2. CASE q # r
    BY <1>4, <1>7, <2>2 DEF StInv, Sound
  <2> QED
    BY <2>1, <2>2
<1>9. PaysAlone'
  BY <1>1, <1>4, <1>7 DEF StInv, PaysAlone, Pays, MoneyStages
<1>10. DrawingsArePaid' /\ RulingsAreAbout'
  BY <1>3, <1>4, <1>7 DEF StInv, DrawingsArePaid, RulingsAreAbout, StructuralTypeOK
<1>11. LedgerFollowsStatus'
  <2> SUFFICES ASSUME NEW f \in Engagements \ crossed', engagement'[f] # None
               PROVE  LedgerOf(engagement'[f])
    BY DEF LedgerFollowsStatus, LedgerOf
  <2>1. CASE f = e
    BY <1>3, <1>7, <2>1
  <2>2. CASE f # e
    <3>1. engagement'[f] = engagement[f]
      BY <1>7, <2>2
    <3>2. LedgerOf(engagement[f])
      BY <1>4, <3>1 DEF StInv, LedgerFollowsStatus, LedgerOf
    <3> QED
      BY <3>1, <3>2
  <2> QED
    BY <2>1, <2>2
<1> QED
  BY <1>6, <1>8, <1>9, <1>10, <1>11 DEF StInv

\* A request that begins with Loaded or Reviewing.
LEMMA RequestBegins ==
  ASSUME StInv, NEW r \in StRequests, NEW e \in Engagements, NEW next \in Errand,
         Sends(r, e, next), next.on = e, UNCHANGED <<engagement, engineer, ruling>>,
         crossed \subseteq crossed', crossed' \subseteq Engagements,
         next.stage \in {"depositing", "submitting", "refusing", "asking", "cancelling"},
         next.stage = "submitting" => engagement[e].status # "AWAITING_ESCROW",
         e \notin crossed' =>
           /\ next.stage = "depositing" => engagement[e].status = "AWAITING_ESCROW"
           /\ next.stage = "asking" => engagement[e].status = "DRAWINGS_IN_PROGRESS"
           /\ next.stage = "cancelling" => /\ engagement[e].status \in LiveStructural
                                           /\ next.amount = engagement[e].deposited,
         next.stage \in MoneyStages => e \in crossed' \/ \A q \in StRequests \ {r} : ~Pays(q, e)
  PROVE  StInv'
<1>1. engagement[e] # None /\ errand' = [errand EXCEPT ![r] = next]
  BY DEF Sends
<1>2. errand \in [StRequests -> Errand] /\ engineer' \in Engagements \cup {None}
  BY DEF StInv, StructuralTypeOK, Errand
<1>3. errand'[r] = next
  BY <1>1, <1>2
<1>4. Sound(r)'
  BY <1>1, <1>3 DEF Sound
<1> QED
  BY <1>1, <1>2, <1>4, RequestMoves

LEMMA FundFeeKeeps ==
  ASSUME StInv, NEW r \in StRequests, NEW e \in Engagements, FundFee(r, e) PROVE StInv'
<1>1. /\ Sends(r, e, Loaded(e, "depositing")) /\ engagement[e].status = "AWAITING_ESCROW"
      /\ MarkCrossing(r, e) /\ UNCHANGED <<engagement, engineer, ruling>>
  BY DEF FundFee
<1>2. /\ Loaded(e, "depositing") \in Errand /\ Loaded(e, "depositing").stage = "depositing"
      /\ Loaded(e, "depositing").on = e
  BY LoadedTyped
<1> QED
  BY <1>1, <1>2, CrossingMarked, RequestBegins

LEMMA SubmitDrawingsKeeps ==
  ASSUME StInv, NEW r \in StRequests, NEW e \in Engagements, SubmitDrawings(r, e) PROVE StInv'
<1>1. /\ Sends(r, e, Loaded(e, "submitting")) /\ engagement[e].status = "DRAWINGS_IN_PROGRESS"
      /\ UNCHANGED <<engagement, engineer, ruling, crossed>>
  BY DEF SubmitDrawings
<1>2. /\ Loaded(e, "submitting") \in Errand /\ Loaded(e, "submitting").stage = "submitting"
      /\ Loaded(e, "submitting").on = e
  BY LoadedTyped
<1>3. crossed \subseteq Engagements
  BY DEF StInv, StructuralTypeOK
<1> QED
  BY <1>1, <1>2, <1>3, RequestBegins DEF MoneyStages

LEMMA RefuseDrawingsKeeps ==
  ASSUME StInv, NEW r \in StRequests, NEW e \in Engagements, RefuseDrawings(r, e) PROVE StInv'
<1>1. /\ Sends(r, e, Reviewing(e, "refusing")) /\ engagement[e] # None
      /\ UNCHANGED <<engagement, engineer, ruling, crossed>>
  BY DEF RefuseDrawings, Sends
<1>2. engagement[e] \in EngagementDoc /\ crossed \subseteq Engagements
  BY <1>1, Opened
<1>3. /\ Reviewing(e, "refusing") \in Errand /\ Reviewing(e, "refusing").stage = "refusing"
      /\ Reviewing(e, "refusing").on = e
  BY <1>2, ReviewingTyped
<1> QED
  BY <1>1, <1>2, <1>3, RequestBegins DEF MoneyStages

LEMMA ApproveDrawingsKeeps ==
  ASSUME StInv, NEW r \in StRequests, NEW e \in Engagements, ApproveDrawings(r, e) PROVE StInv'
<1>1. /\ Sends(r, e, Reviewing(e, "asking")) /\ engagement[e] # None
      /\ PendingSet(engagement[e]) /\ UNCHANGED <<engagement, engineer, ruling>>
  BY DEF ApproveDrawings, Sends
<1>2. engagement[e] \in EngagementDoc /\ crossed \subseteq Engagements
  BY <1>1, Opened
<1>3. /\ Reviewing(e, "asking") \in Errand /\ Reviewing(e, "asking").stage = "asking"
      /\ Reviewing(e, "asking").on = e
  BY <1>2, ReviewingTyped
<1>4. /\ crossed \subseteq crossed' /\ crossed' \subseteq Engagements
      /\ e \in crossed' \/ \A q \in StRequests \ {r} : ~Pays(q, e)
      /\ e \in crossed' \/ engagement[e].status \in LiveStructural
  BY <1>2 DEF ApproveDrawings, Pays
<1>5. engagement[e].sets # <<>>
  BY <1>1 DEF PendingSet
<1>6. engagement[e].status # "AWAITING_ESCROW"
  BY <1>1, <1>5 DEF StInv, DrawingsArePaid
<1>7. e \in crossed' \/ engagement[e].status = "DRAWINGS_IN_PROGRESS"
  BY <1>4, <1>6 DEF LiveStructural
<1> QED
  BY <1>1, <1>3, <1>4, <1>7, RequestBegins

LEMMA CancelEngagementKeeps ==
  ASSUME StInv, NEW r \in StRequests, NEW e \in Engagements, CancelEngagement(r, e) PROVE StInv'
<1> DEFINE next == [Loaded(e, "cancelling") EXCEPT !.amount = engagement[e].deposited]
<1>1. /\ Sends(r, e, next) /\ engagement[e] # None /\ engagement[e].status \in LiveStructural
      /\ MarkCrossing(r, e) /\ UNCHANGED <<engagement, engineer, ruling>>
  BY DEF CancelEngagement, Sends
<1>2. engagement[e].deposited \in Nat
  BY <1>1, Opened DEF EngagementDoc
<1>3. /\ Loaded(e, "cancelling") \in Errand /\ Loaded(e, "cancelling").stage = "cancelling"
      /\ Loaded(e, "cancelling").on = e
  BY LoadedTyped
<1>4. /\ next \in Errand /\ next.stage = "cancelling" /\ next.on = e
      /\ next.amount = engagement[e].deposited
  BY <1>2, <1>3 DEF Errand
<1> HIDE DEF next
<1> QED
  BY <1>1, <1>4, CrossingMarked, RequestBegins

LEMMA AskFrozenKeeps ==
  ASSUME StInv, NEW r \in StRequests, AskFrozen(r) PROVE StInv'
<1>1. errand[r].stage = "asking" /\ UNCHANGED <<engagement, engineer, ruling, crossed>>
  BY DEF AskFrozen
<1>2. /\ errand[r] \in Errand /\ crossed \subseteq Engagements
      /\ engineer \in Engagements \cup {None}
  BY <1>1, Underway
<1>3. CASE Ends(r)
  BY <1>1, <1>2, <1>3, RequestEnds
<1>4. CASE Goes(r, "releasing")
  <2> DEFINE next == [errand[r] EXCEPT !.stage = "releasing", !.amount = 0]
  <2>1. next \in Errand /\ next.stage = "releasing" /\ next.on = errand[r].on
    BY <1>2 DEF Errand
  <2>2. errand' = [errand EXCEPT ![r] = next]
    BY <1>4 DEF Goes
  <2> HIDE DEF next
  <2>3. errand'[r] = next
    BY <2>2 DEF StInv, StructuralTypeOK
  <2>4. Sound(r)'
    BY <1>1, <2>1, <2>3 DEF StInv, Sound
  <2>5. errand[r].on \in crossed \/ \A q \in StRequests \ {r} : ~Pays(q, errand[r].on)
    BY <1>1, Underway DEF StInv, PaysAlone, Pays, MoneyStages
  <2> QED
    BY <1>1, <1>2, <2>1, <2>2, <2>4, <2>5, RequestMoves
<1> QED
  BY <1>3, <1>4 DEF AskFrozen

LEMMA ResolveRulingKeeps ==
  ASSUME StInv, NEW r \in StRequests, NEW d \in StDisputes, ResolveRuling(r, d) PROVE StInv'
<1> DEFINE next == [NoErrand EXCEPT !.stage = "weighing", !.on = ruling[d].on, !.dispute = d]
<1>1. /\ ruling[d] # None /\ errand' = [errand EXCEPT ![r] = next]
      /\ MarkCrossing(r, ruling[d].on) /\ UNCHANGED <<engagement, engineer, ruling>>
  BY DEF ResolveRuling
<1>2. /\ ruling[d].on \in Engagements /\ engagement[ruling[d].on] # None
      /\ engineer \in Engagements \cup {None}
  BY <1>1 DEF StInv, RulingsAreAbout, StructuralTypeOK
<1>3. /\ next \in Errand /\ next.stage = "weighing" /\ next.on = ruling[d].on
      /\ next.dispute = d
  BY <1>2 DEF NoErrand, Errand
<1> HIDE DEF next
<1>4. errand'[r] = next
  BY <1>1 DEF StInv, StructuralTypeOK
<1>5. Sound(r)'
  BY <1>1, <1>2, <1>3, <1>4 DEF Sound
<1> QED
  BY <1>1, <1>2, <1>3, <1>5, CrossingMarked, RequestMoves

LEMMA WeighHeldKeeps ==
  ASSUME StInv, NEW r \in StRequests, WeighHeld(r) PROVE StInv'
<1> DEFINE doc == engagement[errand[r].on]
           next == [errand[r] EXCEPT !.stage = "paying", !.amount = HeldIn(doc)]
<1>1. /\ errand[r].stage = "weighing" /\ errand' = [errand EXCEPT ![r] = next]
      /\ UNCHANGED <<engagement, engineer, ruling, crossed>>
  BY DEF WeighHeld
<1>2. /\ errand[r] \in Errand /\ doc \in EngagementDoc /\ crossed \subseteq Engagements
      /\ engineer \in Engagements \cup {None}
  BY <1>1, Underway
<1>3. HeldIn(doc) \in Nat
  <2> HIDE DEF doc
  <2> QED BY <1>2 DEF HeldIn, EngagementDoc
<1> HIDE DEF doc
<1>4. /\ next \in Errand /\ next.stage = "paying" /\ next.on = errand[r].on
      /\ next.dispute = errand[r].dispute
  BY <1>2, <1>3 DEF Errand
<1> HIDE DEF next
<1>5. errand'[r] = next
  BY <1>1 DEF StInv, StructuralTypeOK
<1>6. Sound(r)'
  BY <1>1, <1>4, <1>5 DEF StInv, Sound
<1>7. errand[r].on \in crossed \/ \A q \in StRequests \ {r} : ~Pays(q, errand[r].on)
  BY <1>1, Underway DEF StInv, PaysAlone, Pays, MoneyStages
<1> QED
  BY <1>1, <1>2, <1>4, <1>6, <1>7, RequestMoves

LEMMA SaveFeeKeeps ==
  ASSUME StInv, NEW r \in StRequests, SaveFee(r) PROVE StInv'
<1> DEFINE was == engagement[errand[r].on]
<1>1. /\ errand[r].stage = "depositing"
      /\ engagement' = [engagement EXCEPT ![errand[r].on] = Deposited(was)]
      /\ Pushes(r, NoErrand) /\ UNCHANGED <<engineer, ruling, crossed>>
  BY DEF SaveFee, Save
<1>2. /\ was \in EngagementDoc
      /\ LedgerOf(was) \/ errand[r].on \in crossed
      /\ crossed \subseteq Engagements
  BY <1>1, Underway
<1>3. errand[r].on \notin crossed => was.status = "AWAITING_ESCROW"
  BY <1>1 DEF StInv, Sound
<1> HIDE DEF was
<1> DEFINE deposited == was.deposited + Fee
           doc == [was EXCEPT !.status = "DRAWINGS_IN_PROGRESS", !.deposited = deposited]
<1>4. deposited \in Nat
  BY <1>2 DEF EngagementDoc, Fee
<1>5. engagement' = [engagement EXCEPT ![errand[r].on] = doc]
  BY <1>1 DEF Deposited
<1>6. errand[r].on \notin crossed => deposited = Fee
  BY <1>2, <1>3 DEF LedgerOf, Fee
<1> HIDE DEF deposited
<1>7. /\ doc \in EngagementDoc /\ doc.status = "DRAWINGS_IN_PROGRESS" /\ doc.deposited = deposited
      /\ doc.refunded = was.refunded /\ doc.released = was.released /\ doc.kept = was.kept
  BY <1>2, <1>4 DEF EngagementDoc, StructuralStatus
<1> HIDE DEF doc
<1>8. errand[r].on \notin crossed => LedgerOf(doc)
  BY <1>2, <1>3, <1>6, <1>7 DEF LedgerOf, LiveStructural
<1>9. errand[r].stage \in MoneyStages /\ errand[r].stage # "idle"
  BY <1>1 DEF MoneyStages
<1>10. doc.status # "AWAITING_ESCROW"
  BY <1>7
<1>11. /\ errand' \in [StRequests -> Errand] /\ errand'[r] = NoErrand
       /\ \A q \in StRequests \ {r} :
            /\ errand'[q].stage = errand[q].stage /\ errand'[q].on = errand[q].on
            /\ errand'[q].amount = errand[q].amount /\ errand'[q].dispute = errand[q].dispute
  BY <1>1, NoErrandTyped, PushesTyped
<1>12. /\ doc \in EngagementDoc /\ UNCHANGED <<engineer, ruling, crossed>>
       /\ crossed \subseteq crossed' /\ crossed' \subseteq Engagements
  BY <1>1, <1>2, <1>7
<1> QED
  BY <1>5, <1>8, <1>9, <1>10, <1>11, <1>12, NoErrandTyped, RequestSaves

LEMMA SaveDrawingsKeeps ==
  ASSUME StInv, NEW r \in StRequests, SaveDrawings(r) PROVE StInv'
<1> DEFINE was == engagement[errand[r].on]
           doc == [was EXCEPT !.sets = Append(was.sets, "PENDING_REVIEW")]
<1>1. /\ errand[r].stage = "submitting" /\ engagement' = [engagement EXCEPT ![errand[r].on] = doc]
      /\ Pushes(r, NoErrand) /\ UNCHANGED <<engineer, ruling, crossed>>
  BY DEF SaveDrawings, Save
<1>2. /\ was \in EngagementDoc
      /\ LedgerOf(was) \/ errand[r].on \in crossed
      /\ crossed \subseteq Engagements
  BY <1>1, Underway
<1>3. was.status # "AWAITING_ESCROW"
  BY <1>1 DEF StInv, Sound
<1>4. Append(was.sets, "PENDING_REVIEW") \in Seq(SetStatuses)
  <2>1. was.sets \in Seq(SetStatuses)
    BY <1>2 DEF EngagementDoc
  <2> QED
    BY <2>1 DEF SetStatuses
<1>5. doc \in EngagementDoc
  BY <1>2, <1>4 DEF EngagementDoc
<1>6. /\ doc.status = was.status /\ doc.deposited = was.deposited /\ doc.refunded = was.refunded
      /\ doc.released = was.released /\ doc.kept = was.kept
  BY <1>2 DEF EngagementDoc
<1> HIDE DEF doc
<1>7. errand[r].on \notin crossed => LedgerOf(doc)
  BY <1>2, <1>6 DEF LedgerOf
<1> QED
  BY <1>1, <1>2, <1>3, <1>5, <1>6, <1>7, NoErrandTyped, PushesTyped, RequestSaves

LEMMA SaveChangesKeeps ==
  ASSUME StInv, NEW r \in StRequests, SaveChanges(r) PROVE StInv'
<1> DEFINE was == engagement[errand[r].on]
           sets == [was.sets EXCEPT ![errand[r].set] = "CHANGES_REQUESTED"]
           used == errand[r].used + 1
           doc == [was EXCEPT !.sets = sets, !.used = used]
<1>1. /\ errand[r].stage = "refusing" /\ Ends(r) /\ UNCHANGED <<engineer, ruling, crossed>>
  BY DEF SaveChanges
<1>2. /\ was \in EngagementDoc
      /\ LedgerOf(was) \/ errand[r].on \in crossed
      /\ crossed \subseteq Engagements /\ engineer \in Engagements \cup {None}
      /\ errand[r] \in Errand
  BY <1>1, Underway
<1>3. CASE UNCHANGED engagement
  BY <1>1, <1>2, <1>3, RequestEnds
<1>4. CASE engagement' = [engagement EXCEPT ![errand[r].on] = doc]
  <2>1. was.sets \in Seq(SetStatuses) /\ "CHANGES_REQUESTED" \in SetStatuses
    BY <1>2 DEF EngagementDoc, SetStatuses
  <2>2. sets \in Seq(SetStatuses) /\ (was.sets = <<>> => sets = <<>>)
    BY <2>1, SetsTyped
  <2>3. used \in Nat
    BY <1>2 DEF Errand
  <2> HIDE DEF sets, used
  <2>4. doc \in EngagementDoc
    BY <1>2, <2>2, <2>3 DEF EngagementDoc
  <2>5. /\ doc.status = was.status /\ doc.deposited = was.deposited /\ doc.refunded = was.refunded
        /\ doc.released = was.released /\ doc.kept = was.kept /\ doc.sets = sets
    BY <1>2 DEF EngagementDoc
  <2> HIDE DEF doc
  <2>6. errand[r].on \notin crossed => LedgerOf(doc)
    BY <1>2, <2>5 DEF LedgerOf
  <2>7. doc.status = "AWAITING_ESCROW" => was.status = "AWAITING_ESCROW" /\ doc.sets = <<>>
    <3>1. errand[r].on \in Engagements /\ was # None
      BY <1>1 DEF StInv, Sound
    <3> QED
      BY <2>2, <2>5, <3>1 DEF StInv, DrawingsArePaid
  <2>8. errand' = [errand EXCEPT ![r] = NoErrand]
    BY <1>1 DEF Ends
  <2>9. errand \in [StRequests -> Errand]
    BY DEF StInv, StructuralTypeOK, Errand
  <2>10. /\ errand' \in [StRequests -> Errand] /\ errand'[r] = NoErrand
        /\ \A q \in StRequests \ {r} : errand'[q] = errand[q]
    BY <2>8, <2>9, NoErrandTyped
  <2> QED
    BY <1>1, <1>2, <1>4, <2>4, <2>5, <2>6, <2>7, <2>10, NoErrandTyped, RequestSaves
<1> QED
  BY <1>3, <1>4 DEF SaveChanges, Save

LEMMA SaveApprovalKeeps ==
  ASSUME StInv, NEW r \in StRequests, SaveApproval(r) PROVE StInv'
<1> DEFINE was == engagement[errand[r].on]
           sets == [was.sets EXCEPT ![errand[r].set] = "APPROVED"]
           released == was.released + (Fee - Commission)
           doc == [was EXCEPT !.sets = sets, !.status = "COMPLETED", !.kept = Commission,
                              !.released = released]
<1>1. /\ errand[r].stage = "releasing" /\ engagement' = [engagement EXCEPT ![errand[r].on] = doc]
      /\ Pushes(r, NoErrand) /\ UNCHANGED <<engineer, ruling, crossed>>
  BY DEF SaveApproval, Save
<1>2. /\ was \in EngagementDoc
      /\ LedgerOf(was) \/ errand[r].on \in crossed
      /\ crossed \subseteq Engagements
  BY <1>1, Underway
<1>3. errand[r].on \notin crossed => was.status = "DRAWINGS_IN_PROGRESS"
  BY <1>1 DEF StInv, Sound
<1>4. was.sets \in Seq(SetStatuses) /\ "APPROVED" \in SetStatuses
  BY <1>2 DEF EngagementDoc, SetStatuses
<1>5. sets \in Seq(SetStatuses)
  BY <1>4, SetsTyped
<1> HIDE DEF sets, was
<1>6. released \in Nat /\ Commission \in Nat /\ (was.released = 0 => released = Fee - Commission)
  BY <1>2 DEF EngagementDoc, Fee, Commission
<1> HIDE DEF released
<1>7. /\ doc \in EngagementDoc /\ doc.status = "COMPLETED" /\ doc.kept = Commission
      /\ doc.released = released /\ doc.deposited = was.deposited
      /\ doc.refunded = was.refunded
  BY <1>2, <1>5, <1>6 DEF EngagementDoc, StructuralStatus
<1> HIDE DEF doc
<1>8. errand[r].on \notin crossed => LedgerOf(doc)
  <2> SUFFICES ASSUME errand[r].on \notin crossed PROVE LedgerOf(doc)
    OBVIOUS
  <2>1. /\ was.status = "DRAWINGS_IN_PROGRESS" /\ was.deposited = Fee
        /\ was.refunded + was.released + was.kept = 0
    BY <1>2, <1>3 DEF LedgerOf, LiveStructural
  <2>2. was.refunded \in Nat /\ was.released \in Nat /\ was.kept \in Nat
    BY <1>2 DEF EngagementDoc
  <2>3. was.refunded = 0 /\ was.released = 0
    BY <2>1, <2>2
  <2> QED
    BY <1>7, <1>6, <2>1, <2>3 DEF LedgerOf, LiveStructural, Fee, Commission
<1> QED
  BY <1>1, <1>2, <1>7, <1>8, NoErrandTyped, PushesTyped, RequestSaves DEF MoneyStages

LEMMA SaveCancellationKeeps ==
  ASSUME StInv, NEW r \in StRequests, SaveCancellation(r) PROVE StInv'
<1> DEFINE was == engagement[errand[r].on]
           next == Loaded(errand[r].on, "detaching")
           refunded == was.refunded + errand[r].amount
           doc == [was EXCEPT !.status = "CANCELLED", !.refunded = refunded]
<1>1. /\ errand[r].stage = "cancelling" /\ engagement' = [engagement EXCEPT ![errand[r].on] = doc]
      /\ Pushes(r, next) \/ errand' = [errand EXCEPT ![r] = next]
      /\ UNCHANGED <<engineer, ruling, crossed>>
  BY DEF SaveCancellation, Save
<1>2. /\ was \in EngagementDoc
      /\ LedgerOf(was) \/ errand[r].on \in crossed
      /\ crossed \subseteq Engagements /\ errand[r] \in Errand /\ errand[r].on \in Engagements
  BY <1>1, Underway
<1>3. errand[r].on \notin crossed =>
        was.status \in LiveStructural /\ errand[r].amount = was.deposited
  BY <1>1 DEF StInv, Sound
<1>4. next \in Errand /\ next.stage = "detaching" /\ next.on = errand[r].on
  BY <1>2, LoadedTyped
<1> HIDE DEF was, next
<1>5. refunded \in Nat /\ (was.refunded = 0 => refunded = errand[r].amount)
  BY <1>2 DEF Errand, EngagementDoc
<1> HIDE DEF refunded
<1>6. /\ doc \in EngagementDoc /\ doc.status = "CANCELLED" /\ doc.deposited = was.deposited
      /\ doc.refunded = refunded /\ doc.released = was.released
  BY <1>2, <1>5 DEF EngagementDoc, StructuralStatus
<1> HIDE DEF doc
<1>7. errand[r].on \notin crossed => LedgerOf(doc)
  <2> SUFFICES ASSUME errand[r].on \notin crossed PROVE LedgerOf(doc)
    OBVIOUS
  <2>1. was.refunded + was.released + was.kept = 0 /\ errand[r].amount = was.deposited
    BY <1>2, <1>3 DEF LedgerOf
  <2>2. was.refunded \in Nat /\ was.released \in Nat /\ was.kept \in Nat /\ was.deposited \in Nat
    BY <1>2 DEF EngagementDoc
  <2>3. was.refunded = 0 /\ was.released = 0
    BY <2>1, <2>2
  <2> QED
    BY <1>5, <1>6, <2>1, <2>2, <2>3 DEF LedgerOf, LiveStructural
<1>8. /\ errand' \in [StRequests -> Errand] /\ errand'[r] = next
      /\ \A q \in StRequests \ {r} :
           /\ errand'[q].stage = errand[q].stage /\ errand'[q].on = errand[q].on
           /\ errand'[q].amount = errand[q].amount /\ errand'[q].dispute = errand[q].dispute
  <2>1. CASE Pushes(r, next)
    BY <1>4, <2>1, PushesTyped
  <2>2. CASE errand' = [errand EXCEPT ![r] = next]
    <3>1. errand \in [StRequests -> Errand]
      BY DEF StInv, StructuralTypeOK, Errand
    <3> QED
      BY <1>4, <2>2, <3>1
  <2> QED
    BY <1>1, <2>1, <2>2
<1> QED
  BY <1>1, <1>2, <1>4, <1>6, <1>7, <1>8, RequestSaves DEF MoneyStages

LEMMA PayRulingKeeps ==
  ASSUME StInv, NEW r \in StRequests, PayRuling(r) PROVE StInv'
<1> DEFINE was == engagement[errand[r].on]
           next == [errand[r] EXCEPT !.stage = "closing", !.amount = 0]
<1> DEFINE Paid(refund, release) ==
  /\ engagement' = [engagement EXCEPT ![errand[r].on] =
       [was EXCEPT !.refunded = was.refunded + refund, !.released = was.released + release]]
  /\ crossed' = IF refund + release > 0 THEN crossed \cup {errand[r].on} ELSE crossed
<1>1. PICK refund \in 0..errand[r].amount :
        \E release \in {0, errand[r].amount - refund} : Paid(refund, release)
  BY DEF PayRuling, Save
<1>2. PICK release \in {0, errand[r].amount - refund} : Paid(refund, release)
  BY <1>1
<1>3. /\ errand[r].stage = "paying" /\ errand' = [errand EXCEPT ![r] = next]
      /\ UNCHANGED <<engineer, ruling>>
  BY DEF PayRuling, Goes
<1>4. /\ was \in EngagementDoc
      /\ LedgerOf(was) \/ errand[r].on \in crossed
      /\ crossed \subseteq Engagements /\ errand[r] \in Errand /\ errand[r].on \in Engagements
  BY <1>3, Underway
<1>5. /\ next \in Errand /\ next.stage = "closing" /\ next.on = errand[r].on
      /\ next.dispute = errand[r].dispute
  BY <1>4 DEF Errand
<1>6. next.dispute \in StDisputes /\ ruling[next.dispute] # None
  BY <1>3, <1>5 DEF StInv, Sound
<1>7. was.status = "AWAITING_ESCROW" => was.sets = <<>>
  BY <1>3 DEF StInv, Sound, DrawingsArePaid
<1> HIDE DEF was, next
<1> DEFINE refunded == was.refunded + refund
           released == was.released + release
           doc == [was EXCEPT !.refunded = refunded, !.released = released]
<1>8. errand[r].amount \in Nat
  BY <1>4 DEF Errand
<1>9. refund \in Nat /\ release \in Nat
  BY <1>8
<1>10. was.refunded \in Nat /\ was.released \in Nat
  BY <1>4 DEF EngagementDoc
<1>11. refunded \in Nat /\ released \in Nat
  BY <1>9, <1>10
<1>12. errand[r].on \notin crossed' => refunded = was.refunded /\ released = was.released
  <2> SUFFICES ASSUME errand[r].on \notin crossed' PROVE refund = 0 /\ release = 0
    BY <1>9, <1>10
  <2>1. ~(refund + release > 0)
    BY <1>2
  <2> QED
    BY <1>9, <2>1
<1>13. crossed \subseteq crossed' /\ crossed' \subseteq Engagements
  BY <1>2, <1>4
<1>14. engagement' = [engagement EXCEPT ![errand[r].on] = doc]
  BY <1>2
<1> HIDE DEF refunded, released
<1>15. /\ doc \in EngagementDoc /\ doc.status = was.status /\ doc.deposited = was.deposited
       /\ doc.kept = was.kept /\ doc.refunded = refunded /\ doc.released = released
       /\ doc.sets = was.sets
  BY <1>4, <1>11 DEF EngagementDoc
<1> HIDE DEF doc
<1>16. errand[r].on \notin crossed' => LedgerOf(doc)
  BY <1>4, <1>12, <1>13, <1>15 DEF LedgerOf
<1>17. /\ errand' \in [StRequests -> Errand] /\ errand'[r] = next
       /\ \A q \in StRequests \ {r} : errand'[q] = errand[q]
  <2>1. errand \in [StRequests -> Errand]
    BY DEF StInv, StructuralTypeOK, Errand
  <2> QED
    BY <1>3, <1>5, <2>1
<1>18. errand[r].stage \in MoneyStages /\ errand[r].stage # "idle"
  BY <1>3 DEF MoneyStages
<1>19. doc.status = "AWAITING_ESCROW" =>
         engagement[errand[r].on].status = "AWAITING_ESCROW" /\ doc.sets = <<>>
  BY <1>7, <1>15 DEF was
<1> QED
  BY <1>3, <1>5, <1>6, <1>13, <1>14, <1>15, <1>16, <1>17, <1>18, <1>19, RequestSaves

\* A step that changes one dispute, and whether it leaves a request where it was.
LEMMA RulingMoves ==
  ASSUME StInv, NEW d \in StDisputes, NEW ruled \in Ruling, engagement[ruled.on] # None,
         ruling' = [ruling EXCEPT ![d] = ruled], UNCHANGED <<engagement, engineer, crossed>>,
         errand' \in [StRequests -> Errand],
         \A r \in StRequests : errand'[r] = errand[r] \/ errand'[r].stage = "idle"
  PROVE  StInv'
<1>1. StructuralTypeOK'
  BY DEF StInv, StructuralTypeOK, Errand, Ruling
<1>2. ruled # None
  BY StructuralAssumption DEF Ruling
<1>3. ruling'[d] = ruled /\ \A c \in StDisputes \ {d} : ruling'[c] = ruling[c]
  BY DEF StInv, StructuralTypeOK
<1>4. \A c \in StDisputes : ruling[c] # None => ruling'[c] # None
  BY <1>2, <1>3
<1>5. ASSUME NEW r \in StRequests PROVE Sound(r)'
  BY <1>4 DEF StInv, Sound
<1>6. PaysAlone'
  <2>1. \A r \in StRequests, e \in Engagements : Pays(r, e)' => Pays(r, e)
    BY DEF Pays, MoneyStages
  <2> QED
    BY <2>1 DEF StInv, PaysAlone
<1>7. DrawingsArePaid'
  BY DEF StInv, DrawingsArePaid
<1>8. RulingsAreAbout'
  BY <1>3 DEF StInv, RulingsAreAbout
<1>9. LedgerFollowsStatus'
  BY DEF StInv, LedgerFollowsStatus
<1> QED
  BY <1>1, <1>5, <1>6, <1>7, <1>8, <1>9 DEF StInv

LEMMA RaiseRulingKeeps ==
  ASSUME StInv, NEW d \in StDisputes, NEW e \in Engagements, RaiseRuling(d, e) PROVE StInv'
<1> DEFINE ruled == [on |-> e, live |-> TRUE]
<1>1. ruled \in Ruling /\ ruled.on = e
  BY DEF Ruling
<1>2. /\ engagement[e] # None /\ ruling' = [ruling EXCEPT ![d] = ruled]
      /\ UNCHANGED <<engagement, engineer, errand, crossed>>
  BY DEF RaiseRuling
<1>3. errand \in [StRequests -> Errand]
  BY DEF StInv, StructuralTypeOK, Errand
<1> HIDE DEF ruled
<1> QED
  BY <1>1, <1>2, <1>3, RulingMoves

LEMMA WithdrawRulingKeeps ==
  ASSUME StInv, NEW d \in StDisputes, WithdrawRuling(d) PROVE StInv'
<1> DEFINE ruled == [ruling[d] EXCEPT !.live = FALSE]
<1>1. /\ ruling[d] # None /\ ruling' = [ruling EXCEPT ![d] = ruled]
      /\ UNCHANGED <<engagement, engineer, errand, crossed>>
  BY DEF WithdrawRuling
<1>2. ruling[d] \in Ruling
  BY <1>1 DEF StInv, StructuralTypeOK, Ruling
<1>3. ruled \in Ruling /\ ruled.on = ruling[d].on
  BY <1>2 DEF Ruling
<1>4. engagement[ruling[d].on] # None
  BY <1>1 DEF StInv, RulingsAreAbout
<1>5. errand \in [StRequests -> Errand]
  BY DEF StInv, StructuralTypeOK, Errand
<1> HIDE DEF ruled
<1> QED
  BY <1>1, <1>3, <1>4, <1>5, RulingMoves

LEMMA CloseRulingKeeps ==
  ASSUME StInv, NEW r \in StRequests, CloseRuling(r) PROVE StInv'
<1> DEFINE d == errand[r].dispute
           ruled == [ruling[d] EXCEPT !.live = FALSE]
<1>1. /\ errand[r].stage = "closing" /\ ruling' = [ruling EXCEPT ![d] = ruled]
      /\ errand' = [errand EXCEPT ![r] = NoErrand] /\ UNCHANGED <<engagement, engineer, crossed>>
  BY DEF CloseRuling, Ends
<1>2. d \in StDisputes /\ ruling[d] # None
  BY <1>1 DEF StInv, Sound
<1>3. ruling[d] \in Ruling
  BY <1>2 DEF StInv, StructuralTypeOK, Ruling
<1>4. ruled \in Ruling /\ ruled.on = ruling[d].on
  BY <1>3 DEF Ruling
<1>5. engagement[ruling[d].on] # None
  BY <1>2 DEF StInv, RulingsAreAbout
<1>6. errand \in [StRequests -> Errand]
  BY DEF StInv, StructuralTypeOK, Errand
<1>7. /\ errand' \in [StRequests -> Errand]
      /\ \A q \in StRequests : errand'[q] = errand[q] \/ errand'[q].stage = "idle"
  BY <1>1, <1>6, NoErrandTyped
<1> HIDE DEF d, ruled
<1> QED
  BY <1>1, <1>2, <1>4, <1>5, <1>7, RulingMoves

LEMMA StructuralSteps == ASSUME StInv, [StructuralNext]_structuralVars PROVE StInv'
<1>1. ASSUME NEW r \in StRequests, AttachEngineer(r) PROVE StInv'
  <2>1. errand[r].stage = "attaching"
    BY <1>1 DEF AttachEngineer
  <2>2. errand[r].on \in Engagements
    BY <2>1, Underway
  <2> QED
    BY <1>1, <2>2, RequestEnds DEF AttachEngineer
<1>2. ASSUME NEW r \in StRequests, DetachEngineer(r) PROVE StInv'
  BY <1>2, RequestEnds DEF DetachEngineer
<1>3. ASSUME UNCHANGED structuralVars PROVE StInv'
  BY <1>3 DEF structuralVars, StInv, StructuralTypeOK, Sound, PaysAlone, Pays, DrawingsArePaid,
     RulingsAreAbout, LedgerFollowsStatus
<1> QED
  BY <1>1, <1>2, <1>3, SaveFeeKeeps, SaveDrawingsKeeps, SaveChangesKeeps, AskFrozenKeeps,
     SaveApprovalKeeps, SaveCancellationKeeps, WeighHeldKeeps, PayRulingKeeps, CloseRulingKeeps,
     AppointKeeps, FundFeeKeeps, SubmitDrawingsKeeps, RefuseDrawingsKeeps, ApproveDrawingsKeeps,
     CancelEngagementKeeps, RaiseRulingKeeps, WithdrawRulingKeeps, ResolveRulingKeeps
     DEF StructuralNext

-----------------------------------------------------------------------------
(* Theorems about Structural *)

\* Engagements, requests and disputes keep their types: no save writes outside the document.
THEOREM StructuralTyped == StructuralSpec => []StructuralTypeOK
<1>1. StInv => StructuralTypeOK
  BY DEF StInv
<1> QED
  BY StructuralBegins, StructuralSteps, <1>1, PTL DEF StructuralSpec

\* The ledger is what the status says: the whole fee held while drawings are in progress,
\* paid out at completion, sent back at cancellation (structural.controller.ts fundEscrow,
\* reviewSubmission, cancelEngagement), unless payments crossed on the engagement.
THEOREM StructuralLedger == StructuralSpec => []LedgerFollowsStatus
<1>1. StInv => LedgerFollowsStatus
  BY DEF StInv
<1> QED
  BY StructuralBegins, StructuralSteps, <1>1, PTL DEF StructuralSpec

-----------------------------------------------------------------------------
(* Variations: the contract sum and the schedule *)

Works(r) == decision[r].stage # "idle"
Places(o) == {i \in DOMAIN schedule : schedule[i] = o}

\* A request decides an order that was proposed.
OfAnOrder == \A r \in VarRequests : Works(r) => decision[r].on \in Orders /\ order[decision[r].on] # None

VarTyped == VariationsTypeOK /\ OfAnOrder /\ IsFiniteSet(ApprovedOrders)

\* One request decides an order, and one approves at all.
OneDecider ==
  \A r, q \in VarRequests :
    Works(r) /\ Works(q) /\ decision[r].on = decision[q].on => r = q
OneApprover ==
  \A r, q \in VarRequests :
    decision[r].stage \in Approving /\ decision[q].stage \in Approving => r = q

\* What a request read is still so.
ReadingsHold ==
  \A r \in VarRequests :
    /\ Works(r) => order[decision[r].on].status = "PROPOSED"
    /\ decision[r].stage \in {"seeking", "appending", "charging"} => decision[r].sum = sum
    /\ decision[r].stage = "appending" =>
         order[decision[r].on].delta > 0 /\ decision[r].place = Len(schedule) + 1

\* The sum runs ahead of the orders while an approval is about to be recorded.
SumRuns ==
  /\ (\A r \in VarRequests : decision[r].stage # "recording") => sum = BaseSum + Granted
  /\ \A r \in VarRequests :
       decision[r].stage = "recording" => sum = BaseSum + Granted + order[decision[r].on].delta

\* So does the schedule, once the milestone is appended.
HasPlace(o) ==
  /\ order[o] # None /\ order[o].delta > 0
  /\ \/ order[o].status = "APPROVED"
     \/ \E r \in VarRequests :
          decision[r].stage \in {"charging", "recording"} /\ decision[r].on = o
PlaceRuns ==
  \A o \in Orders :
    /\ HasPlace(o) => \E i \in DOMAIN schedule : Places(o) = {i}
    /\ ~HasPlace(o) => Places(o) = {}

VarInv ==
  /\ VarTyped
  /\ botched = {} => OneDecider /\ OneApprover /\ ReadingsHold /\ SumRuns /\ PlaceRuns

-----------------------------------------------------------------------------

LEMMA DeltasAreInts == Deltas \subseteq Int
<1>1. \A n \in Nat : n \in Int /\ -n \in Int
  OBVIOUS
<1>2. \A n \in Extras \cup Omissions : n \in Nat
  BY VariationsAssumption
<1> QED
  BY <1>1, <1>2 DEF Deltas

LEMMA ApprovedTyped ==
  ASSUME VariationsTypeOK
  PROVE  \A o \in ApprovedOrders : [p \in ApprovedOrders |-> order[p].delta][o] \in Int
BY DeltasAreInts DEF VariationsTypeOK, ApprovedOrders, ChangeOrder

LEMMA GrantedTyped == VarTyped => Granted \in Int
BY ApprovedTyped, SumTyped DEF VarTyped, Granted

LEMMA GrantedSame ==
  ASSUME VarTyped, ApprovedOrders' = ApprovedOrders,
         \A o \in ApprovedOrders : order'[o].delta = order[o].delta
  PROVE  Granted' = Granted
<1> DEFINE f == [o \in ApprovedOrders |-> order[o].delta]
           e == [o \in ApprovedOrders |-> order'[o].delta]
<1>1. IsFiniteSet(ApprovedOrders) /\ \A o \in ApprovedOrders : f[o] = e[o]
  BY DEF VarTyped
<1>2. Granted = SumFunctionOnSet(f, ApprovedOrders) /\ Granted' = SumFunctionOnSet(e, ApprovedOrders)
  BY DEF Granted
<1> HIDE DEF f, e
<1> QED
  BY <1>1, <1>2, SumSame

LEMMA GrantedMore ==
  ASSUME VarTyped, VarTyped', NEW o \in Orders, o \notin ApprovedOrders,
         ApprovedOrders' = ApprovedOrders \cup {o},
         \A p \in ApprovedOrders' : order'[p].delta = order[p].delta
  PROVE  Granted' = Granted + order[o].delta
<1> DEFINE f == [p \in ApprovedOrders |-> order[p].delta]
           e == [p \in ApprovedOrders' |-> order'[p].delta]
<1>1. IsFiniteSet(ApprovedOrders) /\ \A p \in ApprovedOrders : f[p] = e[p]
  BY DEF VarTyped
<1>2. Granted = SumFunctionOnSet(f, ApprovedOrders) /\ Granted' = SumFunctionOnSet(e, ApprovedOrders \cup {o})
  BY DEF Granted
<1>3. \A p \in ApprovedOrders \cup {o} : e[p] \in Int
  BY DeltasAreInts DEF VarTyped, VariationsTypeOK, ApprovedOrders, ChangeOrder
<1>4. e[o] = order[o].delta
  OBVIOUS
<1> HIDE DEF f, e
<1>5. SumFunctionOnSet(f, ApprovedOrders) = SumFunctionOnSet(e, ApprovedOrders)
  BY <1>1, SumSame
<1>6. SumFunctionOnSet(e, ApprovedOrders \cup {o}) = SumFunctionOnSet(e, ApprovedOrders) + e[o]
  BY <1>1, <1>3, SumAdded
<1> QED
  BY <1>2, <1>4, <1>5, <1>6

-----------------------------------------------------------------------------
LEMMA StepVarTyped == VarTyped /\ [VariationsNext]_variationVars => VarTyped'
<1> SUFFICES ASSUME VarTyped, [VariationsNext]_variationVars PROVE VarTyped'
  OBVIOUS
<1>t. VariationsTypeOK /\ OfAnOrder /\ IsFiniteSet(ApprovedOrders)
  BY DEF VarTyped
<1> DEFINE Doc == ChangeOrder
           Errands == [stage : {"idle", "seeking", "appending", "charging", "recording",
                                "rejecting", "withdrawing"},
                       on : Orders \cup {None}, sum : Int, place : Nat]
<1>n. NoDecision \in Errands /\ NoDecision.stage = "idle"
  BY DEF NoDecision
<1>1. ASSUME NEW o \in Orders, NEW delta \in Deltas, ProposeChangeOrder(o, delta)
      PROVE  VarTyped'
  <2>1. order'[o] \in Doc /\ order'[o].status = "PROPOSED" /\ order' \in [Orders -> Doc \cup {None}]
    BY <1>t, <1>1 DEF ProposeChangeOrder, VariationsTypeOK, OrderStatus, ChangeOrder
  <2>2. \A p \in Orders \ {o} : order'[p] = order[p]
    BY <1>t, <1>1 DEF ProposeChangeOrder, VariationsTypeOK
  <2>3. ApprovedOrders' = ApprovedOrders
    BY <1>1, <2>1, <2>2 DEF ApprovedOrders, ProposeChangeOrder
  <2>4. OfAnOrder'
    BY <1>t, <1>1, <2>1, <2>2, VariationsAssumption DEF OfAnOrder, Works, ProposeChangeOrder
  <2>5. VariationsTypeOK'
    BY <1>t, <1>1, <2>1 DEF VariationsTypeOK, ProposeChangeOrder
  <2> QED
    BY <1>t, <2>3, <2>4, <2>5 DEF VarTyped
<1>2. ASSUME NEW r \in VarRequests, NEW o \in Orders, order[o] # None,
             NEW stage \in {"seeking", "rejecting", "withdrawing"}, DecisionBegins(r, o, stage)
      PROVE  VarTyped'
  <2>1. decision'[r] \in Errands /\ decision'[r].on = o
    BY <1>t, <1>2 DEF DecisionBegins, VariationsTypeOK
  <2>2. decision' \in [VarRequests -> Errands] /\ \A q \in VarRequests \ {r} : decision'[q] = decision[q]
    BY <1>t, <1>2, <2>1 DEF DecisionBegins, VariationsTypeOK
  <2>3. botched' \subseteq Orders
    BY <1>t, <1>2 DEF DecisionBegins, Upset, VariationsTypeOK, OfAnOrder, Works, Approving
  <2>4. VariationsTypeOK'
    BY <1>t, <1>2, <2>2, <2>3 DEF VariationsTypeOK, DecisionBegins
  <2>5. OfAnOrder'
    BY <1>t, <1>2, <2>1, <2>2 DEF OfAnOrder, Works, DecisionBegins
  <2> QED
    BY <1>t, <1>2, <2>4, <2>5 DEF VarTyped, ApprovedOrders, DecisionBegins
<1>3. ASSUME NEW r \in VarRequests, decision[r].stage # "idle",
             NEW o \in Orders, o = decision[r].on,
             NEW status \in OrderStatus, Record(o, status), DecisionEnds(r),
             UNCHANGED <<sum, live, schedule, paid, botched>>
      PROVE  VarTyped'
  <2>1. order[o] \in Doc
    BY <1>t, <1>3 DEF VariationsTypeOK, OfAnOrder, Works
  <2>2. order'[o] \in Doc /\ order' \in [Orders -> Doc \cup {None}]
        /\ \A p \in Orders \ {o} : order'[p] = order[p]
    BY <1>t, <1>3, <2>1 DEF Record, VariationsTypeOK, ChangeOrder
  <2>3. decision' \in [VarRequests -> Errands] /\ decision'[r].stage = "idle"
        /\ \A q \in VarRequests \ {r} : decision'[q] = decision[q]
    BY <1>t, <1>3, <1>n DEF DecisionEnds, VariationsTypeOK
  <2>4. VariationsTypeOK'
    BY <1>t, <1>3, <2>2, <2>3 DEF VariationsTypeOK
  <2>5. OfAnOrder'
    BY <1>t, <1>3, <2>2, <2>3, VariationsAssumption DEF OfAnOrder, Works
  <2>6. ApprovedOrders' \subseteq ApprovedOrders \cup {o}
    BY <2>2 DEF ApprovedOrders
  <2>7. IsFiniteSet(ApprovedOrders')
    BY <1>t, <2>6, FS_AddElement, FS_Subset
  <2> QED
    BY <2>4, <2>5, <2>7 DEF VarTyped
<1>4. ASSUME NEW r \in VarRequests, decision[r].stage # "idle",
             \/ decision'[r] = NoDecision
             \/ decision'[r] \in Errands /\ decision'[r].on = decision[r].on,
             decision' = [decision EXCEPT ![r] = decision'[r]],
             UNCHANGED order, sum' \in Nat, live' \in BOOLEAN,
             schedule' \in Seq(Orders \cup {Scope}), paid' \subseteq DOMAIN schedule',
             botched' \subseteq Orders
      PROVE  VarTyped'
  <2>1. decision' \in [VarRequests -> Errands] /\ \A q \in VarRequests \ {r} : decision'[q] = decision[q]
    BY <1>t, <1>n, <1>4 DEF VariationsTypeOK
  <2>2. VariationsTypeOK'
    BY <1>t, <1>4, <2>1 DEF VariationsTypeOK
  <2>3. OfAnOrder'
    BY <1>t, <1>n, <1>4, <2>1 DEF OfAnOrder, Works
  <2> QED
    BY <1>t, <1>4, <2>2, <2>3 DEF VarTyped, ApprovedOrders
<1>5. ASSUME NEW r \in VarRequests, SaveRefusedOrder(r)
      PROVE  VarTyped'
  BY <1>t, <1>3, <1>5 DEF SaveRefusedOrder, OfAnOrder, Works, OrderStatus
<1>6. ASSUME NEW r \in VarRequests, RecordApproval(r)
      PROVE  VarTyped'
  BY <1>t, <1>3, <1>6 DEF RecordApproval, OfAnOrder, Works, OrderStatus
<1>7. ASSUME NEW r \in VarRequests, SeekPlace(r)
      PROVE  VarTyped'
  <2>1. decision[r] \in Errands /\ Len(schedule) + 1 \in Nat
    BY <1>t DEF VariationsTypeOK
  <2>2. \/ decision'[r] = [decision[r] EXCEPT !.stage = "appending", !.place = Len(schedule) + 1]
        \/ decision'[r] = [decision[r] EXCEPT !.stage = "charging"]
    BY <1>t, <1>7 DEF SeekPlace, DecisionMoves, VariationsTypeOK
  <2>3. decision'[r] \in Errands /\ decision'[r].on = decision[r].on
    BY <2>1, <2>2
  <2>4. decision' = [decision EXCEPT ![r] = decision'[r]]
    BY <1>t, <1>7 DEF SeekPlace, DecisionMoves, VariationsTypeOK
  <2> QED
    BY <1>t, <1>4, <1>7, <2>3, <2>4 DEF SeekPlace, VariationsTypeOK
<1>8. ASSUME NEW r \in VarRequests, AppendMilestone(r)
      PROVE  VarTyped'
  <2>1. decision[r] \in Errands /\ decision[r].on \in Orders
    BY <1>t, <1>8 DEF VariationsTypeOK, AppendMilestone, OfAnOrder, Works
  <2>2. /\ decision' = [decision EXCEPT ![r] = decision'[r]]
        /\ \/ decision'[r] = NoDecision
           \/ decision'[r] \in Errands /\ decision'[r].on = decision[r].on
    BY <1>t, <1>8, <2>1 DEF AppendMilestone, DecisionMoves, DecisionEnds, VariationsTypeOK
  <2>3. schedule \in Seq(Orders \cup {Scope}) /\ decision[r].on \in Orders \cup {Scope}
    BY <1>t, <2>1 DEF VariationsTypeOK
  <2>4. CASE UNCHANGED schedule
    BY <1>t, <1>4, <1>8, <2>2, <2>4 DEF AppendMilestone, VariationsTypeOK
  <2>5. CASE schedule' = Append(schedule, decision[r].on)
    <3>1. schedule' \in Seq(Orders \cup {Scope}) /\ Len(schedule') = Len(schedule) + 1
      BY <2>3, <2>5, AppendProperties
    <3>2. DOMAIN schedule \subseteq DOMAIN schedule'
      BY <2>3, <3>1
    <3> QED
      BY <1>t, <1>4, <1>8, <2>2, <3>1, <3>2 DEF AppendMilestone, VariationsTypeOK
  <2> QED
    BY <1>8, <2>4, <2>5 DEF AppendMilestone
<1>9. ASSUME NEW r \in VarRequests, ChargeContract(r)
      PROVE  VarTyped'
  <2>1. decision[r] \in Errands /\ order[decision[r].on].delta \in Int
    BY <1>t, <1>9, DeltasAreInts DEF VariationsTypeOK, ChargeContract, OfAnOrder, Works, ChangeOrder
  <2>2. /\ decision' = [decision EXCEPT ![r] = decision'[r]]
        /\ \/ decision'[r] = NoDecision
           \/ decision'[r] \in Errands /\ decision'[r].on = decision[r].on
    BY <1>t, <1>9, <2>1 DEF ChargeContract, DecisionMoves, DecisionEnds, VariationsTypeOK
  <2>3. sum' \in Nat
    BY <1>t, <1>9, <2>1 DEF ChargeContract, VariationsTypeOK
  <2> QED
    BY <1>t, <1>4, <1>9, <2>2, <2>3 DEF ChargeContract, VariationsTypeOK
<1>10. ASSUME NEW r \in VarRequests, DecisionDies(r)
       PROVE  VarTyped'
  <2>1. decision' = [decision EXCEPT ![r] = decision'[r]] /\ decision'[r] = NoDecision
    BY <1>t, <1>10 DEF DecisionDies, DecisionEnds, VariationsTypeOK
  <2>2. botched' \subseteq Orders
    BY <1>t, <1>10 DEF DecisionDies, VariationsTypeOK, OfAnOrder, Works
  <2> QED
    BY <1>t, <1>4, <1>10, <2>1, <2>2 DEF DecisionDies, VariationsTypeOK
<1>11. ASSUME NEW i \in DOMAIN schedule, ReleaseTranche(i)
       PROVE  VarTyped'
  <2>1. VariationsTypeOK'
    BY <1>t, <1>11 DEF ReleaseTranche, VariationsTypeOK
  <2> QED
    BY <1>t, <1>11, <2>1 DEF VarTyped, ReleaseTranche, OfAnOrder, Works, ApprovedOrders
<1>12. CASE UNCHANGED variationVars
  BY <1>t, <1>12 DEF variationVars, VarTyped, VariationsTypeOK, OfAnOrder, Works, ApprovedOrders
<1> QED
  BY <1>1, <1>2, <1>5, <1>6, <1>7, <1>8, <1>9, <1>10, <1>11, <1>12
     DEF VariationsNext, ApproveOrder, RejectOrder, WithdrawOrder, Proposed

-----------------------------------------------------------------------------
Agreed == OneDecider /\ OneApprover /\ ReadingsHold /\ SumRuns /\ PlaceRuns

LEMMA SumQuiet ==
  ASSUME VarTyped, SumRuns, order' = order, sum' = sum,
         \A q \in VarRequests :
           /\ decision'[q].stage = "recording" <=> decision[q].stage = "recording"
           /\ decision'[q].stage = "recording" => decision'[q].on = decision[q].on
  PROVE  SumRuns'
<1>1. Granted' = Granted
  BY GrantedSame DEF ApprovedOrders
<1> QED
  BY <1>1 DEF SumRuns

LEMMA PlaceQuiet ==
  ASSUME PlaceRuns, schedule' = schedule, \A o \in Orders : HasPlace(o)' <=> HasPlace(o)
  PROVE  PlaceRuns'
BY DEF PlaceRuns, Places

LEMMA BeginAgreed ==
  ASSUME VarTyped, Agreed, botched' = {}, NEW r \in VarRequests, NEW o \in Orders,
         NEW stage \in {"seeking", "rejecting", "withdrawing"}, Proposed(o),
         DecisionBegins(r, o, stage)
  PROVE  Agreed'
<1>t. VariationsTypeOK
  BY DEF VarTyped
<1>1. /\ decision[r].stage = "idle" /\ decision'[r].stage = stage /\ decision'[r].on = o
      /\ stage = "seeking" => decision'[r].sum = sum
      /\ \A q \in VarRequests \ {r} : decision'[q] = decision[q]
      /\ UNCHANGED <<order, sum, schedule>>
  BY <1>t DEF DecisionBegins, VariationsTypeOK
<1>2. Upset(r, o, stage = "seeking") = {}
  BY DEF DecisionBegins
<1>3. \A q \in VarRequests \ {r} : Works(q) => decision[q].on # o
  BY <1>2 DEF Upset, Works
<1>4. stage = "seeking" => \A q \in VarRequests \ {r} : decision[q].stage \notin Approving
  <2> SUFFICES ASSUME stage = "seeking", NEW q \in VarRequests \ {r}, decision[q].stage \in Approving
               PROVE  FALSE
    OBVIOUS
  <2>1. decision[q].stage # "idle"
    BY DEF Approving
  <2> QED
    BY <1>2, <2>1 DEF Upset
<1>5. OneDecider'
  BY <1>1, <1>3 DEF Agreed, OneDecider, Works
<1>6. OneApprover'
  BY <1>1, <1>4 DEF Agreed, OneApprover, Approving
<1>7. ReadingsHold'
  BY <1>1 DEF Agreed, ReadingsHold, Works, Proposed
<1>8. SumRuns'
  BY <1>1, SumQuiet DEF Agreed
<1>9. \A p \in Orders : HasPlace(p)' <=> HasPlace(p)
  BY <1>1 DEF HasPlace
<1>10. PlaceRuns'
  BY <1>1, <1>9, PlaceQuiet DEF Agreed
<1> QED
  BY <1>5, <1>6, <1>7, <1>8, <1>10 DEF Agreed

\* A decision that ends without a trace, or goes on with what it has read.
LEMMA GoesOnAgreed ==
  ASSUME VarTyped, Agreed, NEW r \in VarRequests, Works(r),
         \A q \in VarRequests \ {r} : decision'[q] = decision[q],
         UNCHANGED <<order, sum, schedule>>,
         decision[r].stage # "recording", decision'[r].stage # "recording",
         decision[r].stage = "charging" => order[decision[r].on].delta <= 0,
         decision'[r].stage = "charging" => order[decision[r].on].delta <= 0,
         \/ decision'[r].stage = "idle"
         \/ /\ decision[r].stage = "seeking" /\ decision'[r].stage \in {"appending", "charging"}
            /\ decision'[r].on = decision[r].on /\ decision'[r].sum = decision[r].sum
            /\ decision'[r].stage = "appending" =>
                 order[decision[r].on].delta > 0 /\ decision'[r].place = Len(schedule) + 1
  PROVE  Agreed'
<1>1. OneDecider'
  BY DEF Agreed, OneDecider, Works
<1>2. OneApprover'
  BY DEF Agreed, OneApprover, Approving
<1>3. ReadingsHold'
  BY DEF Agreed, ReadingsHold, Works
<1>4. SumRuns'
  BY SumQuiet DEF Agreed
<1>5. decision[r].on \in Orders /\ order[decision[r].on].delta \in Int
  BY DeltasAreInts DEF VarTyped, OfAnOrder, VariationsTypeOK, ChangeOrder
<1>6. ASSUME NEW p \in Orders PROVE HasPlace(p)' <=> HasPlace(p)
  <2>1. CASE p # decision[r].on
    BY <2>1 DEF HasPlace
  <2>2. CASE p = decision[r].on
    <3>1. CASE order[p].delta > 0
      BY <1>5, <2>2, <3>1 DEF HasPlace
    <3>2. CASE ~(order[p].delta > 0)
      BY <3>2 DEF HasPlace
    <3> QED
      BY <3>1, <3>2
  <2> QED
    BY <2>1, <2>2
<1>7. PlaceRuns'
  BY <1>6, PlaceQuiet DEF Agreed
<1> QED
  BY <1>1, <1>2, <1>3, <1>4, <1>7 DEF Agreed

LEMMA ProposedAgreed ==
  ASSUME VarTyped, Agreed, NEW o \in Orders, NEW delta \in Deltas, ProposeChangeOrder(o, delta)
  PROVE  Agreed'
<1>1. /\ order[o] = None /\ order'[o] # None /\ order'[o].status = "PROPOSED"
      /\ \A p \in Orders \ {o} : order'[p] = order[p]
      /\ UNCHANGED <<sum, schedule, decision>>
  <2>1. [status |-> "PROPOSED", delta |-> delta] \in ChangeOrder
    BY DEF ChangeOrder, OrderStatus
  <2> QED
    BY <2>1, VariationsAssumption DEF ProposeChangeOrder, VarTyped, VariationsTypeOK
<1>2. \A r \in VarRequests : Works(r) => decision[r].on # o
  BY <1>1 DEF VarTyped, OfAnOrder
<1>3. ApprovedOrders' = ApprovedOrders /\ \A p \in ApprovedOrders : order'[p] = order[p]
  BY <1>1 DEF ApprovedOrders
<1>4. Granted' = Granted
  BY <1>3, GrantedSame
<1>5. OneDecider' /\ OneApprover'
  BY <1>1 DEF Agreed, OneDecider, OneApprover, Works
<1>6. \A r \in VarRequests : Works(r) => order'[decision[r].on] = order[decision[r].on]
  BY <1>1, <1>2 DEF VarTyped, OfAnOrder
<1>7. ReadingsHold'
  BY <1>1, <1>6 DEF Agreed, ReadingsHold, Works
<1>8. SumRuns'
  BY <1>1, <1>4, <1>6 DEF Agreed, SumRuns, Works
<1>9. \A p \in Orders \ {o} : HasPlace(p)' <=> HasPlace(p)
  BY <1>1 DEF HasPlace
<1>10. ~HasPlace(o) /\ ~HasPlace(o)'
  BY <1>1, <1>2 DEF HasPlace, Works
<1>11. PlaceRuns'
  <2>1. \A p \in Orders : HasPlace(p)' <=> HasPlace(p)
    BY <1>9, <1>10
  <2> QED
    BY <1>1, <2>1, PlaceQuiet DEF Agreed
<1> QED
  BY <1>5, <1>7, <1>8, <1>11 DEF Agreed

LEMMA RefusedAgreed ==
  ASSUME VarTyped, Agreed, NEW r \in VarRequests, SaveRefusedOrder(r)
  PROVE  Agreed'
<1>1. PICK o \in Orders : o = decision[r].on
  BY DEF SaveRefusedOrder, VarTyped, OfAnOrder, Works
<1>2. /\ Works(r) /\ ~Works(r)' /\ decision[r].stage \in {"rejecting", "withdrawing"}
      /\ order[o] # None /\ order[o].status = "PROPOSED" /\ order'[o].status # "APPROVED"
      /\ order'[o].status # "PROPOSED"
      /\ \A p \in Orders \ {o} : order'[p] = order[p]
      /\ \A q \in VarRequests \ {r} : decision'[q] = decision[q]
      /\ UNCHANGED <<sum, schedule>>
  BY <1>1, VariationsAssumption
     DEF SaveRefusedOrder, Record, DecisionEnds, NoDecision, VarTyped, VariationsTypeOK, OfAnOrder,
         Works, Agreed, ReadingsHold, ChangeOrder
<1>3. \A q \in VarRequests \ {r} : Works(q) => decision[q].on # o /\ decision[q].on \in Orders
  BY <1>1, <1>2 DEF Agreed, OneDecider, VarTyped, OfAnOrder
<1>4. ApprovedOrders' = ApprovedOrders /\ \A p \in ApprovedOrders : order'[p] = order[p]
  BY <1>2 DEF ApprovedOrders
<1>5. Granted' = Granted
  BY <1>4, GrantedSame
<1>6. OneDecider' /\ OneApprover'
  BY <1>2 DEF Agreed, OneDecider, OneApprover, Works, Approving
<1>7. ReadingsHold'
  BY <1>2, <1>3 DEF Agreed, ReadingsHold, Works
<1>8. SumRuns'
  BY <1>2, <1>3, <1>5 DEF Agreed, SumRuns, Works
<1>9. \A p \in Orders \ {o} : HasPlace(p)' <=> HasPlace(p)
  BY <1>2 DEF HasPlace, Works
<1>10. ~HasPlace(o) /\ ~HasPlace(o)'
  BY <1>2, <1>3 DEF HasPlace, Works
<1>11. PlaceRuns'
  <2>1. \A p \in Orders : HasPlace(p)' <=> HasPlace(p)
    BY <1>9, <1>10
  <2> QED
    BY <1>2, <2>1, PlaceQuiet DEF Agreed
<1> QED
  BY <1>6, <1>7, <1>8, <1>11 DEF Agreed

\* The place is free: nobody else appends.
LEMMA AppendedAgreed ==
  ASSUME VarTyped, Agreed, NEW r \in VarRequests, AppendMilestone(r)
  PROVE  Agreed'
<1>t. VariationsTypeOK
  BY DEF VarTyped
<1>1. PICK o \in Orders : o = decision[r].on
  BY DEF AppendMilestone, VarTyped, OfAnOrder, Works
<1>2. /\ decision[r].stage = "appending" /\ order[o] # None /\ order[o].delta > 0
      /\ order[o].status = "PROPOSED" /\ decision[r].place = Len(schedule) + 1
  BY <1>1 DEF AppendMilestone, Agreed, ReadingsHold, Works, VarTyped, OfAnOrder
<1>3. /\ schedule' = Append(schedule, o) /\ DecisionMoves(r, "charging")
      /\ UNCHANGED <<order, sum, live, paid, botched>>
  BY <1>1, <1>2 DEF AppendMilestone
<1>4. /\ decision'[r].stage = "charging" /\ decision'[r].on = o /\ decision'[r].sum = decision[r].sum
      /\ \A q \in VarRequests \ {r} : decision'[q] = decision[q]
  BY <1>t, <1>1, <1>3 DEF DecisionMoves, VariationsTypeOK
<1>5. \A q \in VarRequests \ {r} :
        decision[q].stage \notin Approving /\ (Works(q) => decision[q].on # o)
  BY <1>1, <1>2 DEF Agreed, OneApprover, OneDecider, Works, Approving
<1>6. OneDecider' /\ OneApprover'
  BY <1>1, <1>2, <1>4 DEF Agreed, OneDecider, OneApprover, Works, Approving
<1>7. ReadingsHold'
  <2>1. Len(schedule') = Len(schedule) + 1
    BY <1>t, <1>3 DEF VariationsTypeOK
  <2>2. \A q \in VarRequests \ {r} : decision[q].stage # "appending"
    BY <1>5 DEF Approving
  <2> QED
    BY <1>1, <1>2, <1>3, <1>4, <2>2 DEF Agreed, ReadingsHold, Works
<1>8. SumRuns'
  BY <1>1, <1>2, <1>3, <1>4, SumQuiet DEF Agreed
<1>9. schedule \in Seq(Orders \cup {Scope}) /\ o \in Orders \cup {Scope}
  BY <1>t DEF VariationsTypeOK
<1>10. /\ DOMAIN schedule' = DOMAIN schedule \cup {Len(schedule) + 1}
       /\ schedule'[Len(schedule) + 1] = o /\ Len(schedule) + 1 \notin DOMAIN schedule
       /\ \A i \in DOMAIN schedule : schedule'[i] = schedule[i]
  BY <1>3, <1>9, AppendProperties
<1>11. Places(o)' = Places(o) \cup {Len(schedule) + 1}
       /\ \A p \in Orders \ {o} : Places(p)' = Places(p)
  BY <1>10 DEF Places
<1>12. \A p \in Orders \ {o} : HasPlace(p)' <=> HasPlace(p)
  BY <1>1, <1>3, <1>4 DEF HasPlace
<1>13. ~HasPlace(o) /\ HasPlace(o)'
  BY <1>1, <1>2, <1>3, <1>4, <1>5 DEF HasPlace, Approving
<1>14. PlaceRuns'
  BY <1>10, <1>11, <1>12, <1>13 DEF Agreed, PlaceRuns
<1> QED
  BY <1>6, <1>7, <1>8, <1>14 DEF Agreed

LEMMA ChargedAgreed ==
  ASSUME VarTyped, Agreed, NEW r \in VarRequests, ChargeContract(r),
         sum' = decision[r].sum + order[decision[r].on].delta, DecisionMoves(r, "recording")
  PROVE  Agreed'
<1>t. VariationsTypeOK
  BY DEF VarTyped
<1>1. PICK o \in Orders : o = decision[r].on
  BY DEF ChargeContract, VarTyped, OfAnOrder, Works
<1>2. /\ decision[r].stage = "charging" /\ decision[r].sum = sum /\ UNCHANGED <<order, schedule>>
  BY DEF ChargeContract, Agreed, ReadingsHold
<1>3. /\ decision'[r].stage = "recording" /\ decision'[r].on = o
      /\ \A q \in VarRequests \ {r} : decision'[q] = decision[q]
  BY <1>t, <1>1 DEF DecisionMoves, VariationsTypeOK
<1>4. \A q \in VarRequests \ {r} : decision[q].stage \notin Approving
  BY <1>2 DEF Agreed, OneApprover, Approving
<1>5. OneDecider' /\ OneApprover'
  BY <1>1, <1>2, <1>3 DEF Agreed, OneDecider, OneApprover, Works, Approving
<1>6. ReadingsHold'
  BY <1>1, <1>2, <1>3, <1>4 DEF Agreed, ReadingsHold, Works, Approving
<1>7. Granted' = Granted /\ sum = BaseSum + Granted
  <2>1. Granted' = Granted
    BY <1>2, GrantedSame DEF ApprovedOrders
  <2>2. \A q \in VarRequests : decision[q].stage # "recording"
    BY <1>2, <1>4 DEF Approving
  <2> QED
    BY <2>1, <2>2 DEF Agreed, SumRuns
<1>8. SumRuns'
  BY <1>1, <1>2, <1>3, <1>4, <1>7 DEF SumRuns, Approving
<1>9. \A p \in Orders : HasPlace(p)' <=> HasPlace(p)
  BY <1>1, <1>2, <1>3 DEF HasPlace
<1>10. PlaceRuns'
  BY <1>2, <1>9, PlaceQuiet DEF Agreed
<1> QED
  BY <1>5, <1>6, <1>8, <1>10 DEF Agreed

LEMMA RecordedAgreed ==
  ASSUME VarTyped, VarTyped', Agreed, NEW r \in VarRequests, RecordApproval(r)
  PROVE  Agreed'
<1>t. VariationsTypeOK
  BY DEF VarTyped
<1>1. PICK o \in Orders : o = decision[r].on
  BY DEF RecordApproval, VarTyped, OfAnOrder, Works
<1>2. /\ decision[r].stage = "recording" /\ ~Works(r)'
      /\ order[o] # None /\ order[o].status = "PROPOSED" /\ order'[o] # None
      /\ order'[o].status = "APPROVED" /\ order'[o].delta = order[o].delta
      /\ \A p \in Orders \ {o} : order'[p] = order[p]
      /\ \A q \in VarRequests \ {r} : decision'[q] = decision[q]
      /\ UNCHANGED <<sum, schedule>>
  BY <1>t, <1>1, VariationsAssumption
     DEF RecordApproval, Record, DecisionEnds, NoDecision, VarTyped, VariationsTypeOK, OfAnOrder,
         Works, Agreed, ReadingsHold, ChangeOrder, OrderStatus
<1>3. \A q \in VarRequests \ {r} :
        /\ decision[q].stage \notin Approving
        /\ Works(q) => decision[q].on # o /\ decision[q].on \in Orders
  BY <1>1, <1>2 DEF Agreed, OneApprover, OneDecider, Works, Approving, VarTyped, OfAnOrder
<1>4. OneDecider' /\ OneApprover'
  BY <1>2 DEF Agreed, OneDecider, OneApprover, Works, Approving
<1>5. ReadingsHold'
  BY <1>2, <1>3 DEF Agreed, ReadingsHold, Works
<1>6. o \notin ApprovedOrders /\ ApprovedOrders' = ApprovedOrders \cup {o}
      /\ \A p \in ApprovedOrders' : order'[p].delta = order[p].delta
  BY <1>2 DEF ApprovedOrders
<1>7. Granted' = Granted + order[o].delta /\ sum = BaseSum + Granted + order[o].delta
  BY <1>1, <1>2, <1>6, GrantedMore DEF Agreed, SumRuns
<1>8. Granted \in Int /\ order[o].delta \in Int
  BY <1>t, <1>2, GrantedTyped, DeltasAreInts DEF VariationsTypeOK, ChangeOrder
<1>9. sum' = BaseSum + Granted'
  BY <1>2, <1>7, <1>8 DEF BaseSum
<1>10. SumRuns'
  BY <1>2, <1>3, <1>9 DEF SumRuns, Approving, Works
<1>11. \A p \in Orders \ {o} : HasPlace(p)' <=> HasPlace(p)
  BY <1>1, <1>2 DEF HasPlace, Works
<1>12. HasPlace(o)' <=> HasPlace(o)
  BY <1>1, <1>2 DEF HasPlace
<1>13. PlaceRuns'
  <2>1. \A p \in Orders : HasPlace(p)' <=> HasPlace(p)
    BY <1>11, <1>12
  <2> QED
    BY <1>2, <2>1, PlaceQuiet DEF Agreed
<1> QED
  BY <1>4, <1>5, <1>10, <1>13 DEF Agreed

LEMMA StepVarInv == VarInv /\ [VariationsNext]_variationVars => VarInv'
<1> SUFFICES ASSUME VarInv, [VariationsNext]_variationVars PROVE VarInv'
  OBVIOUS
<1>t. VarTyped /\ VarTyped' /\ VariationsTypeOK
  BY StepVarTyped DEF VarInv, VarTyped
<1> SUFFICES ASSUME botched' = {} PROVE Agreed'
  BY <1>t DEF VarInv, Agreed
<1>0. botched = {}
  BY DEF VariationsNext, variationVars, ProposeChangeOrder, ApproveOrder, RejectOrder, WithdrawOrder,
     DecisionBegins, SaveRefusedOrder, SeekPlace, AppendMilestone, ChargeContract, RecordApproval,
     DecisionDies, ReleaseTranche
<1>a. Agreed
  BY <1>0 DEF VarInv, Agreed
<1>1. ASSUME NEW r \in VarRequests, SeekPlace(r)
      PROVE  Agreed'
  <2>1. PICK o \in Orders : o = decision[r].on
    BY <1>t, <1>1 DEF SeekPlace, VarTyped, OfAnOrder, Works
  <2>2. order[o].delta \in Int
    BY <1>t, <1>1, <2>1, DeltasAreInts
       DEF SeekPlace, VarTyped, OfAnOrder, Works, VariationsTypeOK, ChangeOrder
  <2>3. /\ decision[r].stage = "seeking"
        /\ \A q \in VarRequests \ {r} : decision'[q] = decision[q]
        /\ UNCHANGED <<order, sum, schedule>>
    BY <1>t, <1>1, <2>1 DEF SeekPlace, DecisionMoves, VariationsTypeOK
  <2>4. decision[r] \in [stage : {"idle", "seeking", "appending", "charging", "recording",
                                  "rejecting", "withdrawing"},
                         on : Orders \cup {None}, sum : Int, place : Nat]
    BY <1>t DEF VariationsTypeOK
  <2>5. \/ /\ order[o].delta > 0
           /\ decision'[r] = [decision[r] EXCEPT !.stage = "appending", !.place = Len(schedule) + 1]
        \/ /\ ~(order[o].delta > 0)
           /\ decision'[r] = [decision[r] EXCEPT !.stage = "charging"]
    BY <1>t, <1>1, <2>1 DEF SeekPlace, DecisionMoves, VariationsTypeOK
  <2>6. /\ decision'[r].on = o /\ decision'[r].sum = decision[r].sum
        /\ \/ /\ order[o].delta > 0 /\ decision'[r].stage = "appending"
              /\ decision'[r].place = Len(schedule) + 1
           \/ ~(order[o].delta > 0) /\ decision'[r].stage = "charging"
    BY <2>1, <2>4, <2>5
  <2>7. ~(order[o].delta > 0) => order[o].delta <= 0
    BY <2>2
  <2> QED
    BY <1>t, <1>a, <2>1, <2>3, <2>6, <2>7, GoesOnAgreed DEF Works
<1>2. ASSUME NEW r \in VarRequests, Works(r), DecisionEnds(r), UNCHANGED <<order, sum, schedule>>,
             decision[r].stage # "recording",
             decision[r].stage = "charging" => order[decision[r].on].delta <= 0
      PROVE  Agreed'
  <2>1. decision'[r].stage = "idle" /\ \A q \in VarRequests \ {r} : decision'[q] = decision[q]
    BY <1>t, <1>2 DEF DecisionEnds, NoDecision, VariationsTypeOK
  <2> QED
    BY <1>t, <1>a, <1>2, <2>1, GoesOnAgreed
<1>3. ASSUME NEW r \in VarRequests, ChargeContract(r)
      PROVE  Agreed'
  <2>1. CASE decision[r].sum + order[decision[r].on].delta >= 0
    BY <1>t, <1>a, <1>3, <2>1, ChargedAgreed DEF ChargeContract
  <2>2. CASE ~(decision[r].sum + order[decision[r].on].delta >= 0)
    <3>1. DecisionEnds(r) /\ UNCHANGED <<order, sum, schedule>> /\ decision[r].stage = "charging"
          /\ decision[r].sum = sum /\ sum \in Nat /\ Works(r)
      BY <1>t, <1>a, <1>3, <2>2 DEF ChargeContract, Agreed, ReadingsHold, VariationsTypeOK, Works
    <3>2. order[decision[r].on].delta \in Int
      BY <1>t, <3>1, DeltasAreInts DEF VarTyped, OfAnOrder, VariationsTypeOK, ChangeOrder
    <3>3. order[decision[r].on].delta <= 0
      BY <2>2, <3>1, <3>2
    <3> QED
      BY <1>2, <3>1, <3>3
  <2> QED
    BY <2>1, <2>2
<1>4. ASSUME NEW r \in VarRequests, DecisionDies(r)
      PROVE  Agreed'
  <2>1. decision[r].stage \notin {"charging", "recording"}
    BY <1>4 DEF DecisionDies
  <2> QED
    BY <1>2, <1>4, <2>1 DEF DecisionDies, Works
<1>5. ASSUME UNCHANGED <<order, sum, schedule, decision>>
      PROVE  Agreed'
  BY <1>a, <1>5 DEF Agreed, OneDecider, OneApprover, ReadingsHold, Works, SumRuns, PlaceRuns, Places,
     HasPlace, Granted, ApprovedOrders
<1>6. ASSUME NEW i \in DOMAIN schedule, ReleaseTranche(i) PROVE Agreed'
  BY <1>5, <1>6 DEF ReleaseTranche
<1>7. CASE UNCHANGED variationVars
  BY <1>5, <1>7 DEF variationVars
<1>8. ASSUME NEW r \in VarRequests, NEW o \in Orders,
             ApproveOrder(r, o) \/ RejectOrder(r, o) \/ WithdrawOrder(r, o)
      PROVE  Agreed'
  BY <1>t, <1>a, <1>8, BeginAgreed DEF ApproveOrder, RejectOrder, WithdrawOrder
<1>9. ASSUME NEW r \in VarRequests,
             SaveRefusedOrder(r) \/ AppendMilestone(r) \/ RecordApproval(r)
      PROVE  Agreed'
  BY <1>t, <1>a, <1>9, RefusedAgreed, AppendedAgreed, RecordedAgreed
<1>10. ASSUME NEW o \in Orders, NEW delta \in Deltas, ProposeChangeOrder(o, delta)
       PROVE  Agreed'
  BY <1>t, <1>a, <1>10, ProposedAgreed
<1> QED
  BY <1>1, <1>3, <1>4, <1>6, <1>7, <1>8, <1>9, <1>10 DEF VariationsNext

LEMMA InitVarInv == VariationsInit => VarInv
<1> SUFFICES ASSUME VariationsInit PROVE VarInv
  OBVIOUS
<1>1. ApprovedOrders = {} /\ \A o \in Orders : order[o] = None
  BY DEF VariationsInit, ApprovedOrders
<1>2. Granted = 0
  BY <1>1, SumEmpty DEF Granted
<1>3. VarTyped
  <2>1. <<Scope>> \in Seq(Orders \cup {Scope})
    OBVIOUS
  <2> QED
    BY <1>1, <2>1, FS_EmptySet
       DEF VariationsInit, VarTyped, VariationsTypeOK, OfAnOrder, Works, NoDecision, BaseSum
<1>4. \A r \in VarRequests : decision[r].stage = "idle"
  BY DEF VariationsInit, NoDecision
<1>5. OneDecider /\ OneApprover /\ ReadingsHold
  BY <1>4 DEF OneDecider, OneApprover, ReadingsHold, Works, Approving
<1>6. SumRuns
  BY <1>2, <1>4 DEF SumRuns, VariationsInit, BaseSum
<1>7. PlaceRuns
  <2>1. \A o \in Orders : Places(o) = {} /\ ~HasPlace(o)
    BY <1>1, VariationsAssumption DEF Places, HasPlace, VariationsInit
  <2> QED
    BY <2>1 DEF PlaceRuns
<1> QED
  BY <1>3, <1>5, <1>6, <1>7 DEF VarInv

-----------------------------------------------------------------------------
(* Theorems about Variations *)

\* Orders, contract and decisions keep their types, and the sum is never negative, whatever
\* decisions interleave (changeorders.controller.ts decideChangeOrder).
THEOREM VariationsTyped == VariationsSpec => []VariationsTypeOK
<1>1. VariationsInit => VarTyped
  BY InitVarInv DEF VarInv
<1>2. VarTyped => VariationsTypeOK
  BY DEF VarTyped
<1> QED
  BY <1>1, <1>2, StepVarTyped, PTL DEF VariationsSpec

\* With no decision under way the contract sum is the base sum and the approved variations,
\* each of which that adds has one milestone, unless approvals crossed or died
\* (changeorders.controller.ts decideChangeOrder).
THEOREM SumIsKept == VariationsSpec => []SumFollowsVariations
<1>1. VarInv => SumFollowsVariations
  <2> SUFFICES ASSUME VarInv, botched = {},
                      \A r \in VarRequests : decision[r].stage \notin Approving
               PROVE  /\ sum = BaseSum + Granted
                      /\ \A o \in Orders : Cardinality({i \in DOMAIN schedule : schedule[i] = o})
                           = IF o \in ApprovedOrders /\ order[o].delta > 0 THEN 1 ELSE 0
    BY DEF SumFollowsVariations
  <2>1. sum = BaseSum + Granted
    BY DEF VarInv, SumRuns, Approving
  <2>2. ASSUME NEW o \in Orders
        PROVE  Cardinality(Places(o)) = IF o \in ApprovedOrders /\ order[o].delta > 0 THEN 1 ELSE 0
    <3>1. HasPlace(o) <=> o \in ApprovedOrders /\ order[o].delta > 0
      BY DEF HasPlace, ApprovedOrders, Approving
    <3>2. HasPlace(o) => Cardinality(Places(o)) = 1
      BY FS_Singleton DEF VarInv, PlaceRuns
    <3>3. ~HasPlace(o) => Cardinality(Places(o)) = 0
      BY FS_EmptySet DEF VarInv, PlaceRuns
    <3> QED
      BY <3>1, <3>2, <3>3
  <2> QED
    BY <2>1, <2>2 DEF Places
<1> QED
  BY <1>1, InitVarInv, StepVarInv, PTL DEF VariationsSpec

-----------------------------------------------------------------------------
(* Orders: the cart, its checkout and the orders *)

Busy(r) == shop[r].stage # "idle"
OnTheCart(r) == shop[r].stage \in CartStages
Writes(r) == shop[r].stage \in {"writing", "shrinking", "ordering"}

\* Neither about to write to the cart nor to move an order.
Off(step) == step.stage \in {"idle", "loading", "pruning"}

\* What a request carries can be written.
Carries(step) ==
  /\ step.stage = "pushing" =>
       /\ Len(step.copy) = 1 /\ step.copy[1].product \in Products /\ step.copy[1].quantity = 1
  /\ step.stage \in {"writing", "shrinking"} =>
       step.at \in DOMAIN step.copy /\ step.copy[step.at].product \in Products
  /\ step.stage = "ordering" =>
       /\ step.at # 0 /\ step.sold \subseteq 1..(step.at - 1)
       /\ step.sold \subseteq DOMAIN step.copy
  /\ step.stage = "moving" => step.at \in DOMAIN ordered /\ step.to \in OrderStatuses
OrdTyped == OrdersTypeOK /\ \A r \in ShopRequests : Carries(shop[r])

\* A move is one the order allows, unless another is under way.
MovesAllowed ==
  /\ \A r \in ShopRequests : shop[r].stage = "moving" =>
       \/ ordered[shop[r].at].rivals
       \/ /\ shop[r].to \in OrderMoves(ordered[shop[r].at].status)
          /\ \A q \in ShopRequests \ {r} : ~(shop[q].stage = "moving" /\ shop[q].at = shop[r].at)
  /\ \A i \in DOMAIN ordered : ordered[i].strayed => ordered[i].rivals

\* One request writes lines or the whole cart, beside others that push a line to it;
\* a checkout is alone.
OneWriter ==
  /\ \A r, q \in ShopRequests : Writes(r) /\ Writes(q) => r = q
  /\ \A r, q \in ShopRequests : shop[r].stage = "ordering" /\ OnTheCart(q) => r = q

\* Its copy is the cart, or it will be refused.
CopyIsCart ==
  \A r \in ShopRequests :
    /\ Writes(r) /\ ~shop[r].stale => shop[r].copy = cart
    /\ shop[r].stage = "ordering" => ~shop[r].stale

\* What a checkout has ordered is in the cart and on an order.
Sold(r, x) ==
  SumFunctionOnSet(Quantities(shop[r].copy), LinesOf(shop[r].copy, x) \cap shop[r].sold)
Balance ==
  \A x \in Products :
    /\ (\A r \in ShopRequests : shop[r].stage # "ordering") =>
         added[x] = Pieces(cart, x) + Pieces(ordered, x) + dropped[x]
    /\ \A r \in ShopRequests : shop[r].stage = "ordering" =>
         added[x] + Sold(r, x) = Pieces(cart, x) + Pieces(ordered, x) + dropped[x]

-----------------------------------------------------------------------------
(* Pieces of a product on lines of any kind *)

Counted(S) == \A line \in S : line.quantity \in Nat

LEMMA LinesFinite ==
  ASSUME NEW S, NEW lines \in Seq(S), NEW x
  PROVE  /\ DOMAIN lines = 1..Len(lines) /\ Len(lines) \in Nat
         /\ IsFiniteSet(DOMAIN lines) /\ IsFiniteSet(LinesOf(lines, x))
         /\ LinesOf(lines, x) \subseteq DOMAIN lines
<1>1. DOMAIN lines = 1..Len(lines) /\ Len(lines) \in Nat
  BY LenProperties
<1>2. IsFiniteSet(1..Len(lines))
  BY <1>1, FS_Interval
<1>3. LinesOf(lines, x) \in SUBSET DOMAIN lines
  BY DEF LinesOf
<1> QED
  BY <1>1, <1>2, <1>3, FS_Subset

LEMMA QuantitiesTyped ==
  ASSUME NEW S, Counted(S), NEW lines \in Seq(S)
  PROVE  \A i \in DOMAIN lines : Quantities(lines)[i] = lines[i].quantity /\ Quantities(lines)[i] \in Nat
BY ElementOfSeq, LenProperties DEF Counted, Quantities

LEMMA PiecesTyped ==
  ASSUME NEW S, Counted(S), NEW lines \in Seq(S), NEW x
  PROVE  Pieces(lines, x) \in Nat
<1>1. IsFiniteSet(LinesOf(lines, x)) /\ \A i \in LinesOf(lines, x) : Quantities(lines)[i] \in Nat
  BY LinesFinite, QuantitiesTyped
<1> QED
  BY <1>1, SumNat DEF Pieces

LEMMA PiecesEmpty == ASSUME NEW x PROVE Pieces(<<>>, x) = 0
<1>1. LinesOf(<<>>, x) = {}
  BY DEF LinesOf
<1> QED
  BY <1>1, SumEmpty DEF Pieces

LEMMA PiecesSame ==
  ASSUME NEW S, NEW lines \in Seq(S), NEW T, NEW others \in Seq(T), Len(lines) = Len(others),
         \A i \in DOMAIN lines : /\ lines[i].product = others[i].product
                                 /\ lines[i].quantity = others[i].quantity,
         NEW x
  PROVE  Pieces(lines, x) = Pieces(others, x)
<1>1. DOMAIN lines = DOMAIN others
  BY LenProperties
<1>2. LinesOf(lines, x) = LinesOf(others, x)
  BY <1>1 DEF LinesOf
<1>3. \A i \in LinesOf(lines, x) : Quantities(lines)[i] = Quantities(others)[i]
  BY <1>1 DEF LinesOf, Quantities
<1>4. IsFiniteSet(LinesOf(lines, x))
  BY LinesFinite
<1>5. SumFunctionOnSet(Quantities(lines), LinesOf(lines, x))
        = SumFunctionOnSet(Quantities(others), LinesOf(lines, x))
  BY <1>3, <1>4, SumSame
<1> QED
  BY <1>2, <1>5 DEF Pieces

LEMMA PiecesAppended ==
  ASSUME NEW S, Counted(S), NEW lines \in Seq(S), NEW line \in S, NEW x
  PROVE  Pieces(Append(lines, line), x)
           = Pieces(lines, x) + (IF line.product = x THEN line.quantity ELSE 0)
<1> DEFINE n == Len(lines) + 1
<1>1. PICK more : more = Append(lines, line)
  OBVIOUS
<1>2. /\ more \in Seq(S) /\ DOMAIN more = DOMAIN lines \cup {n} /\ more[n] = line
      /\ n \notin DOMAIN lines /\ \A i \in DOMAIN lines : more[i] = lines[i]
  BY <1>1, AppendProperties, LenProperties
<1>3. line.quantity \in Nat
  BY DEF Counted
<1> HIDE DEF n
<1>4. \A i \in LinesOf(lines, x) : Quantities(lines)[i] = Quantities(more)[i]
  BY <1>2 DEF LinesOf, Quantities
<1>5. SumFunctionOnSet(Quantities(more), LinesOf(lines, x)) = Pieces(lines, x)
  BY <1>4, SumSame, LinesFinite DEF Pieces
<1>6. CASE line.product = x
  <2>1. LinesOf(more, x) = LinesOf(lines, x) \cup {n} /\ n \notin LinesOf(lines, x)
    BY <1>2, <1>6 DEF LinesOf
  <2>2. Quantities(more)[n] = line.quantity
    BY <1>2 DEF Quantities
  <2>3. \A i \in LinesOf(lines, x) \cup {n} : Quantities(more)[i] \in Int
    BY <1>2, <2>1, QuantitiesTyped DEF LinesOf
  <2>4. SumFunctionOnSet(Quantities(more), LinesOf(lines, x) \cup {n})
          = SumFunctionOnSet(Quantities(more), LinesOf(lines, x)) + Quantities(more)[n]
    BY <2>1, <2>3, SumAdded, LinesFinite
  <2> QED
    BY <1>1, <1>5, <1>6, <2>1, <2>2, <2>4 DEF Pieces
<1>7. CASE line.product # x
  <2>1. LinesOf(more, x) = LinesOf(lines, x)
    BY <1>2, <1>7 DEF LinesOf
  <2>2. Pieces(more, x) = Pieces(lines, x) /\ Pieces(lines, x) \in Nat
    BY <1>5, <2>1, PiecesTyped DEF Pieces
  <2> QED
    BY <1>1, <1>7, <2>2
<1> QED
  BY <1>6, <1>7

\* One line's quantity is another.
Rewritten(lines, others, i, n) ==
  /\ i \in DOMAIN lines /\ n \in Nat /\ Len(others) = Len(lines)
  /\ others[i].product = lines[i].product /\ others[i].quantity = n
  /\ \A j \in DOMAIN lines \ {i} : others[j] = lines[j]

LEMMA PiecesWritten ==
  ASSUME NEW S, Counted(S), NEW lines \in Seq(S), NEW others \in Seq(S), NEW i, NEW n,
         Rewritten(lines, others, i, n), NEW x
  PROVE  /\ lines[i].quantity \in Nat
         /\ Pieces(others, x) = IF lines[i].product = x
                                THEN Pieces(lines, x) - lines[i].quantity + n
                                ELSE Pieces(lines, x)
<1>w. /\ i \in DOMAIN lines /\ n \in Nat /\ Len(others) = Len(lines)
      /\ others[i].product = lines[i].product /\ others[i].quantity = n
      /\ \A j \in DOMAIN lines \ {i} : others[j] = lines[j]
  BY DEF Rewritten
<1>1. DOMAIN others = DOMAIN lines
  BY <1>w, LenProperties
<1>2. lines[i].quantity \in Nat
  BY <1>w, ElementOfSeq, LenProperties DEF Counted
<1>3. CASE lines[i].product # x
  <2>1. LinesOf(others, x) = LinesOf(lines, x) /\ i \notin LinesOf(lines, x)
    BY <1>w, <1>1, <1>3 DEF LinesOf
  <2>2. \A j \in LinesOf(lines, x) : Quantities(lines)[j] = Quantities(others)[j]
    BY <1>w, <1>1, <2>1 DEF LinesOf, Quantities
  <2>3. Pieces(others, x) = Pieces(lines, x)
    BY <1>w, <2>1, <2>2, SumSame, LinesFinite DEF Pieces
  <2> QED
    BY <1>w, <1>2, <1>3, <2>3
<1>4. CASE lines[i].product = x
  <2>1. PICK rest : rest = LinesOf(lines, x) \ {i}
    OBVIOUS
  <2>2. /\ LinesOf(others, x) = rest \cup {i} /\ LinesOf(lines, x) = rest \cup {i} /\ i \notin rest
    BY <1>w, <1>1, <1>4, <2>1 DEF LinesOf
  <2>3. IsFiniteSet(rest)
    BY <1>w, <2>1, LinesFinite, FS_Subset
  <2>4. \A j \in rest : Quantities(lines)[j] = Quantities(others)[j]
    BY <1>w, <1>1, <2>1 DEF LinesOf, Quantities
  <2>5. /\ \A j \in rest \cup {i} : Quantities(lines)[j] \in Int /\ Quantities(others)[j] \in Int
        /\ Quantities(lines)[i] = lines[i].quantity /\ Quantities(others)[i] = n
    <3>1. \A j \in rest \cup {i} : j \in DOMAIN lines /\ j \in DOMAIN others
      BY <1>w, <1>1, <2>2 DEF LinesOf
    <3>2. \A j \in DOMAIN lines : Quantities(lines)[j] = lines[j].quantity /\ Quantities(lines)[j] \in Nat
      BY <1>w, QuantitiesTyped
    <3>3. \A j \in DOMAIN others : Quantities(others)[j] = others[j].quantity /\ Quantities(others)[j] \in Nat
      BY <1>w, QuantitiesTyped
    <3> QED
      BY <1>w, <3>1, <3>2, <3>3
  <2>6. SumFunctionOnSet(Quantities(lines), rest) = SumFunctionOnSet(Quantities(others), rest)
    BY <1>w, <2>3, <2>4, SumSame
  <2>7. SumFunctionOnSet(Quantities(others), rest) \in Int
    BY <1>w, <2>3, <2>5, SumTyped
  <2>8. Pieces(lines, x) = SumFunctionOnSet(Quantities(lines), rest) + lines[i].quantity
    <3>1. SumFunctionOnSet(Quantities(lines), rest \cup {i})
            = SumFunctionOnSet(Quantities(lines), rest) + Quantities(lines)[i]
      BY <1>w, <2>2, <2>3, <2>5, SumAdded
    <3> QED
      BY <1>w, <2>2, <2>5, <3>1 DEF Pieces
  <2>9. Pieces(others, x) = SumFunctionOnSet(Quantities(others), rest) + n
    <3>1. SumFunctionOnSet(Quantities(others), rest \cup {i})
            = SumFunctionOnSet(Quantities(others), rest) + Quantities(others)[i]
      BY <1>w, <2>2, <2>3, <2>5, SumAdded
    <3> QED
      BY <1>w, <2>2, <2>5, <3>1 DEF Pieces
  <2> QED
    BY <1>w, <1>2, <1>4, <2>6, <2>7, <2>8, <2>9
<1> QED
  BY <1>w, <1>3, <1>4

-----------------------------------------------------------------------------
IsKept(k, lines, gone) ==
  k = [i \in 0..Len(lines) |->
         IF i = 0 THEN <<>>
         ELSE IF lines[i].product \in gone THEN k[i - 1] ELSE Append(k[i - 1], lines[i])]

LEMMA KeptExists ==
  ASSUME NEW S, NEW lines \in Seq(S), NEW gone
  PROVE  \E k : IsKept(k, lines, gone)
<1> DEFINE Upto(k, n) == k = [i \in 0..n |->
                                IF i = 0 THEN <<>>
                                ELSE IF lines[i].product \in gone THEN k[i - 1]
                                ELSE Append(k[i - 1], lines[i])]
           Bad == {n \in Nat : ~ \E k : Upto(k, n)}
<1>1. 0 \notin Bad
  <2>1. 0..0 = {0}
    OBVIOUS
  <2>2. Upto([i \in {0} |-> <<>>], 0)
    BY <2>1
  <2> QED
    BY <2>2
<1>2. ASSUME NEW n \in Nat, NEW k, Upto(k, n) PROVE n + 1 \notin Bad
  <2> DEFINE h == [i \in 0..(n + 1) |->
                     IF i = 0 THEN <<>>
                     ELSE IF lines[i].product \in gone THEN k[i - 1] ELSE Append(k[i - 1], lines[i])]
  <2>1. \A i \in 0..n : i \in 0..(n + 1)
    OBVIOUS
  <2>2. \A i \in 0..(n + 1) : i # 0 => i - 1 \in 0..n
    OBVIOUS
  <2>3. \A i \in 0..n : k[i] = h[i]
    BY <1>2, <2>1
  <2>4. h = [i \in 0..(n + 1) |->
               IF i = 0 THEN <<>>
               ELSE IF lines[i].product \in gone THEN h[i - 1] ELSE Append(h[i - 1], lines[i])]
    BY <2>2, <2>3
  <2> QED
    BY <2>4
<1>3. Bad \subseteq Nat /\ \A n \in Nat : n \notin Bad => \E k : Upto(k, n)
  OBVIOUS
<1>4. Bad = {}
  <2> HIDE DEF Bad, Upto
  <2> SUFFICES ASSUME Bad # {} PROVE FALSE
    OBVIOUS
  <2>1. PICK m \in Bad : \A n \in Bad : m <= n
    BY <1>3, Least
  <2>2. m # 0 /\ m \in Nat
    BY <1>1, <1>3, <2>1
  <2>3. m - 1 \in Nat /\ ~(m <= m - 1) /\ (m - 1) + 1 = m
    BY <2>2
  <2>4. m - 1 \notin Bad
    BY <2>1, <2>3
  <2>5. (m - 1) + 1 \notin Bad
    BY <1>2, <1>3, <2>3, <2>4
  <2> QED
    BY <2>1, <2>3, <2>5
<1>5. \E k : Upto(k, Len(lines))
  BY <1>3, <1>4, LenProperties
<1> QED
  BY <1>5 DEF IsKept

\* Lines of the products gone go, and nothing else changes.
LEMMA PiecesWithout ==
  ASSUME NEW S, Counted(S), NEW lines \in Seq(S), NEW gone
  PROVE  /\ Without(lines, gone) \in Seq(S)
         /\ \A y \in gone : Pieces(Without(lines, gone), y) = 0
         /\ \A y : y \notin gone => Pieces(Without(lines, gone), y) = Pieces(lines, y)
<1> DEFINE k == CHOOSE k : IsKept(k, lines, gone)
           First(y, n) == SumFunctionOnSet(Quantities(lines), {i \in 1..n : lines[i].product = y})
           Right(n) == /\ k[n] \in Seq(S)
                       /\ \A y \in gone : Pieces(k[n], y) = 0
                       /\ \A y : y \notin gone => Pieces(k[n], y) = First(y, n)
           Bad == {n \in 0..Len(lines) : ~Right(n)}
<1>1. IsKept(k, lines, gone)
  BY KeptExists
<1>2. Without(lines, gone) = k[Len(lines)]
  BY DEF Without, IsKept
<1>3. Len(lines) \in Nat /\ DOMAIN lines = 1..Len(lines)
  BY LenProperties
<1> HIDE DEF k
<1>4. Right(0)
  <2>1. k[0] = <<>>
    BY <1>1, <1>3 DEF IsKept
  <2>2. \A y : {i \in 1..0 : lines[i].product = y} = {}
    OBVIOUS
  <2>3. \A y : First(y, 0) = 0
    BY <2>2, SumEmpty
  <2>4. \A y : Pieces(k[0], y) = 0
    BY <2>1, PiecesEmpty
  <2>5. k[0] \in Seq(S)
    BY <2>1
  <2> HIDE DEF First
  <2> QED
    BY <2>3, <2>4, <2>5
<1>5. ASSUME NEW n \in 0..Len(lines), n # 0, Right(n - 1) PROVE Right(n)
  <2>1. k[n] = IF lines[n].product \in gone THEN k[n - 1] ELSE Append(k[n - 1], lines[n])
    BY <1>1, <1>3, <1>5 DEF IsKept
  <2>2. n \in DOMAIN lines /\ lines[n] \in S /\ lines[n].quantity \in Nat
    BY <1>3, <1>5, ElementOfSeq DEF Counted
  <2>3. ASSUME NEW y
        PROVE  First(y, n) = First(y, n - 1) + (IF lines[n].product = y THEN lines[n].quantity ELSE 0)
    <3>1. PICK A : A = {i \in 1..(n - 1) : lines[i].product = y}
      OBVIOUS
    <3>2. {i \in 1..n : lines[i].product = y} = (IF lines[n].product = y THEN A \cup {n} ELSE A)
          /\ n \notin A /\ A \subseteq DOMAIN lines
      BY <1>3, <1>5, <3>1
    <3>3. IsFiniteSet(A)
      BY <3>2, LinesFinite, FS_Subset
    <3>4. \A i \in A \cup {n} : Quantities(lines)[i] \in Int
      BY <2>2, <3>2, QuantitiesTyped
    <3>5. Quantities(lines)[n] = lines[n].quantity
      BY <2>2, QuantitiesTyped
    <3>6. SumFunctionOnSet(Quantities(lines), A \cup {n})
            = SumFunctionOnSet(Quantities(lines), A) + lines[n].quantity
      BY <3>2, <3>3, <3>4, <3>5, SumAdded
    <3>7. SumFunctionOnSet(Quantities(lines), A) \in Int
      BY <3>3, <3>4, SumTyped
    <3>8. First(y, n - 1) = SumFunctionOnSet(Quantities(lines), A)
      BY <3>1
    <3>9. CASE lines[n].product = y
      <4>1. First(y, n) = SumFunctionOnSet(Quantities(lines), A \cup {n})
        BY <3>2, <3>9
      <4> HIDE DEF First
      <4> QED
        BY <3>6, <3>8, <3>9, <4>1
    <3>10. CASE lines[n].product # y
      <4>1. First(y, n) = SumFunctionOnSet(Quantities(lines), A)
        BY <3>2, <3>10
      <4> HIDE DEF First
      <4> QED
        BY <3>7, <3>8, <3>10, <4>1
    <3> HIDE DEF First
    <3> QED
      BY <3>9, <3>10
  <2>4. \A y : First(y, n - 1) = Pieces(k[n - 1], y) \/ y \in gone
    BY <1>5
  <2>5. \A y : Pieces(k[n - 1], y) \in Nat
    BY <1>5, PiecesTyped
  <2> HIDE DEF First
  <2>6. CASE lines[n].product \in gone
    <3>1. \A y : y \notin gone => First(y, n) = Pieces(k[n - 1], y)
      BY <2>3, <2>4, <2>5, <2>6
    <3> QED
      BY <1>5, <2>1, <2>6, <3>1
  <2>7. CASE lines[n].product \notin gone
    <3>1. k[n] = Append(k[n - 1], lines[n]) /\ k[n - 1] \in Seq(S) /\ k[n] \in Seq(S)
      BY <1>5, <2>1, <2>2, <2>7, AppendProperties
    <3>2. \A y : Pieces(k[n], y)
                   = Pieces(k[n - 1], y) + (IF lines[n].product = y THEN lines[n].quantity ELSE 0)
      BY <2>2, <3>1, PiecesAppended
    <3>3. \A y \in gone : Pieces(k[n], y) = 0
      BY <1>5, <2>7, <3>2
    <3>4. \A y : y \notin gone => Pieces(k[n], y) = First(y, n)
      BY <2>3, <2>4, <3>2
    <3> QED
      BY <3>1, <3>3, <3>4
  <2> QED
    BY <2>6, <2>7
<1>6. Bad = {}
  <2> SUFFICES ASSUME Bad # {} PROVE FALSE
    OBVIOUS
  <2>1. Bad \in SUBSET Nat /\ Bad \subseteq 0..Len(lines)
    BY <1>3
  <2>2. \A n \in 0..Len(lines) : n \notin Bad <=> Right(n)
    OBVIOUS
  <2> HIDE DEF Bad, Right
  <2>3. PICK m \in Bad : \A n \in Bad : m <= n
    BY <2>1, Least
  <2>4. m # 0 /\ m \in 0..Len(lines)
    BY <1>3, <1>4, <2>1, <2>2, <2>3
  <2>5. m - 1 \in 0..Len(lines) /\ ~(m <= m - 1)
    BY <1>3, <2>4
  <2>6. Right(m - 1)
    BY <2>2, <2>3, <2>5
  <2>7. Right(m)
    BY <1>5, <2>4, <2>6
  <2> QED
    BY <2>2, <2>3, <2>4, <2>7
<1>7. Right(Len(lines))
  <2>1. \A n \in 0..Len(lines) : n \notin Bad => Right(n)
    OBVIOUS
  <2> HIDE DEF Bad, Right
  <2> QED
    BY <1>3, <1>6, <2>1
<1>8. \A y : First(y, Len(lines)) = Pieces(lines, y)
  BY <1>3 DEF Pieces, LinesOf
<1> HIDE DEF First
<1> QED
  BY <1>2, <1>7, <1>8

-----------------------------------------------------------------------------
LEMMA LinesCounted == Counted(Line) /\ Counted(MarketOrder)
BY DEF Counted, Line, MarketOrder

LEMMA NoShopTyped == NoShop \in Shopping /\ NoShop.stage = "idle"
<1>1. <<>> \in Seq(Line)
  OBVIOUS
<1> QED
  BY <1>1 DEF NoShop, Shopping

LEMMA OffTyped ==
  /\ NoShop \in Shopping /\ Off(NoShop) /\ Loading \in Shopping /\ Off(Loading)
  /\ \A step \in Shopping : Off(step) => Carries(step) /\ step.stage \notin CartStages
                                          /\ step.stage # "moving"
<1>1. <<>> \in Seq(Line)
  OBVIOUS
<1>2. Loading \in Shopping /\ Loading.stage = "loading"
  BY <1>1 DEF Loading, NoShop, Shopping
<1> QED
  BY <1>2, NoShopTyped DEF Off, Carries, CartStages

LEMMA PlaceIs ==
  ASSUME NEW lines \in Seq(Line), NEW x
  PROVE  /\ PlaceIn(lines, x) \in Nat
         /\ PlaceIn(lines, x) # 0 =>
              PlaceIn(lines, x) \in DOMAIN lines /\ lines[PlaceIn(lines, x)].product = x
<1> DEFINE I == {i \in 1..Len(lines) : lines[i].product = x}
<1>1. I \in SUBSET Nat /\ DOMAIN lines = 1..Len(lines) /\ I \subseteq DOMAIN lines
  BY LenProperties
<1>2. PlaceIn(lines, x) = IF I # {} THEN CHOOSE i \in I : \A j \in I : i <= j ELSE 0
  BY DEF PlaceIn, SelectInSeq, Min
<1>3. \A i \in I : lines[i].product = x
  OBVIOUS
<1> HIDE DEF I
<1>4. CASE I = {}
  BY <1>2, <1>4
<1>5. CASE I # {}
  <2>1. \E i \in I : \A j \in I : i <= j
    BY <1>1, <1>5, Least
  <2>2. PlaceIn(lines, x) \in I
    BY <1>2, <1>5, <2>1
  <2> QED
    BY <1>1, <1>3, <2>2
<1> QED
  BY <1>4, <1>5

LEMMA ShopIs ==
  ASSUME OrdersTypeOK, NEW r \in ShopRequests, NEW next \in Shopping,
         shop' = [shop EXCEPT ![r] = next]
  PROVE  /\ shop' \in [ShopRequests -> Shopping] /\ shop'[r] = next
         /\ \A q \in ShopRequests \ {r} : shop'[q] = shop[q]
BY DEF OrdersTypeOK

SameErrand(s, t) ==
  /\ s.stage = t.stage /\ s.copy = t.copy /\ s.at = t.at /\ s.quantity = t.quantity
  /\ s.sold = t.sold /\ s.to = t.to

LEMMA ShopPushed ==
  ASSUME OrdersTypeOK, NEW r \in ShopRequests, NEW next \in Shopping, ShopPushes(r, next)
  PROVE  /\ shop' \in [ShopRequests -> Shopping] /\ shop'[r] = next
         /\ \A q \in ShopRequests \ {r} :
              SameErrand(shop'[q], shop[q]) /\ (shop[q].stage \in CartStages => shop'[q].stale)
<1>1. \A q \in ShopRequests \ {r} :
        shop'[q] = IF shop[q].stage \in CartStages \cup {"pruning"}
                   THEN [shop[q] EXCEPT !.stale = TRUE] ELSE shop[q]
  BY DEF ShopPushes
<1>2. ASSUME NEW step \in Shopping
      PROVE  /\ [step EXCEPT !.stale = TRUE] \in Shopping
             /\ SameErrand([step EXCEPT !.stale = TRUE], step) /\ SameErrand(step, step)
             /\ [step EXCEPT !.stale = TRUE].stale
  BY DEF Shopping, SameErrand
<1>3. \A q \in ShopRequests : shop[q] \in Shopping
  BY DEF OrdersTypeOK
<1>4. shop'[r] = next
  BY DEF ShopPushes
<1>5. \A q \in ShopRequests \ {r} :
        /\ SameErrand(shop'[q], shop[q]) /\ shop'[q] \in Shopping
        /\ shop[q].stage \in CartStages => shop'[q].stale
  BY <1>1, <1>2, <1>3
<1>6. shop' \in [ShopRequests -> Shopping]
  BY <1>4, <1>5 DEF ShopPushes
<1> QED
  BY <1>4, <1>5, <1>6

LEMMA CarriesOn ==
  ASSUME NEW q \in ShopRequests, Carries(shop[q]), SameErrand(shop'[q], shop[q]),
         DOMAIN ordered \subseteq DOMAIN ordered'
  PROVE  Carries(shop[q])'
BY DEF Carries, SameErrand

\* A request takes a step, and the others are where they were.
LEMMA StepTyped ==
  ASSUME OrdTyped, NEW r \in ShopRequests, NEW next \in Shopping,
         shop' = [shop EXCEPT ![r] = next], Carries(next)',
         cart' \in Seq(Line), listed' \subseteq Products, ordered' \in Seq(MarketOrder),
         DOMAIN ordered \subseteq DOMAIN ordered',
         added' \in [Products -> Nat], dropped' \in [Products -> Nat], jumbled' \in BOOLEAN
  PROVE  OrdTyped'
<1>1. /\ shop' \in [ShopRequests -> Shopping] /\ shop'[r] = next
      /\ \A q \in ShopRequests \ {r} : shop'[q] = shop[q]
  BY ShopIs DEF OrdTyped
<1>2. \A q \in ShopRequests \ {r} : Carries(shop[q])'
  BY <1>1, CarriesOn DEF OrdTyped, SameErrand
<1>3. Carries(shop[r])'
  BY <1>1
<1> QED
  BY <1>1, <1>2, <1>3 DEF OrdTyped, OrdersTypeOK

LEMMA PushTyped ==
  ASSUME OrdTyped, NEW r \in ShopRequests, NEW next \in Shopping, Off(next),
         ShopPushes(r, next),
         cart' \in Seq(Line), UNCHANGED <<listed, ordered>>,
         added' \in [Products -> Nat], dropped' \in [Products -> Nat], jumbled' \in BOOLEAN
  PROVE  OrdTyped'
<1>1. /\ shop' \in [ShopRequests -> Shopping] /\ shop'[r] = next
      /\ \A q \in ShopRequests \ {r} : SameErrand(shop'[q], shop[q])
  BY ShopPushed DEF OrdTyped
<1>2. \A q \in ShopRequests \ {r} : Carries(shop[q])'
  BY <1>1, CarriesOn DEF OrdTyped
<1>3. Carries(shop[r])'
  BY <1>1 DEF Off, Carries
<1> QED
  BY <1>1, <1>2, <1>3 DEF OrdTyped, OrdersTypeOK

\* Nobody's request moves.
LEMMA StillTyped ==
  ASSUME OrdTyped, UNCHANGED shop,
         cart' \in Seq(Line), listed' \subseteq Products, ordered' \in Seq(MarketOrder),
         DOMAIN ordered \subseteq DOMAIN ordered',
         added' \in [Products -> Nat], dropped' \in [Products -> Nat], jumbled' \in BOOLEAN
  PROVE  OrdTyped'
<1>1. \A q \in ShopRequests : Carries(shop[q])'
  BY CarriesOn DEF OrdTyped, SameErrand
<1> QED
  BY <1>1 DEF OrdTyped, OrdersTypeOK

-----------------------------------------------------------------------------
CartInv == OneWriter /\ CopyIsCart /\ Balance

\* What beginning a request on the cart does.
CartBegins(r, next) ==
  /\ shop[r].stage = "idle" /\ shop' = [shop EXCEPT ![r] = next]
  /\ next.stage \in CartStages /\ ~next.stale /\ Carries(next) /\ next.sold = {}
  /\ next.stage # "pushing" => next.copy = cart
  /\ jumbled' = (jumbled \/ IF next.stage = "pushing" THEN OnCheckout(r) ELSE OnCart(r))
  /\ UNCHANGED <<cart, listed, ordered, added, dropped>>

LEMMA AddBegins ==
  ASSUME OrdTyped, NEW r \in ShopRequests, NEW x \in Products, AddCartItem(r, x)
  PROVE  \E next \in Shopping : CartBegins(r, next)
<1> DEFINE i == PlaceIn(cart, x)
           line == [product |-> x, quantity |-> 1]
           next == IF i = 0 THEN [NoShop EXCEPT !.stage = "pushing", !.copy = <<line>>]
                   ELSE [NoShop EXCEPT !.stage = "writing", !.copy = cart, !.at = i,
                                       !.quantity = cart[i].quantity + 1]
<1>1. cart \in Seq(Line)
  BY DEF OrdTyped, OrdersTypeOK
<1>2. i \in Nat /\ (i # 0 => i \in DOMAIN cart /\ cart[i].product = x)
  BY <1>1, PlaceIs
<1>3. /\ shop[r].stage = "idle" /\ shop' = [shop EXCEPT ![r] = next]
      /\ jumbled' = (jumbled \/ IF i = 0 THEN OnCheckout(r) ELSE OnCart(r))
      /\ UNCHANGED <<cart, listed, ordered, added, dropped>>
  BY DEF AddCartItem, Shops
<1>4. NoShop \in Shopping /\ NoShop.sold = {} /\ ~NoShop.stale
  BY NoShopTyped DEF NoShop
<1>5. CASE i = 0
  <2>1. line \in Line /\ <<line>> \in Seq(Line) /\ Len(<<line>>) = 1 /\ <<line>>[1] = line
    BY DEF Line
  <2>2. /\ next \in Shopping /\ next.stage = "pushing" /\ next.copy = <<line>>
        /\ ~next.stale /\ next.sold = {}
    BY <1>4, <1>5, <2>1 DEF Shopping
  <2>3. Carries(next)
    BY <2>1, <2>2 DEF Carries
  <2> HIDE DEF next, i
  <2> QED
    BY <1>3, <1>5, <2>2, <2>3 DEF CartBegins, CartStages
<1>6. CASE i # 0
  <2>0. cart[i] \in Line
    BY <1>1, <1>2, <1>6, ElementOfSeq, LenProperties
  <2>1. cart[i].quantity + 1 \in Nat
    BY <2>0 DEF Line
  <2>2. /\ next \in Shopping /\ next.stage = "writing" /\ next.copy = cart /\ next.at = i
        /\ ~next.stale /\ next.sold = {}
    BY <1>1, <1>2, <1>4, <1>6, <2>1 DEF Shopping
  <2>3. Carries(next)
    BY <1>2, <1>6, <2>2 DEF Carries
  <2> HIDE DEF next, i
  <2> QED
    BY <1>3, <1>6, <2>2, <2>3 DEF CartBegins, CartStages
<1> QED
  BY <1>5, <1>6

LEMMA SetBegins ==
  ASSUME OrdTyped, NEW r \in ShopRequests, NEW x \in Products, NEW n \in 1..MaxAdded,
         SetCartItem(r, x, n)
  PROVE  \E next \in Shopping : CartBegins(r, next)
<1> DEFINE i == PlaceIn(cart, x)
           next == [NoShop EXCEPT !.stage = "writing", !.copy = cart, !.at = i, !.quantity = n]
<1>1. cart \in Seq(Line) /\ n \in Nat
  BY OrdersAssumption DEF OrdTyped, OrdersTypeOK
<1>2. i \in Nat /\ i # 0 /\ i \in DOMAIN cart /\ cart[i].product = x
  BY <1>1, PlaceIs DEF SetCartItem
<1>3. /\ shop[r].stage = "idle" /\ shop' = [shop EXCEPT ![r] = next]
      /\ jumbled' = (jumbled \/ OnCart(r))
      /\ UNCHANGED <<cart, listed, ordered, added, dropped>>
  BY DEF SetCartItem, Shops
<1>4. NoShop \in Shopping /\ NoShop.sold = {} /\ ~NoShop.stale
  BY NoShopTyped DEF NoShop
<1>5. /\ next \in Shopping /\ next.stage = "writing" /\ next.copy = cart /\ next.at = i
      /\ ~next.stale /\ next.sold = {}
  BY <1>1, <1>2, <1>4 DEF Shopping
<1>6. Carries(next)
  BY <1>2, <1>5 DEF Carries
<1> HIDE DEF next, i
<1> QED
  BY <1>3, <1>5, <1>6 DEF CartBegins, CartStages

LEMMA SetToZeroBegins ==
  ASSUME OrdTyped, NEW r \in ShopRequests, NEW x \in Products, SetCartItemToZero(r, x)
  PROVE  \E next \in Shopping : CartBegins(r, next)
<1> DEFINE i == PlaceIn(cart, x)
           next == [NoShop EXCEPT !.stage = "shrinking", !.at = i, !.copy = cart]
<1>1. cart \in Seq(Line)
  BY DEF OrdTyped, OrdersTypeOK
<1>2. i \in Nat /\ i \in DOMAIN cart /\ cart[i].product = x
  BY <1>1, PlaceIs DEF SetCartItemToZero
<1>3. /\ shop[r].stage = "idle" /\ shop' = [shop EXCEPT ![r] = next]
      /\ jumbled' = (jumbled \/ OnCart(r))
      /\ UNCHANGED <<cart, listed, ordered, added, dropped>>
  BY DEF SetCartItemToZero, Shops
<1>4. NoShop \in Shopping /\ NoShop.sold = {} /\ ~NoShop.stale
  BY NoShopTyped DEF NoShop
<1>5. /\ next \in Shopping /\ next.stage = "shrinking" /\ next.copy = cart /\ next.at = i
      /\ ~next.stale /\ next.sold = {}
  BY <1>1, <1>2, <1>4 DEF Shopping
<1>6. Carries(next)
  BY <1>2, <1>5 DEF Carries
<1> HIDE DEF next, i
<1> QED
  BY <1>3, <1>5, <1>6 DEF CartBegins, CartStages

LEMMA CheckoutBegins ==
  ASSUME OrdTyped, NEW r \in ShopRequests, CheckoutCart(r)
  PROVE  \E next \in Shopping : CartBegins(r, next)
<1> DEFINE next == [NoShop EXCEPT !.stage = "ordering", !.copy = cart, !.at = 1]
<1>1. cart \in Seq(Line)
  BY DEF OrdTyped, OrdersTypeOK
<1>2. /\ shop[r].stage = "idle" /\ shop' = [shop EXCEPT ![r] = next]
      /\ jumbled' = (jumbled \/ OnCart(r))
      /\ UNCHANGED <<cart, listed, ordered, added, dropped>>
  BY DEF CheckoutCart, Shops
<1>3. NoShop \in Shopping /\ NoShop.sold = {} /\ ~NoShop.stale
  BY NoShopTyped DEF NoShop
<1>4. /\ next \in Shopping /\ next.stage = "ordering" /\ next.copy = cart /\ next.at = 1
      /\ ~next.stale /\ next.sold = {}
  BY <1>1, <1>3 DEF Shopping
<1>5. Carries(next)
  BY <1>4 DEF Carries
<1> HIDE DEF next
<1> QED
  BY <1>2, <1>4, <1>5 DEF CartBegins, CartStages

LEMMA MovesKept ==
  ASSUME OrdTyped, MovesAllowed,
         DOMAIN ordered \subseteq DOMAIN ordered',
         \A i \in DOMAIN ordered : ordered'[i] = ordered[i],
         \A i \in DOMAIN ordered' \ DOMAIN ordered : ~ordered'[i].strayed,
         \A q \in ShopRequests : shop'[q].stage = "moving" =>
           shop[q].stage = "moving" /\ shop'[q].at = shop[q].at /\ shop'[q].to = shop[q].to
  PROVE  MovesAllowed'
<1>1. \A q \in ShopRequests : shop[q].stage = "moving" => shop[q].at \in DOMAIN ordered
  BY DEF OrdTyped, Carries
<1> QED
  BY <1>1 DEF MovesAllowed

LEMMA BeginsInv ==
  ASSUME OrdTyped, MovesAllowed, ~jumbled => CartInv, NEW r \in ShopRequests,
         NEW next \in Shopping, CartBegins(r, next)
  PROVE  OrdTyped' /\ MovesAllowed' /\ (~jumbled' => CartInv')
<1>t. OrdersTypeOK
  BY DEF OrdTyped
<1>1. /\ shop'[r] = next /\ \A q \in ShopRequests \ {r} : shop'[q] = shop[q]
      /\ UNCHANGED <<cart, listed, ordered, added, dropped>>
  BY <1>t, ShopIs DEF CartBegins
<1>2. OrdTyped'
  <2>1. Carries(next)'
    BY <1>1 DEF CartBegins, Carries
  <2>2. jumbled' \in BOOLEAN
    BY <1>t DEF CartBegins, OrdersTypeOK, OnCheckout, OnCart
  <2> QED
    BY <1>t, <1>1, <2>1, <2>2, StepTyped DEF CartBegins, OrdersTypeOK
<1>3. MovesAllowed'
  BY <1>1, MovesKept DEF CartBegins, CartStages
<1>4. ASSUME ~jumbled' PROVE CartInv'
  <2>1. CartInv /\ ~(IF next.stage = "pushing" THEN OnCheckout(r) ELSE OnCart(r))
    BY <1>4 DEF CartBegins
  <2>2. \A q \in ShopRequests \ {r} :
          /\ next.stage = "pushing" => shop[q].stage # "ordering"
          /\ next.stage # "pushing" => ~OnTheCart(q)
    BY <2>1 DEF OnCheckout, OnCart, OnTheCart
  <2>3. OneWriter'
    BY <1>1, <2>1, <2>2 DEF CartBegins, CartInv, OneWriter, Writes, OnTheCart, CartStages
  <2>4. CopyIsCart'
    BY <1>1, <2>1 DEF CartBegins, CartInv, CopyIsCart, Writes, CartStages
  <2>5. Balance'
    <3>1. ASSUME NEW x \in Products, next.stage = "ordering"
          PROVE  Sold(r, x)' = 0
      <4>1. LinesOf(next.copy, x) \cap next.sold = {}
        BY DEF CartBegins
      <4> QED
        BY <1>1, <4>1, SumEmpty DEF Sold
    <3>2. ASSUME NEW x \in Products, NEW q \in ShopRequests \ {r} PROVE Sold(q, x)' = Sold(q, x)
      BY <1>1 DEF Sold
    <3>3. shop[r].stage = "idle"
      BY DEF CartBegins
    <3>4. next.stage = "ordering" => \A q \in ShopRequests : shop[q].stage # "ordering"
      BY <2>2, <3>3 DEF OnTheCart, CartStages
    <3>5. \A x \in Products : added[x] \in Nat
      BY <1>t DEF OrdersTypeOK
    <3>6. CASE next.stage = "ordering"
      <4>1. ASSUME NEW x \in Products
            PROVE  added[x] = Pieces(cart, x) + Pieces(ordered, x) + dropped[x]
        BY <2>1, <3>4, <3>6 DEF CartInv, Balance
      <4>2. ASSUME NEW x \in Products
            PROVE  added[x] + Sold(r, x)' = Pieces(cart, x) + Pieces(ordered, x) + dropped[x]
        BY <3>1, <3>5, <3>6, <4>1
      <4> QED
        BY <1>1, <3>4, <3>6, <4>2 DEF Balance
    <3>7. CASE next.stage # "ordering"
      BY <1>1, <2>1, <3>2, <3>3, <3>7 DEF CartInv, Balance
    <3> QED
      BY <3>6, <3>7
  <2> QED
    BY <2>3, <2>4, <2>5 DEF CartInv
<1> QED
  BY <1>2, <1>3, <1>4

-----------------------------------------------------------------------------
OrdInv == OrdTyped /\ MovesAllowed /\ (~jumbled => CartInv)

LEMMA SoldNone ==
  ASSUME NEW r \in ShopRequests, shop[r].sold = {}, NEW x PROVE Sold(r, x) = 0
<1>1. LinesOf(shop[r].copy, x) \cap shop[r].sold = {}
  OBVIOUS
<1> QED
  BY <1>1, SumEmpty DEF Sold

\* The cart and who is on it are as they were.
LEMMA CartKept ==
  ASSUME ~jumbled => CartInv, UNCHANGED <<cart, added, dropped, jumbled>>,
         \A x \in Products : Pieces(ordered', x) = Pieces(ordered, x),
         \A q \in ShopRequests : OnTheCart(q) \/ OnTheCart(q)' => shop'[q] = shop[q]
  PROVE  ~jumbled' => CartInv'
<1> SUFFICES ASSUME ~jumbled' PROVE CartInv'
  OBVIOUS
<1>1. CartInv
  OBVIOUS
<1>2. \A q \in ShopRequests : /\ Writes(q) => OnTheCart(q)
                              /\ Writes(q)' => OnTheCart(q)'
                              /\ shop[q].stage = "ordering" => OnTheCart(q)
                              /\ shop'[q].stage = "ordering" => OnTheCart(q)'
  BY DEF Writes, OnTheCart, CartStages
<1>3. OneWriter'
  BY <1>1, <1>2 DEF CartInv, OneWriter, Writes, OnTheCart
<1>4. CopyIsCart'
  BY <1>1, <1>2 DEF CartInv, CopyIsCart, Writes
<1>5. \A q \in ShopRequests : (shop'[q].stage = "ordering" <=> shop[q].stage = "ordering")
  BY <1>2
<1>6. \A q \in ShopRequests, x \in Products : shop'[q].stage = "ordering" => Sold(q, x)' = Sold(q, x)
  BY <1>2 DEF Sold
<1>7. Balance'
  BY <1>1, <1>5, <1>6 DEF CartInv, Balance
<1> QED
  BY <1>3, <1>4, <1>7 DEF CartInv

\* A request ends, or goes on off the cart, and nothing else changes.
LEMMA EndsInv ==
  ASSUME OrdInv, NEW r \in ShopRequests, NEW next \in Shopping, Off(next),
         ShopGoesOn(r, next),
         UNCHANGED <<cart, listed, ordered, added, dropped>>, jumbled' \in BOOLEAN,
         jumbled => jumbled',
         ~jumbled' /\ shop[r].stage = "ordering" => shop[r].sold = {}
  PROVE  OrdInv'
<1>t. OrdTyped /\ OrdersTypeOK /\ MovesAllowed /\ (~jumbled => CartInv)
  BY DEF OrdInv, OrdTyped
<1>1. /\ shop'[r] = next /\ \A q \in ShopRequests \ {r} : shop'[q] = shop[q]
  BY <1>t, ShopIs DEF ShopGoesOn
<1>n. next.stage \notin CartStages /\ next.stage \notin {"moving", "writing", "shrinking", "ordering"}
  BY OffTyped DEF CartStages
<1>2. OrdTyped'
  <2>1. Carries(next)'
    BY DEF Carries, Off
  <2> QED
    BY <1>t, <2>1, StepTyped DEF ShopGoesOn, OrdersTypeOK
<1>3. MovesAllowed'
  BY <1>t, <1>1, MovesKept, <1>n
<1>4. ASSUME ~jumbled' PROVE CartInv'
  <2>1. CartInv
    BY <1>t, <1>4
  <2>2. OneWriter' /\ CopyIsCart'
    BY <1>1, <2>1, <1>n DEF CartInv, OneWriter, CopyIsCart, Writes, OnTheCart, CartStages
  <2>3. CASE shop[r].stage = "ordering"
    <3>1. \A q \in ShopRequests : shop'[q].stage # "ordering"
      BY <1>1, <2>1, <2>3, <1>n DEF CartInv, OneWriter, Writes
    <3>2. ASSUME NEW x \in Products
          PROVE  added[x] = Pieces(cart, x) + Pieces(ordered, x) + dropped[x]
      <4>1. Sold(r, x) = 0
        BY <1>4, <2>3, SoldNone
      <4>2. added[x] + Sold(r, x) = Pieces(cart, x) + Pieces(ordered, x) + dropped[x]
        BY <2>1, <2>3 DEF CartInv, Balance
      <4>3. added[x] \in Nat
        BY <1>t DEF OrdersTypeOK
      <4> QED
        BY <4>1, <4>2, <4>3
    <3> QED
      BY <2>2, <3>1, <3>2 DEF CartInv, Balance
  <2>4. CASE shop[r].stage # "ordering"
    <3>1. \A q \in ShopRequests : shop'[q].stage = "ordering" <=> shop[q].stage = "ordering"
      BY <1>1, <2>4, <1>n
    <3>2. \A q \in ShopRequests, x \in Products :
            shop'[q].stage = "ordering" => Sold(q, x)' = Sold(q, x)
      BY <1>1, <1>n DEF Sold
    <3>3. Balance'
      BY <2>1, <3>1, <3>2 DEF CartInv, Balance
    <3> QED
      BY <2>2, <3>3 DEF CartInv
  <2> QED
    BY <2>3, <2>4
<1> QED
  BY <1>2, <1>3, <1>4 DEF OrdInv

LEMMA PushInv ==
  ASSUME OrdInv, NEW r \in ShopRequests, PushLine(r)
  PROVE  OrdInv'
<1>t. OrdTyped /\ OrdersTypeOK /\ MovesAllowed /\ (~jumbled => CartInv)
  BY DEF OrdInv, OrdTyped
<1> DEFINE line == Head(shop[r].copy)
<1>1. /\ shop[r].stage = "pushing" /\ cart' = Append(cart, line)
      /\ added' = [added EXCEPT ![line.product] = @ + 1]
      /\ ShopPushes(r, Loading) /\ UNCHANGED <<listed, ordered, dropped, jumbled>>
  BY DEF PushLine
<1>2. line \in Line /\ line.product \in Products /\ line.quantity = 1
  <2>1. shop[r].copy \in Seq(Line) /\ Len(shop[r].copy) = 1 /\ Carries(shop[r])
    BY <1>t, <1>1 DEF OrdTyped, OrdersTypeOK, Carries, Shopping
  <2>2. line = shop[r].copy[1] /\ shop[r].copy[1] \in Line
    BY <2>1, ElementOfSeq
  <2> QED
    BY <1>1, <2>1, <2>2 DEF Carries
<1> HIDE DEF line
<1>3. /\ cart \in Seq(Line) /\ cart' \in Seq(Line)
      /\ \A x \in Products : Pieces(cart', x) = Pieces(cart, x) + (IF line.product = x THEN 1 ELSE 0)
  BY <1>t, <1>1, <1>2, AppendProperties, PiecesAppended, LinesCounted DEF OrdersTypeOK
<1>4. /\ shop'[r] = Loading
      /\ \A q \in ShopRequests \ {r} :
           SameErrand(shop'[q], shop[q]) /\ (shop[q].stage \in CartStages => shop'[q].stale)
  BY <1>t, <1>1, ShopPushed, OffTyped
<1>n. Loading.stage \notin CartStages /\ Loading.stage \notin {"moving", "writing", "shrinking", "ordering"}
  BY OffTyped DEF CartStages
<1>a. added \in [Products -> Nat] /\ added' = [added EXCEPT ![line.product] = @ + 1]
  BY <1>t, <1>1 DEF OrdersTypeOK
<1>5. added' \in [Products -> Nat] /\ \A x \in Products : added'[x] = added[x] + (IF line.product = x THEN 1 ELSE 0)
  BY <1>2, <1>a
<1>6. OrdTyped'
  BY <1>t, <1>1, <1>3, <1>5, PushTyped, OffTyped DEF OrdersTypeOK
<1>7. MovesAllowed'
  BY <1>t, <1>1, <1>4, MovesKept, <1>n DEF SameErrand
<1>8. ASSUME ~jumbled' PROVE CartInv'
  <2>1. CartInv
    BY <1>t, <1>1, <1>8
  <2>2. \A q \in ShopRequests : shop[q].stage # "ordering" /\ shop'[q].stage # "ordering"
    BY <1>1, <1>4, <2>1, <1>n DEF CartInv, OneWriter, OnTheCart, CartStages, SameErrand
  <2>3. OneWriter'
    BY <1>4, <2>1, <2>2, <1>n DEF CartInv, OneWriter, Writes, OnTheCart, CartStages, SameErrand
  <2>4. CopyIsCart'
    BY <1>4, <2>2, <1>n DEF CopyIsCart, Writes, SameErrand, CartStages
  <2>5. ASSUME NEW x \in Products
        PROVE  added'[x] = Pieces(cart', x) + Pieces(ordered, x) + dropped[x]
    <3>1. added[x] = Pieces(cart, x) + Pieces(ordered, x) + dropped[x]
      BY <2>1, <2>2 DEF CartInv, Balance
    <3>2. Pieces(cart, x) \in Nat /\ Pieces(ordered, x) \in Nat /\ dropped[x] \in Nat
      BY <1>t, <1>3, PiecesTyped, LinesCounted DEF OrdersTypeOK
    <3> QED
      BY <1>3, <1>5, <3>1, <3>2
  <2>6. Balance'
    BY <1>1, <2>2, <2>5 DEF Balance
  <2> QED
    BY <2>3, <2>4, <2>6 DEF CartInv
<1> QED
  BY <1>6, <1>7, <1>8 DEF OrdInv

\* The one who writes is done, and those who push a line are where they were.
LEMMA WriterLeaves ==
  ASSUME CartInv, NEW r \in ShopRequests, Writes(r), Off(shop'[r]),
         \A q \in ShopRequests \ {r} : shop'[q].stage = shop[q].stage
  PROVE  OneWriter' /\ CopyIsCart' /\ \A q \in ShopRequests : shop'[q].stage # "ordering"
<1>1. \A q \in ShopRequests : ~Writes(q)'
  BY DEF Off, CartInv, OneWriter, Writes
<1> QED
  BY <1>1 DEF OneWriter, CopyIsCart, Writes

LEMMA WriteInv ==
  ASSUME OrdInv, NEW r \in ShopRequests, WriteLine(r)
  PROVE  OrdInv'
<1>t. OrdTyped /\ OrdersTypeOK /\ MovesAllowed /\ (~jumbled => CartInv)
  BY DEF OrdInv, OrdTyped
<1> DEFINE i == shop[r].at
           n == shop[r].quantity
           line == shop[r].copy[i]
           new == IF i \in DOMAIN cart THEN [cart[i] EXCEPT !.quantity = n]
                  ELSE [product |-> None, quantity |-> n]
<1>1. shop[r].stage = "writing" /\ UNCHANGED <<listed, ordered, jumbled>>
  BY DEF WriteLine
<1>2. CASE shop[r].stale
  <2>1. ShopGoesOn(r, NoShop) /\ UNCHANGED <<cart, added, dropped>>
    BY <1>2 DEF WriteLine, ShopEnds
  <2>2. jumbled' \in BOOLEAN
    BY <1>t, <1>1 DEF OrdersTypeOK
  <2> QED
    BY <1>1, <2>1, <2>2, EndsInv, OffTyped
<1>3. CASE ~shop[r].stale
  <2>1. /\ cart' = IF i \in DOMAIN cart THEN [cart EXCEPT ![i] = new] ELSE Append(cart, new)
        /\ added' = [added EXCEPT ![line.product] = @ + Beyond(n, line.quantity)]
        /\ dropped' = [dropped EXCEPT ![line.product] = @ + Beyond(line.quantity, n)]
    BY <1>3 DEF WriteLine
  <2>2. i \in DOMAIN shop[r].copy /\ line \in Line /\ line.product \in Products
    <3>1. shop[r].copy \in Seq(Line) /\ Carries(shop[r])
      BY <1>t DEF OrdTyped, OrdersTypeOK, Shopping
    <3> QED
      BY <1>1, <3>1, ElementOfSeq, LenProperties DEF Carries
  <2>3. n \in Nat /\ line.quantity \in Nat /\ cart \in Seq(Line)
    BY <1>t, <2>2 DEF OrdersTypeOK, Shopping, Line
  <2>4. new \in Line /\ new.quantity = n /\ (i \in DOMAIN cart => new.product = cart[i].product)
    <3>1. CASE i \in DOMAIN cart
      <4>1. cart[i] \in Line
        BY <2>3, <3>1, ElementOfSeq, LenProperties
      <4> QED
        BY <2>3, <3>1, <4>1 DEF Line
    <3>2. CASE i \notin DOMAIN cart
      BY <2>3, <3>2 DEF Line
    <3> QED
      BY <3>1, <3>2
  <2> HIDE DEF new, line, n, i
  <2>5. /\ Beyond(n, line.quantity) \in Nat /\ Beyond(line.quantity, n) \in Nat
        /\ n + Beyond(line.quantity, n) = line.quantity + Beyond(n, line.quantity)
    BY <2>3 DEF Beyond
  <2>6. /\ added' \in [Products -> Nat] /\ dropped' \in [Products -> Nat]
        /\ \A x \in Products :
             /\ added'[x] = IF line.product = x THEN added[x] + Beyond(n, line.quantity) ELSE added[x]
             /\ dropped'[x] = IF line.product = x THEN dropped[x] + Beyond(line.quantity, n) ELSE dropped[x]
    BY <1>t, <2>1, <2>2, <2>5 DEF OrdersTypeOK
  <2>7. cart' \in Seq(Line)
    <3>1. i \in DOMAIN cart => [cart EXCEPT ![i] = new] \in Seq(Line)
      BY <2>3, <2>4, LenProperties, ExceptSeq
    <3>2. Append(cart, new) \in Seq(Line)
      BY <2>3, <2>4, AppendProperties
    <3> QED
      BY <2>1, <3>1, <3>2
  <2>8. /\ shop'[r] = Loading /\ \A q \in ShopRequests \ {r} : shop'[q] = shop[q]
        /\ shop' = [shop EXCEPT ![r] = Loading]
    BY <1>t, <1>3, ShopIs, OffTyped DEF WriteLine, ShopGoesOn
  <2>n. Off(Loading) /\ Loading.stage # "moving"
    BY OffTyped
  <2>9. OrdTyped'
    <3>1. Carries(Loading)'
      BY <2>n DEF Carries, Off
    <3> QED
      BY <1>t, <1>1, <2>6, <2>7, <2>8, <3>1, StepTyped, OffTyped DEF OrdersTypeOK
  <2>10. MovesAllowed'
    BY <1>t, <1>1, <2>8, MovesKept, <2>n
  <2>11. ASSUME ~jumbled' PROVE CartInv'
    <3>1. CartInv /\ Writes(r)
      BY <1>t, <1>1, <2>11 DEF Writes
    <3>2. OneWriter' /\ CopyIsCart' /\ \A q \in ShopRequests : shop'[q].stage # "ordering"
      BY <2>8, <2>n, <3>1, WriterLeaves
    <3>3. \A q \in ShopRequests : shop[q].stage # "ordering"
      BY <1>1, <3>1 DEF CartInv, OneWriter, Writes
    <3>4. shop[r].copy = cart /\ i \in DOMAIN cart /\ line = cart[i]
      BY <1>3, <2>2, <3>1 DEF CartInv, CopyIsCart, line, i
    <3>5. cart' = [cart EXCEPT ![i] = new]
      BY <2>1, <3>4
    <3>6. /\ Len(cart') = Len(cart) /\ cart'[i] = new
          /\ \A j \in DOMAIN cart \ {i} : cart'[j] = cart[j]
      BY <2>3, <2>4, <3>4, <3>5, LenProperties, ExceptSeq
    <3>7. ASSUME NEW x \in Products
          PROVE  added'[x] = Pieces(cart', x) + Pieces(ordered, x) + dropped'[x]
      <4>1. added[x] = Pieces(cart, x) + Pieces(ordered, x) + dropped[x]
        BY <3>1, <3>3 DEF CartInv, Balance
      <4>2. Pieces(cart', x) = IF line.product = x THEN Pieces(cart, x) - line.quantity + n
                               ELSE Pieces(cart, x)
        <5>1. PICK written : written = cart'
          OBVIOUS
        <5>2. written[i].product = cart[i].product /\ written[i].quantity = n
          BY <2>4, <3>4, <3>6, <5>1
        <5>3. /\ written \in Seq(Line) /\ Len(written) = Len(cart) /\ i \in DOMAIN cart
              /\ \A j \in DOMAIN cart \ {i} : written[j] = cart[j]
          BY <2>7, <3>4, <3>6, <5>1
        <5>4. Pieces(written, x) = IF cart[i].product = x THEN Pieces(cart, x) - cart[i].quantity + n
                                   ELSE Pieces(cart, x)
          <6>1. Rewritten(cart, written, i, n)
            BY <2>3, <5>2, <5>3 DEF Rewritten
          <6> QED
            BY <2>3, <5>3, <6>1, PiecesWritten, LinesCounted
        <5> QED
          BY <3>4, <5>1, <5>4
      <4>3. Pieces(cart, x) \in Nat /\ Pieces(ordered, x) \in Nat /\ dropped[x] \in Nat
        BY <1>t, <2>3, PiecesTyped, LinesCounted DEF OrdersTypeOK
      <4>4. PICK p, o, b, d, m, l, w \in Nat :
              /\ p = Pieces(cart, x) /\ o = Pieces(ordered, x) /\ w = dropped[x]
              /\ b = Beyond(n, line.quantity) /\ d = Beyond(line.quantity, n)
              /\ m = n /\ l = line.quantity
        BY <2>3, <2>5, <4>3
      <4>5. CASE line.product = x
        <5>1. added'[x] = added[x] + b /\ dropped'[x] = w + d
          BY <2>6, <4>4, <4>5
        <5>2. Pieces(cart', x) = p - l + m /\ m + d = l + b
          BY <2>5, <4>2, <4>4, <4>5
        <5>3. added[x] = p + o + w
          BY <4>1, <4>4
        <5>4. p + o + w + b = p - l + m + o + (w + d)
          BY <5>2
        <5> QED
          BY <4>4, <5>1, <5>2, <5>3, <5>4
      <4>6. CASE line.product # x
        BY <2>6, <4>1, <4>2, <4>6
      <4> QED
        BY <4>5, <4>6
    <3>8. Balance'
      BY <1>1, <3>2, <3>7 DEF Balance
    <3> QED
      BY <3>2, <3>8 DEF CartInv
  <2> QED
    BY <2>9, <2>10, <2>11 DEF OrdInv
<1> QED
  BY <1>2, <1>3

LEMMA ShrinkInv ==
  ASSUME OrdInv, NEW r \in ShopRequests, SaveWithout(r)
  PROVE  OrdInv'
<1>t. OrdTyped /\ OrdersTypeOK /\ MovesAllowed /\ (~jumbled => CartInv)
  BY DEF OrdInv, OrdTyped
<1> DEFINE lines == shop[r].copy
           x == lines[shop[r].at].product
<1>1. shop[r].stage = "shrinking" /\ UNCHANGED <<listed, ordered, added, jumbled>>
  BY DEF SaveWithout
<1>2. CASE shop[r].stale
  <2>1. ShopGoesOn(r, NoShop) /\ UNCHANGED <<cart, dropped>>
    BY <1>2 DEF SaveWithout, ShopEnds
  <2>2. jumbled' \in BOOLEAN
    BY <1>t, <1>1 DEF OrdersTypeOK
  <2> QED
    BY <1>1, <2>1, <2>2, EndsInv, OffTyped
<1>3. CASE ~shop[r].stale
  <2>1. /\ cart' = Without(lines, {x})
        /\ dropped' = [dropped EXCEPT ![x] = @ + Pieces(lines, x)]
        /\ ShopPushes(r, Loading)
    BY <1>3 DEF SaveWithout
  <2>2. lines \in Seq(Line) /\ x \in Products
    BY <1>t, <1>1 DEF OrdTyped, OrdersTypeOK, Shopping, Carries
  <2> HIDE DEF lines, x
  <2>3. /\ cart' \in Seq(Line) /\ Pieces(cart', x) = 0
        /\ \A y : y # x => Pieces(cart', y) = Pieces(lines, y)
    BY <2>1, <2>2, PiecesWithout, LinesCounted
  <2>4. \A y : Pieces(lines, y) \in Nat
    BY <2>2, PiecesTyped, LinesCounted
  <2>5. /\ dropped' \in [Products -> Nat]
        /\ \A y \in Products :
             dropped'[y] = IF y = x THEN dropped[y] + Pieces(lines, y) ELSE dropped[y]
    BY <1>t, <2>1, <2>2, <2>4 DEF OrdersTypeOK
  <2>6. /\ shop'[r] = Loading /\ \A q \in ShopRequests \ {r} : SameErrand(shop'[q], shop[q])
    BY <1>t, <2>1, ShopPushed, OffTyped
  <2>n. Off(Loading) /\ Loading.stage # "moving"
    BY OffTyped
  <2>7. OrdTyped'
    BY <1>t, <1>1, <2>1, <2>3, <2>5, PushTyped, OffTyped DEF OrdersTypeOK
  <2>8. MovesAllowed'
    BY <1>t, <1>1, <2>6, MovesKept, <2>n DEF SameErrand
  <2>9. ASSUME ~jumbled' PROVE CartInv'
    <3>1. CartInv /\ Writes(r)
      BY <1>t, <1>1, <2>9 DEF Writes
    <3>2. OneWriter' /\ CopyIsCart' /\ \A q \in ShopRequests : shop'[q].stage # "ordering"
      BY <2>6, <2>n, <3>1, WriterLeaves DEF SameErrand
    <3>3. \A q \in ShopRequests : shop[q].stage # "ordering"
      BY <1>1, <3>1 DEF CartInv, OneWriter, Writes
    <3>4. lines = cart
      BY <1>3, <3>1 DEF CartInv, CopyIsCart, lines
    <3>5. ASSUME NEW y \in Products
          PROVE  added[y] = Pieces(cart', y) + Pieces(ordered, y) + dropped'[y]
      <4>1. added[y] = Pieces(cart, y) + Pieces(ordered, y) + dropped[y]
        BY <3>1, <3>3 DEF CartInv, Balance
      <4>2. Pieces(cart, y) \in Nat /\ Pieces(ordered, y) \in Nat /\ dropped[y] \in Nat
        BY <1>t, PiecesTyped, LinesCounted DEF OrdersTypeOK
      <4> QED
        BY <2>3, <2>5, <3>4, <4>1, <4>2
    <3>6. Balance'
      BY <1>1, <3>2, <3>5 DEF Balance
    <3> QED
      BY <3>2, <3>6 DEF CartInv
  <2> QED
    BY <2>7, <2>8, <2>9 DEF OrdInv
<1> QED
  BY <1>2, <1>3

LEMMA PlaceInv ==
  ASSUME OrdInv, NEW r \in ShopRequests, PlaceOrder(r)
  PROVE  OrdInv'
<1>t. OrdTyped /\ OrdersTypeOK /\ MovesAllowed /\ (~jumbled => CartInv)
  BY DEF OrdInv, OrdTyped
<1> DEFINE i == shop[r].at
           lines == shop[r].copy
           line == lines[i]
           sells == line.product \in listed
           sold == IF sells THEN shop[r].sold \cup {i} ELSE shop[r].sold
           next == [shop[r] EXCEPT !.at = i + 1, !.sold = sold]
<1>1. /\ shop[r].stage = "ordering" /\ i \in DOMAIN lines
      /\ ordered' = IF sells THEN Append(ordered, NewOrder(line)) ELSE ordered
      /\ shop' = [shop EXCEPT ![r] = next]
      /\ UNCHANGED <<cart, listed, added, dropped, jumbled>>
  BY DEF PlaceOrder
<1>2. /\ shop[r] \in Shopping /\ i \in Nat /\ lines \in Seq(Line) /\ shop[r].sold \in SUBSET Nat
      /\ shop[r].sold \subseteq 1..(i - 1) /\ shop[r].sold \subseteq DOMAIN lines
  BY <1>t, <1>1 DEF OrdTyped, OrdersTypeOK, Carries, Shopping
<1>3. line \in Line /\ line.quantity \in Nat
  <2>1. i \in 1..Len(lines)
    BY <1>1, <1>2, LenProperties
  <2>2. line \in Line
    BY <1>2, <2>1, ElementOfSeq
  <2> QED
    BY <2>2 DEF Line
<1>4. sells => NewOrder(line) \in MarketOrder /\ ~NewOrder(line).strayed
  BY <1>t, <1>3 DEF OrdersTypeOK, NewOrder, MarketOrder, OrderStatuses
<1>5. /\ sold \in SUBSET Nat /\ sold \subseteq 1..i /\ sold \subseteq DOMAIN lines
      /\ i \notin shop[r].sold
  <2>1. i \in Nat /\ i \in 1..i /\ i \notin 1..(i - 1) /\ 1..(i - 1) \subseteq 1..i
    BY <1>1, <1>2, LenProperties
  <2>2. i \in DOMAIN lines /\ shop[r].sold \subseteq 1..(i - 1) /\ shop[r].sold \subseteq DOMAIN lines
        /\ shop[r].sold \in SUBSET Nat
    BY <1>1, <1>2
  <2> QED
    BY <2>1, <2>2
<1>6. PICK step \in Shopping :
        /\ step = next /\ step.stage = "ordering" /\ step.copy = lines /\ step.at = i + 1
        /\ step.sold = sold /\ step.stale = shop[r].stale
  <2>1. i + 1 \in Nat
    BY <1>2
  <2> HIDE DEF sold
  <2>2. /\ next \in Shopping /\ next.stage = "ordering" /\ next.copy = lines /\ next.at = i + 1
        /\ next.sold = sold /\ next.stale = shop[r].stale
    BY <1>1, <1>2, <1>5, <2>1 DEF Shopping
  <2> HIDE DEF next
  <2> QED
    BY <2>2
<1>7. Carries(step)'
  <2>1. i + 1 # 0 /\ (i + 1) - 1 = i
    BY <1>2
  <2>2. step.sold \subseteq 1..(step.at - 1) /\ step.sold \subseteq DOMAIN step.copy
    BY <1>5, <1>6, <2>1
  <2> QED
    BY <1>6, <2>1, <2>2 DEF Carries
<1>8. /\ ordered' \in Seq(MarketOrder) /\ DOMAIN ordered \subseteq DOMAIN ordered'
      /\ \A j \in DOMAIN ordered : ordered'[j] = ordered[j]
      /\ \A j \in DOMAIN ordered' \ DOMAIN ordered : ~ordered'[j].strayed
  <2>1. CASE sells
    <3>1. PICK new : new = NewOrder(line) /\ new \in MarketOrder /\ ~new.strayed
      BY <1>4, <2>1
    <3>2. ordered' = Append(ordered, new) /\ ordered \in Seq(MarketOrder)
      BY <1>t, <1>1, <2>1, <3>1 DEF OrdersTypeOK
    <3> QED
      BY <3>1, <3>2, AppendProperties, LenProperties
  <2>2. CASE ~sells
    BY <1>t, <1>1, <2>2 DEF OrdersTypeOK
  <2> QED
    BY <2>1, <2>2
<1>9. shop' = [shop EXCEPT ![r] = step] /\ shop'[r] = step /\ \A q \in ShopRequests \ {r} : shop'[q] = shop[q]
  BY <1>t, <1>1, <1>6, ShopIs
<1>10. OrdTyped'
  BY <1>t, <1>1, <1>7, <1>8, <1>9, StepTyped DEF OrdersTypeOK
<1>11. MovesAllowed'
  BY <1>t, <1>6, <1>8, <1>9, MovesKept
<1>12. ASSUME ~jumbled' PROVE CartInv'
  <2>1. CartInv /\ Writes(r)
    BY <1>t, <1>1, <1>12 DEF Writes
  <2>a. /\ cart' = cart
        /\ \A q \in ShopRequests : /\ shop'[q].stage = shop[q].stage /\ shop'[q].copy = shop[q].copy
                                   /\ shop'[q].stale = shop[q].stale
    BY <1>1, <1>6, <1>9
  <2>2. OneWriter' /\ CopyIsCart'
    BY <2>1, <2>a DEF CartInv, OneWriter, CopyIsCart, Writes, OnTheCart, CartStages
  <2>3. \A q \in ShopRequests : shop'[q].stage = "ordering" => q = r
    BY <1>1, <1>9, <2>1 DEF CartInv, OneWriter, Writes
  <2>4. ASSUME NEW x \in Products
        PROVE  added[x] + Sold(r, x)' = Pieces(cart, x) + Pieces(ordered', x) + dropped[x]
    <3>1. added[x] + Sold(r, x) = Pieces(cart, x) + Pieces(ordered, x) + dropped[x]
      BY <1>1, <2>1 DEF CartInv, Balance
    <3>2. PICK A : A = LinesOf(lines, x) \cap shop[r].sold
      OBVIOUS
    <3>3. /\ A \subseteq LinesOf(lines, x) /\ A \subseteq DOMAIN lines /\ IsFiniteSet(A)
      BY <1>2, <3>2, LinesFinite, FS_Subset
    <3>4. \A j \in A \cup {i} : Quantities(lines)[j] \in Int
      BY <1>1, <1>2, <3>3, QuantitiesTyped, LinesCounted
    <3>5. SumFunctionOnSet(Quantities(lines), A) \in Int /\ Sold(r, x) = SumFunctionOnSet(Quantities(lines), A)
      BY <3>2, <3>3, <3>4, SumTyped DEF Sold
    <3>6. Sold(r, x)' = SumFunctionOnSet(Quantities(lines), LinesOf(lines, x) \cap sold)
      BY <1>6, <1>9 DEF Sold
    <3>7. /\ Pieces(cart, x) \in Nat /\ Pieces(ordered, x) \in Nat /\ dropped[x] \in Nat
          /\ added[x] \in Nat
      BY <1>t, PiecesTyped, LinesCounted DEF OrdersTypeOK
    <3>8. CASE sells /\ line.product = x
      <4>1. LinesOf(lines, x) \cap sold = A \cup {i} /\ i \notin A
        BY <1>1, <1>5, <3>2, <3>8 DEF LinesOf
      <4>2. Quantities(lines)[i] = line.quantity
        BY <1>1, <1>2, QuantitiesTyped, LinesCounted
      <4>3. SumFunctionOnSet(Quantities(lines), A \cup {i})
              = SumFunctionOnSet(Quantities(lines), A) + line.quantity
        <5>1. SumFunctionOnSet(Quantities(lines), A \cup {i})
                = SumFunctionOnSet(Quantities(lines), A) + Quantities(lines)[i]
          BY <3>3, <3>4, <4>1, SumAdded
        <5> QED
          BY <4>2, <5>1
      <4>4. PICK new : new = NewOrder(line) /\ new \in MarketOrder
        BY <1>4, <3>8
      <4>5. new.product = x /\ new.quantity = line.quantity
        BY <3>8, <4>4 DEF NewOrder
      <4>6. Pieces(Append(ordered, new), x)
              = Pieces(ordered, x) + (IF new.product = x THEN new.quantity ELSE 0)
        BY <1>t, <4>4, PiecesAppended, LinesCounted DEF OrdersTypeOK
      <4>7. Pieces(ordered', x) = Pieces(ordered, x) + line.quantity
        BY <1>1, <3>8, <4>4, <4>5, <4>6
      <4>8. Sold(r, x)' = Sold(r, x) + line.quantity
        BY <3>5, <3>6, <4>1, <4>3
      <4> HIDE DEF line
      <4> QED
        BY <1>3, <3>1, <3>5, <3>7, <4>7, <4>8
    <3>9. CASE ~(sells /\ line.product = x)
      <4>1. LinesOf(lines, x) \cap sold = A
        BY <1>1, <1>5, <3>2, <3>9 DEF LinesOf
      <4>2. Pieces(ordered', x) = Pieces(ordered, x)
        <5>1. CASE sells
          <6>1. PICK new : new = NewOrder(line) /\ new \in MarketOrder
            BY <1>4, <5>1
          <6>2. new.product # x
            BY <3>9, <5>1, <6>1 DEF NewOrder
          <6>3. Pieces(Append(ordered, new), x)
                  = Pieces(ordered, x) + (IF new.product = x THEN new.quantity ELSE 0)
            BY <1>t, <6>1, PiecesAppended, LinesCounted DEF OrdersTypeOK
          <6> QED
            BY <1>1, <3>7, <5>1, <6>1, <6>2, <6>3
        <5>2. CASE ~sells
          BY <1>1, <5>2
        <5> QED
          BY <5>1, <5>2
      <4> QED
        BY <3>1, <3>5, <3>6, <4>1, <4>2
    <3> QED
      BY <3>8, <3>9
  <2>5. Balance'
    <3>1. shop'[r].stage = "ordering"
      BY <1>6, <1>9
    <3> QED
      BY <1>1, <2>3, <2>4, <3>1 DEF Balance
  <2> QED
    BY <2>2, <2>5 DEF CartInv
<1> QED
  BY <1>10, <1>11, <1>12 DEF OrdInv

LEMMA SpendInv ==
  ASSUME OrdInv, NEW r \in ShopRequests, SpendCart(r)
  PROVE  OrdInv'
<1>t. OrdTyped /\ OrdersTypeOK /\ MovesAllowed /\ (~jumbled => CartInv)
  BY DEF OrdInv, OrdTyped
<1> DEFINE lines == shop[r].copy
           Left(x) == SumFunctionOnSet(Quantities(lines), LinesOf(lines, x) \ shop[r].sold)
<1>1. shop[r].stage = "ordering" /\ UNCHANGED <<listed, ordered, added, jumbled>>
  BY DEF SpendCart
<1>2. ~jumbled => ~shop[r].stale
  BY <1>t, <1>1 DEF CartInv, CopyIsCart
<1>3. CASE shop[r].sold = {} \/ shop[r].stale
  <2>1. ShopGoesOn(r, NoShop) /\ UNCHANGED <<cart, dropped>>
    BY <1>3 DEF SpendCart, ShopEnds
  <2>2. jumbled' \in BOOLEAN
    BY <1>t, <1>1 DEF OrdersTypeOK
  <2>3. ~jumbled' /\ shop[r].stage = "ordering" => shop[r].sold = {}
    BY <1>1, <1>2, <1>3
  <2> QED
    BY <1>1, <2>1, <2>2, <2>3, EndsInv, OffTyped
<1>4. CASE ~(shop[r].sold = {} \/ shop[r].stale)
  <2>1. ShopPushes(r, Loading) /\ cart' = <<>> /\ dropped' = [x \in Products |-> dropped[x] + Left(x)]
    BY <1>4 DEF SpendCart
  <2>2. lines \in Seq(Line)
    BY <1>t DEF OrdersTypeOK, Shopping
  <2>3. ASSUME NEW x
        PROVE  /\ Left(x) \in Nat /\ Pieces(lines, x) = Sold(r, x) + Left(x)
               /\ Sold(r, x) \in Int
    <3>1. IsFiniteSet(LinesOf(lines, x)) /\ \A j \in LinesOf(lines, x) : Quantities(lines)[j] \in Nat
      BY <2>2, LinesFinite, QuantitiesTyped, LinesCounted
    <3>2. PICK rest, gone : rest = LinesOf(lines, x) \ shop[r].sold
                            /\ gone = LinesOf(lines, x) \cap shop[r].sold
      OBVIOUS
    <3>3. /\ IsFiniteSet(rest) /\ \A j \in rest : Quantities(lines)[j] \in Nat
          /\ IsFiniteSet(gone) /\ \A j \in gone : Quantities(lines)[j] \in Int
      BY <3>1, <3>2, FS_Subset
    <3>4. SumFunctionOnSet(Quantities(lines), rest) \in Nat /\ SumFunctionOnSet(Quantities(lines), gone) \in Int
      BY <3>3, SumNat, SumTyped
    <3>5. Pieces(lines, x) = SumFunctionOnSet(Quantities(lines), gone) + SumFunctionOnSet(Quantities(lines), rest)
      <4>1. \A j \in LinesOf(lines, x) : Quantities(lines)[j] \in Int
        BY <3>1
      <4> QED
        BY <3>1, <3>2, <4>1, SumSplit DEF Pieces
    <3> QED
      BY <3>2, <3>4, <3>5 DEF Sold
  <2> HIDE DEF Left
  <2>4. /\ dropped' \in [Products -> Nat] /\ \A x \in Products : dropped'[x] = dropped[x] + Left(x)
    BY <1>t, <2>1, <2>3 DEF OrdersTypeOK
  <2>5. shop'[r] = Loading /\ \A q \in ShopRequests \ {r} : SameErrand(shop'[q], shop[q])
    BY <1>t, <2>1, ShopPushed, OffTyped
  <2>n. Off(Loading) /\ Loading.stage # "moving"
    BY OffTyped
  <2>6. cart' \in Seq(Line)
    BY <2>1
  <2>7. OrdTyped'
    BY <1>t, <1>1, <2>1, <2>4, <2>6, PushTyped, OffTyped DEF OrdersTypeOK
  <2>8. MovesAllowed'
    BY <1>t, <1>1, <2>5, MovesKept, <2>n DEF SameErrand
  <2>9. ASSUME ~jumbled' PROVE CartInv'
    <3>1. CartInv /\ Writes(r) /\ lines = cart
      BY <1>t, <1>1, <1>2, <2>9 DEF Writes, CartInv, CopyIsCart
    <3>2. OneWriter' /\ CopyIsCart' /\ \A q \in ShopRequests : shop'[q].stage # "ordering"
      BY <2>5, <2>n, <3>1, WriterLeaves DEF SameErrand
    <3> HIDE DEF lines
    <3>3. ASSUME NEW x \in Products
          PROVE  added[x] = Pieces(cart', x) + Pieces(ordered, x) + dropped'[x]
      <4>1. added[x] + Sold(r, x) = Pieces(cart, x) + Pieces(ordered, x) + dropped[x]
        BY <1>1, <3>1 DEF CartInv, Balance
      <4>2. Pieces(cart', x) = 0 /\ Pieces(cart, x) = Sold(r, x) + Left(x)
        BY <2>1, <2>3, <3>1, PiecesEmpty
      <4>3. PICK a, o, w \in Nat : a = added[x] /\ o = Pieces(ordered, x) /\ w = dropped[x]
        BY <1>t, PiecesTyped, LinesCounted DEF OrdersTypeOK
      <4>4. PICK s \in Int, l \in Nat : s = Sold(r, x) /\ l = Left(x)
        BY <2>3
      <4>5. a + s = s + l + o + w
        BY <4>1, <4>2, <4>3, <4>4
      <4>6. a = o + (w + l)
        BY <4>5
      <4> QED
        BY <2>4, <4>2, <4>3, <4>4, <4>6
    <3>4. Balance'
      BY <1>1, <3>2, <3>3 DEF Balance
    <3> QED
      BY <3>2, <3>4 DEF CartInv
  <2> QED
    BY <2>7, <2>8, <2>9 DEF OrdInv
<1> QED
  BY <1>3, <1>4

\* A move is noted as under way, looked up on a copy.
LEMMA MoveBegins ==
  ASSUME OrdInv, NEW r \in ShopRequests, NEW i \in DOMAIN ordered, NEW to \in OrderStatuses,
         UpdateOrderStatus(r, i, to)
  PROVE  OrdInv'
<1>t. OrdTyped /\ OrdersTypeOK /\ MovesAllowed /\ (~jumbled => CartInv)
  BY DEF OrdInv, OrdTyped
<1> DEFINE rivals == \/ ordered[i].rivals
                     \/ \E q \in ShopRequests : shop[q].stage = "moving" /\ shop[q].at = i
           doc == [ordered[i] EXCEPT !.rivals = rivals]
           next == [NoShop EXCEPT !.stage = "moving", !.at = i, !.to = to]
<1>1. /\ shop[r].stage = "idle" /\ shop' = [shop EXCEPT ![r] = next]
      /\ ordered' = [ordered EXCEPT ![i] = doc] /\ to \in OrderMoves(ordered[i].status)
      /\ UNCHANGED <<cart, listed, added, dropped, jumbled>>
  BY DEF UpdateOrderStatus, Shops
<1>2. ordered \in Seq(MarketOrder) /\ ordered[i] \in MarketOrder /\ i \in 1..Len(ordered) /\ i \in Nat
  BY <1>t, ElementOfSeq, LenProperties DEF OrdersTypeOK
<1>3. rivals \in BOOLEAN
  BY <1>2 DEF MarketOrder
<1>4. /\ doc \in MarketOrder /\ doc.rivals = rivals /\ doc.product = ordered[i].product
      /\ doc.quantity = ordered[i].quantity /\ doc.status = ordered[i].status
      /\ doc.strayed = ordered[i].strayed
  <2> HIDE DEF rivals
  <2> QED
    BY <1>2, <1>3 DEF MarketOrder
<1>5. PICK step \in Shopping :
        /\ step = next /\ step.stage = "moving" /\ step.at = i /\ step.to = to
  <2>1. next \in Shopping /\ next.stage = "moving" /\ next.at = i /\ next.to = to
    BY <1>2, NoShopTyped DEF Shopping
  <2> HIDE DEF next
  <2> QED
    BY <2>1
<1>6. /\ ordered' \in Seq(MarketOrder) /\ Len(ordered') = Len(ordered)
      /\ DOMAIN ordered' = DOMAIN ordered /\ ordered'[i] = doc
      /\ \A j \in DOMAIN ordered \ {i} : ordered'[j] = ordered[j]
  <2> HIDE DEF doc
  <2> QED
    BY <1>1, <1>2, <1>4, ExceptSeq, LenProperties
<1>7. shop'[r] = step /\ \A q \in ShopRequests \ {r} : shop'[q] = shop[q]
  BY <1>t, <1>1, <1>5, ShopIs
<1>8. OrdTyped'
  <2>1. Carries(step)'
    BY <1>5, <1>6 DEF Carries
  <2> QED
    BY <1>t, <1>1, <1>5, <1>6, <2>1, StepTyped DEF OrdersTypeOK
<1>9. MovesAllowed'
  <2>1. \A q \in ShopRequests : shop[q].stage = "moving" => shop[q].at \in DOMAIN ordered /\ q # r
    BY <1>t, <1>1 DEF OrdTyped, Carries
  <2>2. \A j \in DOMAIN ordered :
          /\ ordered[j].rivals => ordered'[j].rivals
          /\ ordered'[j].status = ordered[j].status /\ ordered'[j].strayed = ordered[j].strayed
    BY <1>4, <1>6
  <2>3. (\E q \in ShopRequests : shop[q].stage = "moving" /\ shop[q].at = i) => ordered'[i].rivals
    BY <1>4, <1>6
  <2>4. ASSUME NEW q \in ShopRequests, shop'[q].stage = "moving"
        PROVE  \/ ordered'[shop'[q].at].rivals
               \/ /\ shop'[q].to \in OrderMoves(ordered'[shop'[q].at].status)
                  /\ \A p \in ShopRequests \ {q} :
                       ~(shop'[p].stage = "moving" /\ shop'[p].at = shop'[q].at)
    <3>1. CASE q = r
      <4>1. shop'[q].at = i /\ shop'[q].to = to /\ ordered'[i].status = ordered[i].status
        BY <1>5, <1>7, <2>2, <3>1
      <4>2. ASSUME NEW p \in ShopRequests \ {q}, shop'[p].stage = "moving", shop'[p].at = i
            PROVE  ordered'[i].rivals
        BY <1>7, <2>3, <3>1, <4>2
      <4> QED
        BY <1>1, <4>1, <4>2
    <3>2. CASE q # r
      <4>1. shop'[q] = shop[q] /\ shop[q].stage = "moving" /\ shop[q].at \in DOMAIN ordered
        BY <1>7, <2>1, <2>4, <3>2
      <4>2. \/ ordered[shop[q].at].rivals
            \/ /\ shop[q].to \in OrderMoves(ordered[shop[q].at].status)
               /\ \A p \in ShopRequests \ {q} : ~(shop[p].stage = "moving" /\ shop[p].at = shop[q].at)
        BY <1>t, <4>1 DEF MovesAllowed
      <4>3. CASE shop[q].at = i
        BY <2>3, <4>1, <4>3
      <4>4. CASE shop[q].at # i
        <5>1. \A p \in ShopRequests : shop'[p].at = shop[q].at => shop'[p] = shop[p]
          BY <1>5, <1>7, <4>4
        <5> QED
          BY <2>2, <4>1, <4>2, <5>1
      <4> QED
        BY <4>3, <4>4
    <3> QED
      BY <3>1, <3>2
  <2>5. \A j \in DOMAIN ordered' : ordered'[j].strayed => ordered'[j].rivals
    BY <1>t, <1>6, <2>2 DEF MovesAllowed
  <2> QED
    BY <2>4, <2>5 DEF MovesAllowed
<1>10. ~jumbled' => CartInv'
  <2>1. \A x \in Products : Pieces(ordered', x) = Pieces(ordered, x)
    <3>1. PICK moved : moved = ordered'
      OBVIOUS
    <3>2. \A j \in DOMAIN moved : /\ moved[j].product = ordered[j].product
                                  /\ moved[j].quantity = ordered[j].quantity
      BY <1>4, <1>6, <3>1
    <3> QED
      BY <1>2, <1>6, <3>1, <3>2, PiecesSame
  <2>2. \A q \in ShopRequests : OnTheCart(q) \/ OnTheCart(q)' => shop'[q] = shop[q]
    BY <1>1, <1>5, <1>7 DEF OnTheCart, CartStages
  <2> QED
    BY <1>t, <1>1, <2>1, <2>2, CartKept
<1> QED
  BY <1>8, <1>9, <1>10 DEF OrdInv

LEMMA MoveEnds ==
  ASSUME OrdInv, NEW r \in ShopRequests, SaveOrderStatus(r)
  PROVE  OrdInv'
<1>t. OrdTyped /\ OrdersTypeOK /\ MovesAllowed /\ (~jumbled => CartInv)
  BY DEF OrdInv, OrdTyped
<1> DEFINE i == shop[r].at
           strays == ordered[i].strayed \/ shop[r].to \notin OrderMoves(ordered[i].status)
           doc == [ordered[i] EXCEPT !.status = shop[r].to, !.strayed = strays]
<1>1. /\ shop[r].stage = "moving" /\ ShopEnds(r)
      /\ ordered' = [ordered EXCEPT ![i] = doc]
      /\ UNCHANGED <<cart, listed, added, dropped, jumbled>>
  BY DEF SaveOrderStatus
<1>2. /\ ordered \in Seq(MarketOrder) /\ ordered[i] \in MarketOrder /\ i \in 1..Len(ordered)
      /\ i \in DOMAIN ordered /\ shop[r].to \in OrderStatuses
  <2>1. i \in DOMAIN ordered /\ shop[r].to \in OrderStatuses
    BY <1>t, <1>1 DEF OrdTyped, Carries
  <2> QED
    BY <1>t, <2>1, ElementOfSeq, LenProperties DEF OrdersTypeOK
<1>3. strays \in BOOLEAN
  BY <1>2 DEF MarketOrder
<1>4. /\ doc \in MarketOrder /\ doc.rivals = ordered[i].rivals
      /\ doc.product = ordered[i].product /\ doc.quantity = ordered[i].quantity
      /\ doc.strayed = strays
  <2> HIDE DEF strays
  <2> QED
    BY <1>2, <1>3 DEF MarketOrder
<1>5. /\ ordered' \in Seq(MarketOrder) /\ Len(ordered') = Len(ordered)
      /\ DOMAIN ordered' = DOMAIN ordered /\ ordered'[i] = doc
      /\ \A j \in DOMAIN ordered \ {i} : ordered'[j] = ordered[j]
  <2>1. PICK new \in MarketOrder : new = doc
    BY <1>4
  <2>2. ordered' = [ordered EXCEPT ![i] = new]
    BY <1>1, <2>1
  <2> HIDE DEF doc
  <2> QED
    BY <1>2, <2>1, <2>2, ExceptSeq, LenProperties
<1>6. /\ shop'[r] = NoShop /\ \A q \in ShopRequests \ {r} : shop'[q] = shop[q]
      /\ shop' = [shop EXCEPT ![r] = NoShop]
  BY <1>t, <1>1, ShopIs, NoShopTyped DEF ShopEnds, ShopGoesOn
<1>7. OrdTyped'
  <2>1. Carries(NoShop)'
    BY NoShopTyped DEF Carries
  <2> QED
    BY <1>t, <1>1, <1>5, <1>6, <2>1, StepTyped, NoShopTyped DEF OrdersTypeOK
<1>8. MovesAllowed'
  <2>1. \A q \in ShopRequests : shop[q].stage = "moving" => shop[q].at \in DOMAIN ordered
    BY <1>t DEF OrdTyped, Carries
  <2>2. strays => ordered[i].rivals
    BY <1>t, <1>1, <1>2 DEF MovesAllowed
  <2>3. \A j \in DOMAIN ordered : ordered'[j].rivals <=> ordered[j].rivals
    BY <1>2, <1>4, <1>5
  <2>4. ASSUME NEW q \in ShopRequests, shop'[q].stage = "moving"
        PROVE  \/ ordered'[shop'[q].at].rivals
               \/ /\ shop'[q].to \in OrderMoves(ordered'[shop'[q].at].status)
                  /\ \A p \in ShopRequests \ {q} :
                       ~(shop'[p].stage = "moving" /\ shop'[p].at = shop'[q].at)
    <3>1. q # r /\ shop'[q] = shop[q] /\ shop[q].stage = "moving" /\ shop[q].at \in DOMAIN ordered
      BY <1>6, <2>1, <2>4, NoShopTyped
    <3>2. CASE shop[q].at = i
      <4>1. ordered[i].rivals
        BY <1>t, <1>1, <3>1, <3>2 DEF MovesAllowed
      <4> QED
        BY <2>3, <3>1, <3>2, <4>1
    <3>3. CASE shop[q].at # i
      <4>1. ordered'[shop[q].at] = ordered[shop[q].at]
        BY <1>5, <3>1, <3>3
      <4>2. \A p \in ShopRequests : shop'[p].stage = "moving" => shop'[p] = shop[p]
        BY <1>6, NoShopTyped
      <4> QED
        BY <1>t, <3>1, <4>1, <4>2 DEF MovesAllowed
    <3> QED
      BY <3>2, <3>3
  <2>5. \A j \in DOMAIN ordered' : ordered'[j].strayed => ordered'[j].rivals
    <3>1. \A j \in DOMAIN ordered : ordered[j].strayed => ordered[j].rivals
      BY <1>t DEF MovesAllowed
    <3>2. ordered'[i].strayed => ordered'[i].rivals
      <4> HIDE DEF strays, doc
      <4> QED
        BY <1>2, <1>4, <1>5, <2>2
    <3> QED
      BY <1>5, <3>1, <3>2
  <2> QED
    BY <2>4, <2>5 DEF MovesAllowed
<1>9. ~jumbled' => CartInv'
  <2>1. \A x \in Products : Pieces(ordered', x) = Pieces(ordered, x)
    <3>1. PICK moved : moved = ordered'
      OBVIOUS
    <3>2. \A j \in DOMAIN moved : /\ moved[j].product = ordered[j].product
                                  /\ moved[j].quantity = ordered[j].quantity
      BY <1>4, <1>5, <3>1
    <3> QED
      BY <1>2, <1>5, <3>1, <3>2, PiecesSame
  <2>2. \A q \in ShopRequests : OnTheCart(q) \/ OnTheCart(q)' => shop'[q] = shop[q]
    BY <1>1, <1>6, NoShopTyped DEF OnTheCart, CartStages
  <2> QED
    BY <1>t, <1>1, <2>1, <2>2, CartKept
<1> QED
  BY <1>7, <1>8, <1>9 DEF OrdInv

LEMMA DieInv ==
  ASSUME OrdInv, NEW r \in ShopRequests, ShopDies(r)
  PROVE  OrdInv'
<1>1. jumbled \in BOOLEAN
  BY DEF OrdInv, OrdTyped, OrdersTypeOK
<1> QED
  BY <1>1, EndsInv, OffTyped DEF ShopDies, ShopEnds

LEMMA LoadInv ==
  ASSUME OrdInv, NEW r \in ShopRequests, LoadCart(r)
  PROVE  OrdInv'
<1>1. jumbled \in BOOLEAN /\ cart \in Seq(Line)
  BY DEF OrdInv, OrdTyped, OrdersTypeOK
<1>2. PICK next \in Shopping : next = [NoShop EXCEPT !.stage = "pruning", !.copy = cart] /\ Off(next)
  <2> DEFINE step == [NoShop EXCEPT !.stage = "pruning", !.copy = cart]
  <2>1. step \in Shopping /\ step.stage = "pruning"
    BY <1>1, NoShopTyped DEF Shopping
  <2> HIDE DEF step
  <2>2. Off(step)
    BY <2>1 DEF Off
  <2> QED
    BY <2>1, <2>2 DEF step
<1>3. shop[r].stage # "ordering"
  BY DEF LoadCart
<1> QED
  BY <1>1, <1>2, <1>3, EndsInv DEF LoadCart

\* Lines go while no checkout is under way, and no other copy of the cart will be saved.
LEMMA DropsInv ==
  ASSUME OrdInv, NEW r \in ShopRequests, Off(shop[r]), NEW next \in Shopping, Off(next),
         shop'[r] = next, OrdTyped',
         \A q \in ShopRequests \ {r} :
           /\ shop'[q].stage = shop[q].stage /\ shop'[q].at = shop[q].at /\ shop'[q].to = shop[q].to
           /\ ~jumbled' /\ shop[q].stage \in CartStages =>
                shop[q].stage # "ordering" /\ shop'[q].stale,
         NEW gone \in [Products -> Nat], cart' \in Seq(Line),
         dropped' = [x \in Products |-> dropped[x] + gone[x]],
         ~jumbled' => ~jumbled /\ \A x \in Products : Pieces(cart, x) = Pieces(cart', x) + gone[x],
         UNCHANGED <<listed, ordered, added>>
  PROVE  OrdInv'
<1>t. OrdTyped /\ OrdersTypeOK /\ MovesAllowed /\ (~jumbled => CartInv)
  BY DEF OrdInv, OrdTyped
<1>1. MovesAllowed'
  BY <1>t, MovesKept DEF Off
<1>2. ASSUME ~jumbled' PROVE CartInv'
  <2>1. CartInv
    BY <1>t, <1>2
  <2>2. \A q \in ShopRequests : shop'[q].stage # "ordering" /\ shop[q].stage # "ordering"
    BY <1>2 DEF Off, CartStages
  <2>3. \A q \in ShopRequests : Writes(q)' => q # r /\ Writes(q) /\ shop'[q].stale
    BY <1>2 DEF Off, Writes, CartStages
  <2>4. OneWriter' /\ CopyIsCart'
    BY <2>1, <2>2, <2>3 DEF CartInv, OneWriter, CopyIsCart
  <2>5. ASSUME NEW x \in Products
        PROVE  added[x] = Pieces(cart', x) + Pieces(ordered, x) + dropped'[x]
    <3>1. added[x] = Pieces(cart, x) + Pieces(ordered, x) + dropped[x]
      BY <2>1, <2>2 DEF CartInv, Balance
    <3>2. Pieces(cart, x) = Pieces(cart', x) + gone[x] /\ dropped'[x] = dropped[x] + gone[x]
      BY <1>2
    <3>3. PICK c, o, w, g \in Nat :
            c = Pieces(cart', x) /\ o = Pieces(ordered, x) /\ w = dropped[x] /\ g = gone[x]
      BY <1>t, PiecesTyped, LinesCounted DEF OrdersTypeOK
    <3>4. (c + g) + o + w = c + o + (w + g)
      OBVIOUS
    <3> QED
      BY <3>1, <3>2, <3>3, <3>4
  <2>6. Balance'
    BY <2>2, <2>5 DEF Balance
  <2> QED
    BY <2>4, <2>6 DEF CartInv
<1> QED
  BY <1>1, <1>2 DEF OrdInv

\* Emptied or thinned at once, by a request that holds no copy.
LEMMA RemovesInv ==
  ASSUME OrdInv, NEW r \in ShopRequests, Shops(r, Loading),
         NEW gone \in [Products -> Nat], cart' \in Seq(Line),
         dropped' = [x \in Products |-> dropped[x] + gone[x]],
         \A x \in Products : Pieces(cart, x) = Pieces(cart', x) + gone[x],
         jumbled' = (jumbled \/ OnCart(r)),
         UNCHANGED <<listed, ordered, added>>
  PROVE  OrdInv'
<1>t. OrdTyped /\ OrdersTypeOK
  BY DEF OrdInv, OrdTyped
<1>1. dropped' \in [Products -> Nat]
  BY <1>t DEF OrdersTypeOK
<1>2. jumbled' \in BOOLEAN
  BY <1>t DEF OrdersTypeOK, OnCart
<1>3. /\ shop[r].stage = "idle" /\ shop' = [shop EXCEPT ![r] = Loading] /\ Off(shop[r])
  BY DEF Shops, Off
<1>4. Carries(Loading)'
  BY OffTyped DEF Carries, Off
<1>5. OrdTyped'
  BY <1>t, <1>1, <1>2, <1>3, <1>4, StepTyped, OffTyped DEF OrdersTypeOK
<1>6. shop'[r] = Loading /\ \A q \in ShopRequests \ {r} : shop'[q] = shop[q]
  BY <1>t, <1>3, ShopIs, OffTyped
<1>7. ~jumbled' => \A q \in ShopRequests \ {r} : shop[q].stage \notin CartStages
  BY DEF OnCart
<1> QED
  BY <1>3, <1>5, <1>6, <1>7, DropsInv, OffTyped

LEMMA RemoveInv ==
  ASSUME OrdInv, NEW r \in ShopRequests, NEW x \in Products, RemoveCartItem(r, x)
  PROVE  OrdInv'
<1>t. cart \in Seq(Line) /\ dropped \in [Products -> Nat]
  BY DEF OrdInv, OrdTyped, OrdersTypeOK
<1> DEFINE g == [y \in Products |-> IF y = x THEN Pieces(cart, x) ELSE 0]
<1>1. \A y : Pieces(cart, y) \in Nat
  BY <1>t, PiecesTyped, LinesCounted
<1>2. PICK gone \in [Products -> Nat] :
        \A y \in Products : gone[y] = IF y = x THEN Pieces(cart, x) ELSE 0
  <2>1. g \in [Products -> Nat] /\ \A y \in Products : g[y] = IF y = x THEN Pieces(cart, x) ELSE 0
    BY <1>1
  <2> HIDE DEF g
  <2> QED
    BY <2>1
<1>3. /\ cart' = Without(cart, {x}) /\ dropped' = [dropped EXCEPT ![x] = @ + Pieces(cart, x)]
      /\ jumbled' = (jumbled \/ OnCart(r)) /\ Shops(r, Loading)
      /\ UNCHANGED <<listed, ordered, added>>
  BY DEF RemoveCartItem
<1>4. /\ cart' \in Seq(Line) /\ Pieces(cart', x) = 0
      /\ \A y : y # x => Pieces(cart', y) = Pieces(cart, y)
  BY <1>t, <1>3, PiecesWithout, LinesCounted
<1>5. \A y \in Products : Pieces(cart, y) = Pieces(cart', y) + gone[y]
  BY <1>1, <1>2, <1>4
<1>6. dropped' = [y \in Products |-> dropped[y] + gone[y]]
  <2>1. \A y \in Products : dropped[y] \in Nat
    BY <1>t
  <2>2. \A y \in Products :
          dropped[y] + gone[y] = IF y = x THEN dropped[x] + Pieces(cart, x) ELSE dropped[y]
    BY <1>1, <1>2, <2>1
  <2>3. dropped' = [y \in Products |-> IF y = x THEN dropped[x] + Pieces(cart, x) ELSE dropped[y]]
    BY <1>t, <1>3
  <2> QED
    BY <2>2, <2>3
<1> QED
  BY <1>3, <1>4, <1>5, <1>6, RemovesInv

LEMMA ClearInv ==
  ASSUME OrdInv, NEW r \in ShopRequests, ClearCart(r)
  PROVE  OrdInv'
<1>t. cart \in Seq(Line)
  BY DEF OrdInv, OrdTyped, OrdersTypeOK
<1>1. PICK gone \in [Products -> Nat] : \A x \in Products : gone[x] = Pieces(cart, x)
  <2>1. [x \in Products |-> Pieces(cart, x)] \in [Products -> Nat]
    BY <1>t, PiecesTyped, LinesCounted
  <2> QED
    BY <2>1
<1>2. /\ cart' = <<>> /\ dropped' = [x \in Products |-> dropped[x] + Pieces(cart, x)]
      /\ jumbled' = (jumbled \/ OnCart(r)) /\ Shops(r, Loading)
      /\ UNCHANGED <<listed, ordered, added>>
  BY DEF ClearCart
<1>3. dropped' = [x \in Products |-> dropped[x] + gone[x]]
  BY <1>1, <1>2
<1>4. cart' \in Seq(Line) /\ \A x \in Products : Pieces(cart', x) = 0
  BY <1>2, PiecesEmpty
<1>5. \A x \in Products : Pieces(cart, x) = Pieces(cart', x) + gone[x]
  BY <1>1, <1>4
<1> QED
  BY <1>2, <1>3, <1>4, <1>5, RemovesInv

\* Lines of withdrawn listings are dropped when the cart is read.
LEMMA PruneInv ==
  ASSUME OrdInv, NEW r \in ShopRequests, SavePruned(r)
  PROVE  OrdInv'
<1>t. OrdTyped /\ OrdersTypeOK
  BY DEF OrdInv, OrdTyped
<1> DEFINE lines == shop[r].copy
           Gone == (Products \cup {None}) \ listed
           lasting == \A i \in DOMAIN lines : lines[i].product \in listed
<1>1. shop[r].stage = "pruning" /\ UNCHANGED <<listed, ordered, added>>
  BY DEF SavePruned
<1>2. CASE lasting \/ shop[r].stale
  <2>1. ShopGoesOn(r, NoShop) /\ UNCHANGED <<cart, dropped, jumbled>>
    BY <1>2 DEF SavePruned, ShopEnds
  <2>2. jumbled' \in BOOLEAN
    BY <1>t, <2>1 DEF OrdersTypeOK
  <2> QED
    BY <1>1, <2>1, <2>2, EndsInv, OffTyped
<1>3. CASE ~(lasting \/ shop[r].stale)
  <2>1. /\ cart' = Without(lines, Gone)
        /\ dropped' = [x \in Products |-> dropped[x] + (IF x \in Gone THEN Pieces(lines, x) ELSE 0)]
        /\ ShopPushes(r, NoShop)
        /\ jumbled' = (jumbled \/ lines # cart \/ OnCheckout(r))
    BY <1>3 DEF SavePruned
  <2>2. lines \in Seq(Line) /\ dropped \in [Products -> Nat]
    BY <1>t DEF OrdersTypeOK, Shopping
  <2> HIDE DEF lines, Gone
  <2>3. /\ cart' \in Seq(Line) /\ \A y \in Gone : Pieces(cart', y) = 0
        /\ \A y : y \notin Gone => Pieces(cart', y) = Pieces(lines, y)
    BY <2>1, <2>2, PiecesWithout, LinesCounted
  <2>4. \A y : Pieces(lines, y) \in Nat
    BY <2>2, PiecesTyped, LinesCounted
  <2>5. PICK gone \in [Products -> Nat] :
          \A y \in Products : gone[y] = IF y \in Gone THEN Pieces(lines, y) ELSE 0
    <3> DEFINE g == [y \in Products |-> IF y \in Gone THEN Pieces(lines, y) ELSE 0]
    <3>1. g \in [Products -> Nat] /\ \A y \in Products : g[y] = IF y \in Gone THEN Pieces(lines, y) ELSE 0
      BY <2>4
    <3> HIDE DEF g
    <3> QED
      BY <3>1
  <2>6. dropped' = [y \in Products |-> dropped[y] + gone[y]]
    BY <2>1, <2>5
  <2>7. dropped' \in [Products -> Nat]
    BY <2>2, <2>6
  <2>8. /\ shop'[r] = NoShop
        /\ \A q \in ShopRequests \ {r} :
             SameErrand(shop'[q], shop[q]) /\ (shop[q].stage \in CartStages => shop'[q].stale)
    BY <1>t, <2>1, ShopPushed, OffTyped
  <2>9. jumbled' \in BOOLEAN
    BY <1>t, <2>1 DEF OrdersTypeOK, OnCheckout
  <2>10. OrdTyped'
    BY <1>t, <1>1, <2>1, <2>3, <2>7, <2>9, PushTyped, OffTyped DEF OrdersTypeOK
  <2>11. ~jumbled' => \A x \in Products : Pieces(cart, x) = Pieces(cart', x) + gone[x]
    <3>1. ~jumbled' => lines = cart
      BY <2>1
    <3> QED
      BY <2>3, <2>4, <2>5, <3>1
  <2>12. ~jumbled' => ~jumbled /\ \A q \in ShopRequests \ {r} : shop[q].stage # "ordering"
    BY <2>1 DEF OnCheckout
  <2>13. Off(shop[r])
    BY <1>1 DEF Off
  <2>14. \A q \in ShopRequests \ {r} :
           /\ shop'[q].stage = shop[q].stage /\ shop'[q].at = shop[q].at /\ shop'[q].to = shop[q].to
           /\ ~jumbled' /\ shop[q].stage \in CartStages =>
                shop[q].stage # "ordering" /\ shop'[q].stale
    BY <2>8, <2>12 DEF SameErrand
  <2> QED
    BY <1>1, <2>3, <2>6, <2>8, <2>10, <2>11, <2>12, <2>13, <2>14, DropsInv, OffTyped
<1> QED
  BY <1>2, <1>3

LEMMA CreateInv ==
  ASSUME OrdInv, NEW x \in Products, CreateOrder(x)
  PROVE  OrdInv'
<1>t. OrdTyped /\ OrdersTypeOK /\ MovesAllowed /\ (~jumbled => CartInv)
  BY DEF OrdInv, OrdTyped
<1>1. PICK new \in MarketOrder :
        /\ new = NewOrder([product |-> x, quantity |-> 1])
        /\ new.product = x /\ new.quantity = 1 /\ ~new.strayed
  <2> DEFINE doc == NewOrder([product |-> x, quantity |-> 1])
  <2>1. doc \in MarketOrder /\ doc.product = x /\ doc.quantity = 1 /\ ~doc.strayed
    BY DEF NewOrder, MarketOrder, OrderStatuses
  <2> HIDE DEF doc
  <2>2. doc = NewOrder([product |-> x, quantity |-> 1])
    BY DEF doc
  <2> QED
    BY <2>1, <2>2
<1>2. /\ ordered' = Append(ordered, new) /\ added' = [added EXCEPT ![x] = @ + 1]
      /\ UNCHANGED <<cart, listed, shop, dropped, jumbled>>
  BY <1>1 DEF CreateOrder
<1>3. ordered \in Seq(MarketOrder)
  BY <1>t DEF OrdersTypeOK
<1>4. /\ ordered' \in Seq(MarketOrder) /\ DOMAIN ordered \subseteq DOMAIN ordered'
      /\ \A j \in DOMAIN ordered : ordered'[j] = ordered[j]
      /\ \A j \in DOMAIN ordered' \ DOMAIN ordered : ~ordered'[j].strayed
  BY <1>1, <1>2, <1>3, AppendProperties, LenProperties
<1>5. /\ added' \in [Products -> Nat]
      /\ \A y \in Products : added'[y] = added[y] + (IF y = x THEN 1 ELSE 0)
  BY <1>t, <1>2 DEF OrdersTypeOK
<1>6. OrdTyped'
  BY <1>t, <1>2, <1>4, <1>5, StillTyped DEF OrdersTypeOK
<1>7. MovesAllowed'
  BY <1>t, <1>2, <1>4, MovesKept
<1>8. ASSUME ~jumbled' PROVE CartInv'
  <2>1. CartInv
    BY <1>t, <1>2, <1>8
  <2>2. OneWriter' /\ CopyIsCart'
    BY <1>2, <2>1 DEF CartInv, OneWriter, CopyIsCart, Writes, OnTheCart
  <2>3. ASSUME NEW y \in Products
        PROVE  Pieces(ordered', y) = Pieces(ordered, y) + (IF y = x THEN 1 ELSE 0)
    <3>1. Pieces(Append(ordered, new), y)
            = Pieces(ordered, y) + (IF new.product = y THEN new.quantity ELSE 0)
      BY <1>3, PiecesAppended, LinesCounted
    <3> QED
      BY <1>1, <1>2, <3>1
  <2>4. \A q \in ShopRequests, y \in Products : Sold(q, y)' = Sold(q, y)
    BY <1>2 DEF Sold
  <2>5. ASSUME NEW y \in Products
        PROVE  /\ (\A q \in ShopRequests : shop'[q].stage # "ordering") =>
                    added'[y] = Pieces(cart', y) + Pieces(ordered', y) + dropped'[y]
               /\ \A q \in ShopRequests : shop'[q].stage = "ordering" =>
                    added'[y] + Sold(q, y)' = Pieces(cart', y) + Pieces(ordered', y) + dropped'[y]
    <3>1. PICK a, c, o, w, one \in Nat :
            /\ a = added[y] /\ c = Pieces(cart, y) /\ o = Pieces(ordered, y) /\ w = dropped[y]
            /\ one = IF y = x THEN 1 ELSE 0
      BY <1>t, PiecesTyped, LinesCounted DEF OrdersTypeOK
    <3>2. /\ added'[y] = a + one /\ Pieces(cart', y) = c /\ Pieces(ordered', y) = o + one
          /\ dropped'[y] = w
      BY <1>2, <1>5, <2>3, <3>1
    <3>3. CASE \A q \in ShopRequests : shop[q].stage # "ordering"
      <4>1. a = c + o + w
        BY <2>1, <3>1, <3>3 DEF CartInv, Balance
      <4>2. a + one = c + (o + one) + w
        BY <4>1
      <4> QED
        BY <1>2, <3>2, <3>3, <4>2
    <3>4. ASSUME NEW q \in ShopRequests, shop[q].stage = "ordering"
          PROVE  added'[y] + Sold(q, y)' = Pieces(cart', y) + Pieces(ordered', y) + dropped'[y]
      <4>1. Sold(q, y) \in Nat
        <5>1. shop[q].copy \in Seq(Line)
          BY <1>t DEF OrdersTypeOK, Shopping
        <5>2. PICK S : S = LinesOf(shop[q].copy, y) \cap shop[q].sold
          OBVIOUS
        <5>3. IsFiniteSet(S) /\ \A j \in S : Quantities(shop[q].copy)[j] \in Nat
          BY <5>1, <5>2, LinesFinite, FS_Subset, QuantitiesTyped, LinesCounted
        <5> QED
          BY <5>2, <5>3, SumNat DEF Sold
      <4>2. PICK s \in Nat : s = Sold(q, y)
        BY <4>1
      <4>3. a + s = c + o + w
        BY <2>1, <3>1, <3>4, <4>2 DEF CartInv, Balance
      <4>4. (a + one) + s = c + (o + one) + w
        BY <4>3
      <4> QED
        BY <2>4, <3>2, <4>2, <4>4
    <3> QED
      BY <1>2, <3>3, <3>4
  <2>6. Balance'
    BY <2>5 DEF Balance
  <2> QED
    BY <2>2, <2>6 DEF CartInv
<1> QED
  BY <1>6, <1>7, <1>8 DEF OrdInv

LEMMA UnlistInv ==
  ASSUME OrdInv, NEW x \in Products, Unlist(x)
  PROVE  OrdInv'
<1>t. OrdTyped /\ OrdersTypeOK /\ MovesAllowed /\ (~jumbled => CartInv)
  BY DEF OrdInv, OrdTyped
<1>1. listed' \subseteq Products /\ UNCHANGED <<cart, ordered, shop, added, dropped, jumbled>>
  BY <1>t DEF Unlist, OrdersTypeOK
<1>2. OrdTyped'
  BY <1>t, <1>1, StillTyped DEF OrdersTypeOK
<1>3. MovesAllowed'
  BY <1>t, <1>1, MovesKept
<1>4. ~jumbled' => CartInv'
  BY <1>t, <1>1, CartKept
<1> QED
  BY <1>2, <1>3, <1>4 DEF OrdInv

LEMMA OrdInitInv == ASSUME OrdersInit PROVE OrdInv
<1>1. OrdersTypeOK
  <2>1. <<>> \in Seq(Line) /\ <<>> \in Seq(MarketOrder)
    OBVIOUS
  <2>2. /\ [r \in ShopRequests |-> NoShop] \in [ShopRequests -> Shopping]
        /\ [x \in Products |-> 0] \in [Products -> Nat]
    BY NoShopTyped
  <2> QED
    BY <2>1, <2>2 DEF OrdersInit, OrdersTypeOK
<1>2. OrdTyped
  BY <1>1, NoShopTyped DEF OrdersInit, OrdTyped, Carries
<1>3. MovesAllowed
  BY NoShopTyped DEF OrdersInit, MovesAllowed
<1>4. OneWriter /\ CopyIsCart
  BY NoShopTyped DEF OrdersInit, OneWriter, CopyIsCart, Writes, OnTheCart, CartStages
<1>5. Balance
  BY NoShopTyped, PiecesEmpty DEF OrdersInit, Balance
<1> QED
  BY <1>2, <1>3, <1>4, <1>5 DEF OrdInv, CartInv

LEMMA OrdStepInv == ASSUME OrdInv, [OrdersNext]_orderVars PROVE OrdInv'
<1>1. ASSUME NEW r \in ShopRequests, NEW next \in Shopping, CartBegins(r, next)
      PROVE  OrdInv'
  BY <1>1, BeginsInv DEF OrdInv
<1>2. ASSUME NEW r \in ShopRequests, NEW x \in Products,
             AddCartItem(r, x) \/ SetCartItemToZero(r, x)
      PROVE  OrdInv'
  BY <1>1, <1>2, AddBegins, SetToZeroBegins DEF OrdInv
<1>3. ASSUME NEW r \in ShopRequests, NEW x \in Products, NEW n \in 1..MaxAdded, SetCartItem(r, x, n)
      PROVE  OrdInv'
  BY <1>1, <1>3, SetBegins DEF OrdInv
<1>4. ASSUME NEW r \in ShopRequests, CheckoutCart(r) PROVE OrdInv'
  BY <1>1, <1>4, CheckoutBegins DEF OrdInv
<1>5. ASSUME UNCHANGED orderVars PROVE OrdInv'
  <2>1. OrdTyped' /\ MovesAllowed'
    BY <1>5, StillTyped, MovesKept DEF orderVars, OrdInv, OrdTyped, OrdersTypeOK
  <2>2. ~jumbled' => CartInv'
    BY <1>5, CartKept DEF orderVars, OrdInv
  <2> QED
    BY <2>1, <2>2 DEF OrdInv
<1> QED
  BY <1>2, <1>3, <1>4, <1>5, PushInv, WriteInv, ShrinkInv, PlaceInv, SpendInv, MoveBegins,
     MoveEnds, DieInv, LoadInv, PruneInv, RemoveInv, ClearInv, CreateInv, UnlistInv DEF OrdersNext

LEMMA OrdAlways == OrdersSpec => []OrdInv
<1>1. OrdersInit => OrdInv
  BY OrdInitInv
<1>2. OrdInv /\ [OrdersNext]_orderVars => OrdInv'
  BY OrdStepInv
<1> QED
  BY <1>1, <1>2, PTL DEF OrdersSpec

-----------------------------------------------------------------------------
(* Theorems about Orders *)

\* Cart, orders and requests keep their types: a quantity is never negative, an order never
\* without a product, though a line may be (cart.controller.ts setCartItem).
THEOREM OrdersTyped == OrdersSpec => []OrdersTypeOK
<1>1. OrdInv => OrdersTypeOK
  BY DEF OrdInv, OrdTyped
<1> QED
  BY <1>1, OrdAlways, PTL

\* Every piece put into a cart is in it, was taken out or pruned or is on one order, unless a
\* writer of lines met another request on the cart, or a pruning met a checkout or a newer
\* cart; and orders move along the moves allowed (cart.controller.ts loadCart and
\* checkoutCart, marketplace.controller.ts updateOrderStatus).
THEOREM PiecesAreKept == OrdersSpec => []PiecesAccountedFor
<1>1. OrdInv => PiecesAccountedFor
  BY DEF OrdInv, CartInv, Balance, MovesAllowed, PiecesAccountedFor
<1> QED
  BY <1>1, OrdAlways, PTL
=============================================================================
