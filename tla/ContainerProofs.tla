-------------------------- MODULE ContainerProofs ---------------------------
(***************************************************************************)
(* What holds of the containers for all their elements, sizes and calls:   *)
(* the bounded queues, union-find and graphs, heaps, skip lists and lists. *)
(***************************************************************************)
EXTENDS Lists, TopKQueue, UnionFind, SequenceTheorems, FiniteSetTheorems, TLAPS

-----------------------------------------------------------------------------
(* Numbers, and sums over finite sets.                                       *)

(* A set of numbers that is not empty has a least one: otherwise adding one  *)
(* would take the numbers below it, and -1, to the numbers below it.         *)
LEMMA SmallestNat ==
  ASSUME NEW S \in SUBSET Nat, S # {}
  PROVE  \E i \in S : \A j \in S : i <= j
<1> SUFFICES ASSUME \A i \in S : \E j \in S : j < i PROVE FALSE
  OBVIOUS
<1> DEFINE Below == {m \in Nat : \A j \in S : m < j}
           up == [x \in Below \cup {-1} |-> x + 1]
<1>1. IsFiniteSet(Below)
  <2>1. PICK n \in S : TRUE
    OBVIOUS
  <2>2. Below \in SUBSET Nat /\ n \in Nat /\ \A m \in Below : m <= n
    OBVIOUS
  <2> HIDE DEF Below
  <2> QED
    BY <2>2, FS_BoundedSetOfNaturals
<1>2. up \in [Below \cup {-1} -> Below]
  <2>1. \A m \in Below \cup {-1} : m + 1 \in Nat /\ \A j \in S : m + 1 <= j
    OBVIOUS
  <2>2. ASSUME NEW m \in Below \cup {-1} PROVE m + 1 \in Below
    <3>1. ASSUME NEW j \in S PROVE m + 1 < j
      <4>1. PICK k \in S : k < j
        OBVIOUS
      <4> QED
        BY <2>1, <4>1
    <3> QED
      BY <2>1, <3>1
  <2> QED
    BY <2>2
<1>3. \A x, y \in Below \cup {-1} : up[x] = up[y] => x = y
  OBVIOUS
<1>4. -1 \notin Below
  OBVIOUS
<1> HIDE DEF Below, up
<1>5. /\ IsFiniteSet(Below \cup {-1}) /\ Cardinality(Below) \in Nat
      /\ Cardinality(Below \cup {-1}) = Cardinality(Below) + 1
  BY <1>1, <1>4, FS_AddElement, FS_CardinalityType
<1>6. \E x, y \in Below \cup {-1} : x # y /\ up[x] = up[y]
  BY <1>1, <1>2, <1>5, FS_PigeonHole
<1> QED
  BY <1>3, <1>6

(* As many pairs as f counts over T.                                         *)
Units(f, T) == UNION {{x} \X (1 .. f[x]) : x \in T}

(* Of some subsets of a finite set one has no other one less an element.     *)
LEMMA SmallestSubset ==
  ASSUME NEW S, IsFiniteSet(S), NEW bad \in SUBSET SUBSET S, bad # {}
  PROVE  \E T \in bad : \A x \in T : T \ {x} \notin bad
<1> DEFINE sizes == {Cardinality(T) : T \in bad}
<1>1. \A T \in SUBSET S : IsFiniteSet(T) /\ Cardinality(T) \in Nat
  BY FS_Subset, FS_CardinalityType
<1>2. sizes \in SUBSET Nat /\ sizes # {}
  BY <1>1
<1>3. \A T \in bad : Cardinality(T) \in sizes
  OBVIOUS
<1>4. \A n \in sizes : \E T \in bad : Cardinality(T) = n
  OBVIOUS
<1> HIDE DEF sizes
<1>5. PICK n \in sizes : \A m \in sizes : n <= m
  BY <1>2, SmallestNat
<1>6. PICK T \in bad : Cardinality(T) = n
  BY <1>4
<1>7. ASSUME NEW x \in T, T \ {x} \in bad PROVE FALSE
  <2>1. Cardinality(T \ {x}) = Cardinality(T) - 1
    BY <1>1, FS_RemoveElement
  <2>2. n <= Cardinality(T \ {x}) /\ n \in Nat
    BY <1>2, <1>3, <1>5, <1>7
  <2> QED
    BY <1>6, <2>1, <2>2
<1> QED
  BY <1>7

(* An element adds as many as f counts for it.                               *)
LEMMA UnitsGrow ==
  ASSUME NEW T, NEW f, NEW x \in T, f[x] \in Nat, IsFiniteSet(Units(f, T \ {x}))
  PROVE  /\ IsFiniteSet(Units(f, T))
         /\ Cardinality(Units(f, T)) = f[x] + Cardinality(Units(f, T \ {x}))
<1> DEFINE A == Units(f, T \ {x})
           N == 1 .. f[x]
           B == {x} \X N
<1>1. Units(f, T) = A \cup B
  BY Zenon DEF Units
<1>2. A \cap B = {}
  BY DEF Units
<1>3. IsFiniteSet(N) /\ Cardinality(N) = f[x]
  BY FS_Interval
<1>4. IsFiniteSet({x}) /\ Cardinality({x}) = 1
  BY FS_Singleton
<1> HIDE DEF N
<1>5. IsFiniteSet(B) /\ Cardinality(B) = f[x]
  <2>1. Cardinality({x} \X N) = Cardinality({x}) * Cardinality(N) /\ IsFiniteSet({x} \X N)
    BY <1>3, <1>4, FS_Product
  <2>2. 1 * f[x] = f[x]
    OBVIOUS
  <2> QED
    BY <1>3, <1>4, <2>1, <2>2, Zenon
<1> HIDE DEF A, B
<1>6. /\ IsFiniteSet(A \cup B)
      /\ Cardinality(A \cup B) = Cardinality(A) + Cardinality(B) - Cardinality(A \cap B)
  BY <1>5, FS_Union DEF A
<1>7. Cardinality(A) \in Nat /\ Cardinality({}) = 0
  BY FS_CardinalityType, FS_EmptySet DEF A
<1>8. Cardinality(A \cap B) = 0
  BY <1>2, <1>7, Zenon
<1>9. Cardinality(A \cup B) = f[x] + Cardinality(A)
  <2> DEFINE a == Cardinality(A)
             b == Cardinality(B)
  <2>1. Cardinality(A \cup B) = a + b - 0 /\ b = f[x] /\ a \in Nat
    BY <1>5, <1>6, <1>7, <1>8, Zenon
  <2> QED
    BY <2>1
<1> QED
  BY <1>1, <1>6, <1>9, Zenon DEF A

(* They are finitely many.                                                   *)
LEMMA UnitsFinite ==
  ASSUME NEW S, IsFiniteSet(S), NEW f, \A x \in S : f[x] \in Nat
  PROVE  \A T \in SUBSET S : IsFiniteSet(Units(f, T))
<1> DEFINE bad == {T \in SUBSET S : ~IsFiniteSet(Units(f, T))}
<1> SUFFICES ASSUME bad # {} PROVE FALSE
  OBVIOUS
<1>1. PICK T \in bad : \A x \in T : T \ {x} \notin bad
  BY SmallestSubset
<1>2. Units(f, {}) = {}
  BY DEF Units
<1>3. PICK x \in T : TRUE
  BY <1>1, <1>2, FS_EmptySet
<1>4. f[x] \in Nat /\ IsFiniteSet(Units(f, T \ {x})) /\ ~IsFiniteSet(Units(f, T))
  BY <1>1
<1> QED
  BY <1>4, UnitsGrow

(* So that the sum that a fold computes is how many there are.               *)
LEMMA SumsAre ==
  ASSUME NEW S, IsFiniteSet(S), NEW f, \A x \in S : f[x] \in Nat
  PROVE  LET iter[T \in SUBSET S] ==
               IF T = {} THEN 0 ELSE LET x == CHOOSE x \in T : TRUE IN f[x] + iter[T \ {x}]
         IN iter[S] = Cardinality(Units(f, S))
<1> DEFINE iter[T \in SUBSET S] ==
             IF T = {} THEN 0 ELSE LET x == CHOOSE x \in T : TRUE IN f[x] + iter[T \ {x}]
           units == [T \in SUBSET S |-> Cardinality(Units(f, T))]
<1>1. SUFFICES iter[S] = units[S]
  BY Zenon
<1>2. \A T \in SUBSET S : /\ IsFiniteSet(T) /\ Cardinality(T) \in Nat
                          /\ IsFiniteSet(Units(f, T)) /\ Cardinality(Units(f, T)) \in Nat
  BY FS_Subset, FS_CardinalityType, UnitsFinite
<1>3. units = [T \in SUBSET S |->
                 IF T = {} THEN 0 ELSE LET x == CHOOSE x \in T : TRUE IN f[x] + units[T \ {x}]]
  <2>1. ASSUME NEW T \in SUBSET S, T # {}, NEW x \in T
        PROVE  units[T] = f[x] + units[T \ {x}]
    BY <1>2, <2>1, UnitsGrow
  <2>2. units[{}] = 0
    BY FS_EmptySet DEF Units
  <2> HIDE DEF units
  <2>3. \A T \in SUBSET S : 
          units[T] = IF T = {} THEN 0 ELSE LET x == CHOOSE x \in T : TRUE IN f[x] + units[T \ {x}]
    BY <2>1, <2>2, Zenon
  <2>4. units = [T \in SUBSET S |-> units[T]]
    BY Zenon DEF units
  <2> QED
    BY <2>3, <2>4, Zenon
<1>4. iter = [T \in SUBSET S |->
                 IF T = {} THEN 0 ELSE LET x == CHOOSE x \in T : TRUE IN f[x] + iter[T \ {x}]]
  BY <1>3, Zenon
<1> HIDE DEF iter
<1>5. /\ iter[{}] = 0
      /\ units[{}] = 0
      /\ \A T \in SUBSET S : T # {} =>
           \E x \in T : iter[T] = f[x] + iter[T \ {x}] /\ units[T] = f[x] + units[T \ {x}]
  <2> HIDE DEF units
  <2>1. ASSUME NEW T \in SUBSET S, T # {}
        PROVE  \E x \in T : iter[T] = f[x] + iter[T \ {x}] /\ units[T] = f[x] + units[T \ {x}]
    <3>1. (CHOOSE x \in T : TRUE) \in T
      BY <2>1
    <3> QED
      BY <1>3, <1>4, <2>1, <3>1
  <2> QED
    BY <1>3, <1>4, <2>1
<1> DEFINE bad == {T \in SUBSET S : iter[T] # units[T]}
<1>6. bad = {}
  <2> SUFFICES ASSUME bad # {} PROVE FALSE
    OBVIOUS
  <2> HIDE DEF units
  <2>1. PICK T \in bad : \A x \in T : T \ {x} \notin bad
    BY SmallestSubset
  <2>2. T # {}
    BY <1>5, <2>1
  <2>3. PICK x \in T : iter[T] = f[x] + iter[T \ {x}] /\ units[T] = f[x] + units[T \ {x}]
    BY <1>5, <2>1, <2>2
  <2>4. iter[T \ {x}] = units[T \ {x}]
    BY <2>1
  <2> QED
    BY <2>1, <2>3, <2>4
<1> QED
  BY <1>6

(* What differs in one place adds up to as much more or less.                *)
LEMMA UnitsChange ==
  ASSUME NEW S, IsFiniteSet(S), NEW f \in [S -> Nat], NEW h \in [S -> Nat], NEW x \in S,
         \A y \in S \ {x} : h[y] = f[y]
  PROVE  Cardinality(Units(h, S)) = Cardinality(Units(f, S)) + h[x] - f[x]
<1> DEFINE R == S \ {x}
<1>1. \A y \in R : h[y] = f[y]
  OBVIOUS
<1>2. /\ \A y \in S : f[y] \in Nat
      /\ \A y \in S : h[y] \in Nat
  OBVIOUS
<1>3. R \in SUBSET S
  OBVIOUS
<1> HIDE DEF R
<1>4. Units(h, R) = Units(f, R)
  BY <1>1 DEF Units
<1>5. IsFiniteSet(Units(f, R)) /\ IsFiniteSet(Units(h, R))
  BY <1>2, <1>3, UnitsFinite
<1>6. Cardinality(Units(f, R)) \in Nat
  BY <1>5, FS_CardinalityType
<1>7. Cardinality(Units(h, S)) = h[x] + Cardinality(Units(h, R))
  BY <1>2, <1>5, UnitsGrow DEF R
<1>8. Cardinality(Units(f, S)) = f[x] + Cardinality(Units(f, R))
  BY <1>2, <1>5, UnitsGrow DEF R
<1> QED
  BY <1>2, <1>4, <1>6, <1>7, <1>8

-----------------------------------------------------------------------------
(* Top-k queues: what they keep, and what they are drained of.               *)

Bags == [TopValues -> Nat]

(* A bag's size is the number of its units.                                  *)
LEMMA SizeIs ==
  ASSUME NEW bag \in Bags
  PROVE  Size(bag) = Cardinality(Units(bag, TopValues)) /\ Size(bag) \in Nat
<1>1. IsFiniteSet(TopValues) /\ \A x \in TopValues : bag[x] \in Nat
  BY TopAssumption DEF Bags
<1>2. Size(bag) = Cardinality(Units(bag, TopValues))
  BY <1>1, SumsAre, Zenon DEF Size
<1>3. IsFiniteSet(Units(bag, TopValues))
  BY <1>1, UnitsFinite
<1> QED
  BY <1>2, <1>3, FS_CardinalityType

(* A value more or less changes the size by one.                             *)
LEMMA SizeChanges ==
  ASSUME NEW bag \in Bags, NEW v \in TopValues
  PROVE  /\ Add(bag, v) \in Bags /\ Size(Add(bag, v)) = Size(bag) + 1
         /\ bag[v] > 0 => Remove(bag, v) \in Bags /\ Size(Remove(bag, v)) = Size(bag) - 1
<1>1. IsFiniteSet(TopValues) /\ bag \in [TopValues -> Nat] /\ bag[v] \in Nat
  BY TopAssumption DEF Bags
<1> DEFINE n == Cardinality(Units(bag, TopValues))
<1>2. Size(bag) = n /\ n \in Nat
  BY SizeIs
<1>3. Add(bag, v) \in Bags /\ Size(Add(bag, v)) = n + 1
  <2>1. bag[v] + 1 \in Nat /\ Add(bag, v) = [bag EXCEPT ![v] = bag[v] + 1] /\ Add(bag, v) \in Bags
    BY <1>1 DEF Add, Bags
  <2> DEFINE h == Add(bag, v)
  <2>2. h \in [TopValues -> Nat] /\ h[v] = bag[v] + 1 /\ \A y \in TopValues \ {v} : h[y] = bag[y]
    BY <1>1, <2>1
  <2> HIDE DEF n, h
  <2>3. Cardinality(Units(h, TopValues)) = n + h[v] - bag[v]
    BY <1>1, <2>2, UnitsChange DEF n
  <2>4. Size(h) = Cardinality(Units(h, TopValues))
    BY <2>2, SizeIs DEF Bags
  <2>5. Size(h) = n + 1
    BY <1>1, <1>2, <2>2, <2>3, <2>4
  <2> QED
    BY <2>1, <2>5 DEF h
<1>4. ASSUME bag[v] > 0 PROVE Remove(bag, v) \in Bags /\ Size(Remove(bag, v)) = n - 1
  <2>1. bag[v] - 1 \in Nat /\ Remove(bag, v) = [bag EXCEPT ![v] = bag[v] - 1] /\ Remove(bag, v) \in Bags
    BY <1>1, <1>4 DEF Remove, Bags
  <2> DEFINE h == Remove(bag, v)
  <2>2. h \in [TopValues -> Nat] /\ h[v] = bag[v] - 1 /\ \A y \in TopValues \ {v} : h[y] = bag[y]
    BY <1>1, <2>1
  <2> HIDE DEF n, h
  <2>3. Cardinality(Units(h, TopValues)) = n + h[v] - bag[v]
    BY <1>1, <2>2, UnitsChange DEF n
  <2>4. Size(h) = Cardinality(Units(h, TopValues))
    BY <2>2, SizeIs DEF Bags
  <2>5. Size(h) = n - 1
    BY <1>1, <1>2, <2>2, <2>3, <2>4
  <2> QED
    BY <2>1, <2>5 DEF h
<1> QED
  BY <1>2, <1>3, <1>4

(* A bag within another is not greater, and if it is as great it is the      *)
(* same.                                                                     *)
LEMMA SizeCompares ==
  ASSUME NEW bag \in Bags, NEW more \in Bags, \A v \in TopValues : bag[v] <= more[v]
  PROVE  Size(bag) <= Size(more) /\ (Size(bag) = Size(more) => bag = more)
<1> DEFINE U == Units(bag, TopValues)
           W == Units(more, TopValues)
<1>1. U \subseteq W
  BY DEF Units, Bags
<1>2. IsFiniteSet(W)
  BY TopAssumption, UnitsFinite DEF Bags
<1>3. U = W => bag = more
  <2> SUFFICES ASSUME U = W, bag # more PROVE FALSE
    OBVIOUS
  <2>1. PICK v \in TopValues : bag[v] # more[v]
    BY DEF Bags
  <2>2. <<v, more[v]>> \in W /\ <<v, more[v]>> \notin U
    BY <2>1 DEF Units, Bags
  <2> QED
    BY <2>2
<1>4. Size(bag) = Cardinality(U) /\ Size(more) = Cardinality(W)
  BY SizeIs
<1> HIDE DEF U, W
<1> QED
  BY <1>1, <1>2, <1>3, <1>4, FS_Subset

(* The empty bag is the one whose size is 0, and the one that has no value.  *)
LEMMA EmptySize ==
  /\ EmptyBag \in Bags /\ Size(EmptyBag) = 0
  /\ \A bag \in Bags : Size(bag) = 0 <=> In(bag) = {}
  /\ \A bag \in Bags : In(bag) = {} <=> bag = EmptyBag
<1>1. EmptyBag \in Bags
  BY DEF EmptyBag, Bags
<1>2. Size(EmptyBag) = 0
  <2>1. Units(EmptyBag, TopValues) = {}
    BY DEF EmptyBag, Units
  <2> QED
    BY <1>1, <2>1, SizeIs, FS_EmptySet
<1>3. \A bag \in Bags : In(bag) = {} <=> bag = EmptyBag
  BY DEF EmptyBag, Bags, In
<1>4. \A bag \in Bags : Size(bag) = 0 => bag = EmptyBag
  BY <1>1, <1>2, SizeCompares DEF EmptyBag, Bags
<1> QED
  BY <1>1, <1>2, <1>3, <1>4

(* What the two comparators say of two values.                               *)
LEMMA Orders ==
  /\ \A x, y \in TopValues : <<x, y>> \in Greater <=> x > y
  /\ \A x, y \in TopValues : <<x, y>> \in NotGreater <=> x < y
<1>0. \A x \in TopValues : x \in Int
  BY TopAssumption
<1>1. \A x, y \in TopValues : <<x, y>> \in Less <=> x < y
  BY DEF Less
<1>r. ASSUME NEW cmp, NEW x \in TopValues, NEW y \in TopValues
      PROVE  <<x, y>> \in Reversed(cmp) <=> (<<x, y>> \notin cmp /\ <<y, x>> \in cmp)
  <2>1. <<x, y>>[1] = x /\ <<x, y>>[2] = y /\ <<x, y>> \in TopValues \X TopValues
    OBVIOUS
  <2> QED
    BY <2>1, Zenon DEF Reversed
<1>2. \A x, y \in TopValues : <<x, y>> \in Greater <=> x > y
  <2>1. \A x, y \in TopValues : <<x, y>> \in Greater <=> (~(x < y) /\ y < x)
    BY <1>1, <1>r, Zenon DEF Greater
  <2> TAKE x \in TopValues, y \in TopValues
  <2>2. x \in Int /\ y \in Int
    BY <1>0
  <2> QED
    BY <2>1, <2>2
<1>3. \A x, y \in TopValues : <<x, y>> \in NotGreater <=> x < y
  <2>1. \A x, y \in TopValues : <<x, y>> \in NotGreater <=> (~(x > y) /\ y > x)
    BY <1>2, <1>r, Zenon DEF NotGreater
  <2> TAKE x \in TopValues, y \in TopValues
  <2>2. x \in Int /\ y \in Int
    BY <1>0
  <2> QED
    BY <2>1, <2>2
<1> QED
  BY <1>2, <1>3

StrictOrder(before) ==
  \A x, y, z \in TopValues :
    /\ <<x, x>> \notin before
    /\ <<x, y>> \in before /\ <<y, z>> \in before => <<x, z>> \in before
    /\ x # y => <<x, y>> \in before \/ <<y, x>> \in before

(* They are orders in which one of two different values comes before the     *)
(* other.                                                                    *)
LEMMA BothStrict == StrictOrder(Greater) /\ StrictOrder(NotGreater)
<1>0. \A x \in TopValues : x \in Int
  BY TopAssumption
<1>1. StrictOrder(Greater)
  <2> SUFFICES ASSUME NEW x \in TopValues, NEW y \in TopValues, NEW z \in TopValues
               PROVE  /\ <<x, x>> \notin Greater
                      /\ <<x, y>> \in Greater /\ <<y, z>> \in Greater => <<x, z>> \in Greater
                      /\ x # y => <<x, y>> \in Greater \/ <<y, x>> \in Greater
    BY Zenon DEF StrictOrder
  <2>1. x \in Int /\ y \in Int /\ z \in Int
    BY <1>0
  <2> QED
    BY <2>1, Orders
<1>2. StrictOrder(NotGreater)
  <2> SUFFICES ASSUME NEW x \in TopValues, NEW y \in TopValues, NEW z \in TopValues
               PROVE  /\ <<x, x>> \notin NotGreater
                      /\ <<x, y>> \in NotGreater /\ <<y, z>> \in NotGreater => <<x, z>> \in NotGreater
                      /\ x # y => <<x, y>> \in NotGreater \/ <<y, x>> \in NotGreater
    BY Zenon DEF StrictOrder
  <2>1. x \in Int /\ y \in Int /\ z \in Int
    BY <1>0
  <2> QED
    BY <2>1, Orders
<1> QED
  BY <1>1, <1>2

(* Something that is in the bag comes last, and it is the top.               *)
LEMMA TopIs ==
  ASSUME NEW before, StrictOrder(before), NEW bag \in Bags, In(bag) # {}
  PROVE  /\ Top(bag, before) \in In(bag) /\ Top(bag, before) \in TopValues
         /\ \A u \in In(bag) : <<Top(bag, before), u>> \notin before
         /\ \A t \in In(bag) : (\A u \in In(bag) : <<t, u>> \notin before) => t = Top(bag, before)
<1>0. In(bag) \in SUBSET TopValues /\ IsFiniteSet(In(bag))
  BY TopAssumption, FS_Subset DEF In
<1> DEFINE bad == {T \in SUBSET In(bag) : T # {} /\ \A t \in T : \E u \in T : <<t, u>> \in before}
<1>1. bad = {}
  <2> SUFFICES ASSUME bad # {} PROVE FALSE
    OBVIOUS
  <2>1. PICK T \in bad : \A x \in T : T \ {x} \notin bad
    BY <1>0, SmallestSubset
  <2>2. PICK x \in T : TRUE
    BY <2>1
  <2>3. T \subseteq TopValues
    BY <1>0, <2>1
  <2>4. CASE T \ {x} = {}
    <3>1. \E u \in T : <<x, u>> \in before
      BY <2>1, <2>2
    <3>2. T = {x}
      BY <2>2, <2>4
    <3> QED
      BY <2>3, <3>1, <3>2 DEF StrictOrder
  <2>5. CASE T \ {x} # {}
    <3>1. PICK y \in T \ {x} : \A u \in T \ {x} : <<y, u>> \notin before
      BY <2>1, <2>2, <2>5
    <3>2. \E u \in T : <<y, u>> \in before
      BY <2>1, <3>1
    <3>3. <<y, x>> \in before
      BY <3>1, <3>2
    <3>4. PICK u \in T : <<x, u>> \in before
      BY <2>1, <2>2
    <3>5. <<y, u>> \in before /\ u # x
      BY <2>2, <2>3, <3>1, <3>3, <3>4 DEF StrictOrder
    <3> QED
      BY <3>1, <3>4, <3>5
  <2> QED
    BY <2>4, <2>5
<1>2. \E t \in In(bag) : \A u \in In(bag) : <<t, u>> \notin before
  BY <1>1
<1>3. Top(bag, before) \in In(bag) /\ \A u \in In(bag) : <<Top(bag, before), u>> \notin before
  BY <1>2, Zenon DEF Top
<1> QED
  BY <1>0, <1>3 DEF StrictOrder

\* What a queue has is the best of what went into it.
Best(bag, into, before) ==
  /\ bag \in Bags /\ into \in Bags
  /\ \A v \in TopValues : bag[v] <= into[v]
  /\ Size(bag) = IF Size(into) < Cap THEN Size(into) ELSE Cap
  /\ \A v, u \in TopValues : bag[v] < into[v] /\ bag[u] > 0 => <<v, u>> \notin before

(* A queue begins with the best of nothing.                                  *)
LEMMA EmptyBest ==
  ASSUME NEW before
  PROVE  Best(EmptyBag, EmptyBag, before)
BY EmptySize, TopAssumption DEF Best, EmptyBag, Bags

(* push() keeps the best of what was pushed, the new value among them.       *)
LEMMA PushBest ==
  ASSUME NEW before, StrictOrder(before), NEW bag, NEW into, Best(bag, into, before),
         NEW v \in TopValues
  PROVE  Best(Pushed(bag, v, before), Add(into, v), before)
<1>1. /\ bag \in Bags /\ into \in Bags /\ Cap \in Nat /\ Cap # 0
      /\ Size(bag) \in Nat /\ Size(into) \in Nat
      /\ Size(bag) = IF Size(into) < Cap THEN Size(into) ELSE Cap
      /\ \A u \in TopValues : bag[u] \in Nat /\ into[u] \in Nat /\ bag[u] <= into[u]
  BY TopAssumption, SizeIs DEF Best, Bags
<1>2. Add(into, v) \in Bags /\ Size(Add(into, v)) = Size(into) + 1
  BY <1>1, SizeChanges
<1>3. \A u \in TopValues : Add(into, v)[u] = IF u = v THEN into[v] + 1 ELSE into[u]
  BY <1>1 DEF Add, Bags
<1>4. \A u \in TopValues : Add(bag, v)[u] = IF u = v THEN bag[v] + 1 ELSE bag[u]
  BY <1>1 DEF Add, Bags
<1>5. Add(bag, v) \in Bags /\ Size(Add(bag, v)) = Size(bag) + 1
  BY <1>1, SizeChanges
<1>6. CASE Size(bag) < Cap
  <2>1. Size(bag) = Size(into)
    BY <1>1, <1>6
  <2>2. bag = into
    BY <1>1, <2>1, SizeCompares
  <2>3. Pushed(bag, v, before) = Add(into, v)
    BY <1>6, <2>2 DEF Pushed
  <2>4. Size(Add(into, v)) <= Cap
    BY <1>1, <1>2, <1>6, <2>1
  <2>5. \A u \in TopValues : Add(into, v)[u] \in Nat
    BY <1>2 DEF Bags
  <2> QED
    BY <1>1, <1>2, <2>3, <2>4, <2>5 DEF Best
<1> DEFINE t == Top(bag, before)
<1>7. ASSUME ~(Size(bag) < Cap)
      PROVE  /\ t \in TopValues /\ bag[t] > 0
             /\ \A u \in TopValues : bag[u] > 0 => <<t, u>> \notin before
             /\ Size(bag) = Cap /\ ~(Size(into) + 1 < Cap)
  <2>1. In(bag) # {}
    BY <1>1, <1>7, EmptySize
  <2> QED
    BY <1>1, <1>7, <2>1, TopIs DEF In
<1> HIDE DEF t
<1>8. CASE ~(Size(bag) < Cap) /\ <<v, t>> \in before
  <2> DEFINE more == Add(bag, v)
             less == Remove(more, t)
  <2>1. v # t /\ <<t, v>> \notin before
    BY <1>7, <1>8 DEF StrictOrder
  <2>2. Top(more, before) = t
    <3>1. t \in In(more) /\ In(more) \subseteq In(bag) \cup {v} /\ In(more) # {}
      BY <1>4, <1>7, <1>8, <2>1 DEF In
    <3>2. \A u \in In(more) : <<t, u>> \notin before
      BY <1>7, <1>8, <2>1, <3>1 DEF In
    <3> HIDE DEF more
    <3> QED
      BY <1>5, <3>1, <3>2, TopIs DEF more
  <2>3. Pushed(bag, v, before) = less
    BY <1>8, <2>2 DEF Pushed, t
  <2>4. more[t] = bag[t] /\ more[t] > 0
    BY <1>4, <1>7, <1>8, <2>1
  <2>5. less \in Bags /\ Size(less) = Size(bag)
    <3> HIDE DEF more
    <3>1. Remove(more, t) \in Bags /\ Size(Remove(more, t)) = Size(more) - 1
      BY <1>5, <1>7, <1>8, <2>4, SizeChanges DEF more
    <3> QED
      BY <1>1, <1>5, <3>1 DEF more
  <2>6. \A u \in TopValues : less[u] = IF u = t THEN bag[t] - 1 ELSE IF u = v THEN bag[v] + 1 ELSE bag[u]
    BY <1>4, <1>5, <2>4 DEF Remove, Bags
  <2> HIDE DEF less
  <2>7. \A u \in TopValues : less[u] <= Add(into, v)[u]
    BY <1>1, <1>3, <2>6
  <2>8. ASSUME NEW x \in TopValues, NEW u \in TopValues, less[x] < Add(into, v)[x], less[u] > 0
        PROVE  <<x, u>> \notin before
    <3>1. bag[x] < into[x] \/ x = t
      BY <1>1, <1>3, <2>6, <2>8
    <3>2. bag[u] > 0 \/ u = v
      BY <1>1, <1>7, <1>8, <2>6, <2>8
    <3>3. bag[x] < into[x] => <<x, t>> \notin before
      BY <1>7, <1>8 DEF Best
    <3>4. bag[x] < into[x] /\ bag[u] > 0 => <<x, u>> \notin before
      BY DEF Best
    <3>5. t \in TopValues /\ (bag[u] > 0 => <<t, u>> \notin before)
      BY <1>7, <1>8
    <3> QED
      BY <1>8, <2>1, <3>1, <3>2, <3>3, <3>4, <3>5 DEF StrictOrder
  <2>9. Size(less) = IF Size(Add(into, v)) < Cap THEN Size(Add(into, v)) ELSE Cap
    BY <1>2, <1>7, <1>8, <2>5
  <2> QED
    BY <1>2, <2>3, <2>5, <2>7, <2>8, <2>9 DEF Best
<1>9. CASE ~(Size(bag) < Cap) /\ <<v, t>> \notin before
  <2>1. Pushed(bag, v, before) = bag
    BY <1>9 DEF Pushed, t
  <2>2. \A u \in TopValues : bag[u] <= Add(into, v)[u]
    BY <1>1, <1>3
  <2>3. ASSUME NEW x \in TopValues, NEW u \in TopValues, bag[x] < Add(into, v)[x], bag[u] > 0
        PROVE  <<x, u>> \notin before
    <3>1. bag[x] < into[x] \/ x = v
      BY <1>1, <1>3, <2>3
    <3>2. bag[x] < into[x] => <<x, u>> \notin before
      BY <2>3 DEF Best
    <3>3. t \in TopValues /\ <<t, u>> \notin before
      BY <1>7, <1>9, <2>3
    <3>4. <<v, u>> \notin before
      BY <1>9, <3>3 DEF StrictOrder
    <3> QED
      BY <3>1, <3>2, <3>4
  <2>4. Size(bag) = IF Size(Add(into, v)) < Cap THEN Size(Add(into, v)) ELSE Cap
    BY <1>2, <1>7, <1>9
  <2> QED
    BY <1>1, <1>2, <2>1, <2>2, <2>3, <2>4 DEF Best
<1> QED
  BY <1>6, <1>8, <1>9

Places(s, v) == {i \in 1 .. Len(s) : s[i] = v}

\* s has what the bag has, with no one before an earlier one.
SortedOf(s, bag, before) ==
  /\ s \in Seq(TopValues) /\ Len(s) = Size(bag)
  /\ \A i, j \in 1 .. Len(s) : i < j => <<s[j], s[i]>> \notin before
  /\ \A v \in TopValues : Cardinality(Places(s, v)) = bag[v]

(* An element that is appended is at one place more.                         *)
LEMMA PlacesOfAppend ==
  ASSUME NEW s \in Seq(TopValues), NEW x \in TopValues, NEW v
  PROVE  /\ Cardinality(Places(Append(s, x), v)) =
              Cardinality(Places(s, v)) + (IF v = x THEN 1 ELSE 0)
         /\ Cardinality(Places(s, v)) \in Nat
         /\ (\E i \in 1 .. Len(s) : s[i] = v) <=> Cardinality(Places(s, v)) > 0
<1>1. IsFiniteSet(1 .. Len(s)) /\ Places(s, v) \in SUBSET (1 .. Len(s)) /\ Len(s) \in Nat
  BY FS_Interval DEF Places
<1>2. IsFiniteSet(Places(s, v))
  BY <1>1, FS_Subset
<1>3. Places(Append(s, x), v) = Places(s, v) \cup (IF v = x THEN {Len(s) + 1} ELSE {})
  <2>1. Len(Append(s, x)) = Len(s) + 1 /\ Append(s, x)[Len(s) + 1] = x
    OBVIOUS
  <2>2. \A i \in 1 .. Len(s) : Append(s, x)[i] = s[i]
    OBVIOUS
  <2>3. 1 .. Len(s) + 1 = 1 .. Len(s) \cup {Len(s) + 1}
    BY <1>1
  <2> QED
    BY <2>1, <2>2, <2>3 DEF Places
<1>4. Len(s) + 1 \notin Places(s, v)
  BY <1>1
<1>5. Cardinality(Places(s, v)) \in Nat /\ (Cardinality(Places(s, v)) = 0 <=> Places(s, v) = {})
  BY <1>2, FS_CardinalityType, FS_EmptySet
<1>6. (\E i \in 1 .. Len(s) : s[i] = v) <=> Places(s, v) # {}
  BY DEF Places
<1>7. CASE v = x
  <2>1. Cardinality(Places(s, v) \cup {Len(s) + 1}) = Cardinality(Places(s, v)) + 1
    BY <1>2, <1>4, FS_AddElement
  <2> QED
    BY <1>3, <1>5, <1>6, <1>7, <2>1
<1>8. CASE v # x
  <2>1. Places(Append(s, x), v) = Places(s, v)
    BY <1>3, <1>8
  <2> QED
    BY <1>5, <1>6, <1>8, <2>1
<1> QED
  BY <1>7, <1>8

(* What sorts the rest of a bag, with its top behind it, sorts the bag.      *)
LEMMA SortedAppend ==
  ASSUME NEW before, StrictOrder(before), NEW bag \in Bags, In(bag) # {},
         NEW s, SortedOf(s, Remove(bag, Top(bag, before)), before)
  PROVE  SortedOf(Append(s, Top(bag, before)), bag, before)
<1> DEFINE t == Top(bag, before)
           rest == Remove(bag, t)
<1>1. t \in TopValues /\ bag[t] > 0 /\ \A u \in In(bag) : <<t, u>> \notin before
  BY TopIs DEF In
<1>2. rest \in Bags /\ Size(rest) = Size(bag) - 1 /\ Size(bag) \in Nat
  BY <1>1, SizeChanges, SizeIs
<1>3. \A u \in TopValues : bag[u] \in Nat /\ rest[u] \in Nat /\ bag[u] = rest[u] + (IF u = t THEN 1 ELSE 0)
  BY <1>1 DEF Remove, Bags
<1>4. /\ s \in Seq(TopValues) /\ Len(s) = Size(rest)
      /\ \A i, j \in 1 .. Len(s) : i < j => <<s[j], s[i]>> \notin before
      /\ \A v \in TopValues : Cardinality(Places(s, v)) = rest[v]
  BY DEF SortedOf
<1> HIDE DEF t, rest
<1>5. Append(s, t) \in Seq(TopValues) /\ Len(Append(s, t)) = Size(bag) /\ Size(bag) = Len(s) + 1
  BY <1>1, <1>2, <1>4
<1>6. \A i \in 1 .. Len(s) : Append(s, t)[i] = s[i] /\ s[i] \in TopValues
  BY <1>1, <1>4
<1>7. Append(s, t)[Len(s) + 1] = t
  BY <1>1, <1>4
<1>8. \A i \in 1 .. Len(s) : <<t, s[i]>> \notin before
  <2> TAKE i \in 1 .. Len(s)
  <2>1. Cardinality(Places(s, s[i])) > 0
    BY <1>1, <1>4, <1>6, PlacesOfAppend
  <2>2. s[i] \in In(bag)
    BY <1>3, <1>4, <1>6, <2>1 DEF In
  <2> QED
    BY <1>1, <2>2
<1>9. \A i, j \in 1 .. Len(s) + 1 : i < j => <<Append(s, t)[j], Append(s, t)[i]>> \notin before
  <2> TAKE i \in 1 .. Len(s) + 1, j \in 1 .. Len(s) + 1
  <2> HAVE i < j
  <2>1. i \in 1 .. Len(s) /\ (j = Len(s) + 1 \/ j \in 1 .. Len(s))
    BY <1>4
  <2> QED
    BY <1>4, <1>6, <1>7, <1>8, <2>1
<1>10. \A v \in TopValues : Cardinality(Places(Append(s, t), v)) = bag[v]
  BY <1>1, <1>3, <1>4, PlacesOfAppend
<1> QED
  BY <1>5, <1>9, <1>10 DEF SortedOf, t

(* What sorts a bag ends in its top and sorts the rest before it.            *)
LEMMA SortedFront ==
  ASSUME NEW before, StrictOrder(before), NEW bag \in Bags, In(bag) # {},
         NEW s, SortedOf(s, bag, before)
  PROVE  \E r : SortedOf(r, Remove(bag, Top(bag, before)), before) /\ s = Append(r, Top(bag, before))
<1> DEFINE t == Top(bag, before)
           rest == Remove(bag, t)
           n == Len(s)
           r == SubSeq(s, 1, n - 1)
<1>1. t \in TopValues /\ bag[t] > 0 /\ \A u \in In(bag) : <<t, u>> \notin before
  BY TopIs DEF In
<1>2. rest \in Bags /\ Size(rest) = Size(bag) - 1 /\ Size(bag) \in Nat /\ Size(bag) # 0
  BY <1>1, SizeChanges, SizeIs, EmptySize
<1>3. \A u \in TopValues : bag[u] \in Nat /\ rest[u] \in Nat /\ bag[u] = rest[u] + (IF u = t THEN 1 ELSE 0)
  BY <1>1 DEF Remove, Bags
<1>4. /\ s \in Seq(TopValues) /\ n = Size(bag) /\ n \in Nat /\ n > 0
      /\ \A i, j \in 1 .. n : i < j => <<s[j], s[i]>> \notin before
      /\ \A v \in TopValues : Cardinality(Places(s, v)) = bag[v]
  BY <1>2 DEF SortedOf
<1>5. /\ r \in Seq(TopValues) /\ Len(r) = n - 1 /\ \A i \in 1 .. n - 1 : r[i] = s[i]
      /\ s[n] \in TopValues /\ s = Append(r, s[n])
  BY <1>4
<1> HIDE DEF t, rest, r, n
<1>6. \A v \in TopValues : (\E i \in 1 .. n : s[i] = v) <=> v \in In(bag)
  BY <1>1, <1>4, PlacesOfAppend DEF In, n
<1>7. s[n] = t
  <2>1. s[n] \in In(bag)
    BY <1>4, <1>5, <1>6
  <2>2. ASSUME NEW u \in In(bag) PROVE <<s[n], u>> \notin before
    <3>1. PICK i \in 1 .. n : s[i] = u
      BY <1>6 DEF In
    <3>2. i < n \/ i = n
      BY <1>4
    <3> QED
      BY <1>4, <1>5, <3>1, <3>2 DEF StrictOrder
  <2> QED
    BY <2>1, <2>2, TopIs DEF t
<1>8. \A v \in TopValues : Cardinality(Places(r, v)) = rest[v]
  <2> TAKE v \in TopValues
  <2>1. /\ Cardinality(Places(Append(r, t), v)) = Cardinality(Places(r, v)) + (IF v = t THEN 1 ELSE 0)
        /\ Cardinality(Places(r, v)) \in Nat
    BY <1>1, <1>5, PlacesOfAppend
  <2>2. Cardinality(Places(Append(r, t), v)) = bag[v]
    BY <1>4, <1>5, <1>7
  <2> QED
    BY <1>3, <2>1, <2>2
<1>9. \A i, j \in 1 .. n - 1 : i < j => <<r[j], r[i]>> \notin before
  <2>1. 1 .. n - 1 \subseteq 1 .. n
    BY <1>4
  <2> QED
    BY <1>4, <1>5, <2>1
<1>10. SortedOf(r, rest, before)
  BY <1>2, <1>4, <1>5, <1>8, <1>9 DEF SortedOf
<1> QED
  BY <1>5, <1>7, <1>10 DEF t, rest

(* Only the empty sequence sorts an empty bag.                               *)
LEMMA SortedEmpty ==
  ASSUME NEW before, NEW bag \in Bags, In(bag) = {}
  PROVE  \A s : SortedOf(s, bag, before) <=> s = <<>>
<1>1. Size(bag) = 0 /\ \A v \in TopValues : bag[v] = 0
  BY EmptySize DEF EmptyBag
<1>2. ASSUME NEW s, SortedOf(s, bag, before) PROVE s = <<>>
  BY <1>1, <1>2, EmptySeq DEF SortedOf
<1>3. SortedOf(<<>>, bag, before)
  <2>1. <<>> \in Seq(TopValues) /\ Len(<<>>) = 0
    BY EmptySeq
  <2>2. \A v \in TopValues : Places(<<>>, v) = {}
    BY DEF Places
  <2>3. \A v \in TopValues : Cardinality(Places(<<>>, v)) = bag[v]
    <3> TAKE v \in TopValues
    <3>1. Places(<<>>, v) = {}
      BY <2>2, Zenon
    <3>2. Cardinality({}) = 0
      BY FS_EmptySet, Zenon
    <3>3. Cardinality(Places(<<>>, v)) = 0
      BY <3>1, <3>2, Zenon
    <3> QED
      BY <1>1, <3>3, Zenon
  <2>4. \A i, j \in 1 .. Len(<<>>) : i < j => <<(<<>>)[j], (<<>>)[i]>> \notin before
    BY <2>1
  <2>5. <<>> \in Seq(TopValues) /\ Len(<<>>) = Size(bag)
    BY <1>1, <2>1, Zenon
  <2> QED
    BY <2>3, <2>4, <2>5, Zenon DEF SortedOf
<1> QED
  BY <1>2, <1>3

(* Every bag is sorted by one sequence.                                      *)
LEMMA SortedOnce ==
  ASSUME NEW before, StrictOrder(before)
  PROVE  \A bag \in Bags : \E s : SortedOf(s, bag, before) /\ \A r : SortedOf(r, bag, before) => r = s
<1> DEFINE good(bag) == \E s : SortedOf(s, bag, before) /\ \A r : SortedOf(r, bag, before) => r = s
           bad == {bag \in Bags : ~good(bag)}
           sizes == {Size(bag) : bag \in bad}
<1> SUFFICES ASSUME bad # {} PROVE FALSE
  OBVIOUS
<1>1. sizes \in SUBSET Nat /\ sizes # {}
  BY SizeIs
<1>2. PICK n \in sizes : \A m \in sizes : n <= m
  BY <1>1, SmallestNat
<1>3. PICK bag \in bad : Size(bag) = n
  OBVIOUS
<1> DEFINE rest == Remove(bag, Top(bag, before))
<1>4. In(bag) # {}
  BY <1>3, SortedEmpty
<1>5. rest \in Bags /\ Size(rest) = n - 1 /\ n \in Nat
  BY <1>3, <1>4, SizeChanges, TopIs, SizeIs DEF In
<1>6. good(rest)
  <2>1. rest \in bad => n <= Size(rest)
    BY <1>2
  <2> QED
    BY <1>5, <2>1
<1>7. PICK s : SortedOf(s, rest, before) /\ \A r : SortedOf(r, rest, before) => r = s
  BY <1>6
<1>8. SortedOf(Append(s, Top(bag, before)), bag, before)
  BY <1>3, <1>4, <1>7, SortedAppend
<1>9. ASSUME NEW r, SortedOf(r, bag, before) PROVE r = Append(s, Top(bag, before))
  BY <1>3, <1>4, <1>7, <1>9, SortedFront
<1>10. good(bag)
  BY <1>8, <1>9
<1> QED
  BY <1>3, <1>10

(* Taking the top as long as there is one lists what was in the queue.       *)
LEMMA DrainedSorted ==
  ASSUME NEW before, StrictOrder(before), NEW bag0 \in Bags
  PROVE  SortedOf(Drained(bag0, before), bag0, before)
<1> DEFINE top(bag) == Top(bag, before)
           rest(bag) == Remove(bag, Top(bag, before))
           drain[bag \in [TopValues -> Nat]] ==
             IF In(bag) = {} THEN <<>>
             ELSE Append(drain[Remove(bag, Top(bag, before))], Top(bag, before))
           list == [bag \in [TopValues -> Nat] |-> CHOOSE s : SortedOf(s, bag, before)]
<1>1. Drained(bag0, before) = drain[bag0]
  BY Zenon DEF Drained
<1>2. \A bag \in Bags : In(bag) # {} => rest(bag) \in Bags /\ Size(rest(bag)) = Size(bag) - 1
  BY TopIs, SizeChanges DEF In
<1>3. \A bag \in Bags : SortedOf(list[bag], bag, before) /\ \A s : SortedOf(s, bag, before) => s = list[bag]
  <2> TAKE bag \in Bags
  <2>1. PICK s : SortedOf(s, bag, before) /\ \A r : SortedOf(r, bag, before) => r = s
    BY SortedOnce
  <2>2. list[bag] = CHOOSE r : SortedOf(r, bag, before)
    BY DEF Bags
  <2> HIDE DEF list
  <2>3. SortedOf(list[bag], bag, before)
    BY <2>1, <2>2, Zenon
  <2> QED
    BY <2>1, <2>3
<1> HIDE DEF list
<1>4. list = [bag \in [TopValues -> Nat] |-> list[bag]]
  BY DEF list
<1>5. \A bag \in [TopValues -> Nat] :
        list[bag] = IF In(bag) = {} THEN <<>>
                    ELSE Append(list[Remove(bag, Top(bag, before))], Top(bag, before))
  <2> SUFFICES ASSUME NEW bag \in Bags
               PROVE  list[bag] = IF In(bag) = {} THEN <<>> ELSE Append(list[rest(bag)], top(bag))
    BY Zenon DEF Bags
  <2>1. CASE In(bag) = {}
    BY <1>3, <2>1, SortedEmpty
  <2>2. CASE In(bag) # {}
    <3>1. SortedOf(list[rest(bag)], rest(bag), before)
      BY <1>2, <1>3, <2>2
    <3>2. SortedOf(Append(list[rest(bag)], top(bag)), bag, before)
      BY <2>2, <3>1, SortedAppend
    <3> QED
      BY <1>3, <2>2, <3>2
  <2> QED
    BY <2>1, <2>2
<1>6. list = [bag \in [TopValues -> Nat] |->
                IF In(bag) = {} THEN <<>>
                ELSE Append(list[Remove(bag, Top(bag, before))], Top(bag, before))]
  BY <1>4, <1>5, Zenon
<1>7. drain = [bag \in [TopValues -> Nat] |->
                IF In(bag) = {} THEN <<>>
                ELSE Append(drain[Remove(bag, Top(bag, before))], Top(bag, before))]
  BY <1>6, Zenon
<1> HIDE DEF drain
<1>8. \A bag \in Bags : drain[bag] = IF In(bag) = {} THEN <<>> ELSE Append(drain[rest(bag)], top(bag))
  BY <1>7, Zenon DEF Bags
<1> DEFINE bad == {bag \in Bags : ~SortedOf(drain[bag], bag, before)}
           sizes == {Size(bag) : bag \in bad}
<1>9. bad = {}
  <2> SUFFICES ASSUME bad # {} PROVE FALSE
    OBVIOUS
  <2>1. sizes \in SUBSET Nat /\ sizes # {}
    BY SizeIs
  <2>2. PICK n \in sizes : \A m \in sizes : n <= m
    BY <2>1, SmallestNat
  <2>3. PICK bag \in bad : Size(bag) = n
    OBVIOUS
  <2>4. In(bag) # {}
    BY <1>8, <2>3, SortedEmpty
  <2>5. rest(bag) \in Bags /\ Size(rest(bag)) = n - 1 /\ n \in Nat
    BY <1>2, <2>1, <2>3, <2>4
  <2>6. rest(bag) \in bad => n <= Size(rest(bag))
    BY <2>2
  <2>7. SortedOf(drain[rest(bag)], rest(bag), before)
    BY <2>5, <2>6
  <2>8. SortedOf(Append(drain[rest(bag)], top(bag)), bag, before)
    BY <2>3, <2>4, <2>7, SortedAppend
  <2> QED
    BY <1>8, <2>3, <2>4, <2>8
<1> QED
  BY <1>1, <1>9

(* Draining a queue shows the best of what was pushed, in order.             *)
LEMMA BestIs ==
  ASSUME NEW before, StrictOrder(before), NEW bag, NEW into, Best(bag, into, before)
  PROVE  IsBestOf(Drained(bag, before), into, before)
<1> DEFINE s == Drained(bag, before)
           held == [v \in TopValues |-> Cardinality({i \in 1 .. Len(s) : s[i] = v})]
<1>1. bag \in Bags /\ into \in Bags
  BY DEF Best
<1>2. SortedOf(s, bag, before)
  BY <1>1, DrainedSorted
<1> HIDE DEF s
<1>3. /\ s \in Seq(TopValues) /\ Len(s) = Size(bag)
      /\ \A i, j \in 1 .. Len(s) : i < j => <<s[j], s[i]>> \notin before
      /\ \A v \in TopValues : Cardinality(Places(s, v)) = bag[v]
  BY <1>2 DEF SortedOf
<1>4. \A v \in TopValues : held[v] = bag[v]
  BY <1>3 DEF Places
<1>5. \A i \in 1 .. Len(s) : s[i] \in TopValues /\ bag[s[i]] > 0
  BY <1>3, PlacesOfAppend
<1> HIDE DEF held
<1>6. /\ Len(s) = IF Size(into) < Cap THEN Size(into) ELSE Cap
      /\ \A v \in TopValues : held[v] <= into[v]
  BY <1>3, <1>4 DEF Best
<1>7. \A v \in TopValues, i \in 1 .. Len(s) : held[v] < into[v] => <<v, s[i]>> \notin before
  BY <1>4, <1>5 DEF Best
<1> QED
  BY <1>3, <1>6, <1>7 DEF IsBestOf, s, held

TopInv == TopTypeOK /\ Best(maxQueue, intoMax, Greater) /\ Best(minQueue, intoMin, NotGreater)

(* Two empty queues satisfy the invariant.                                   *)
LEMMA TopInitInv == TopInit => TopInv
<1> SUFFICES ASSUME TopInit PROVE TopInv
  OBVIOUS
<1>1. EmptyBag \in [TopValues -> Nat]
  BY DEF EmptyBag
<1>2. TopTypeOK
  BY <1>1, TopAssumption DEF TopInit, TopTypeOK
<1> QED
  BY <1>2, EmptyBest DEF TopInit, TopInv

(* So does what any thread makes of them.                                    *)
LEMMA TopStep == TopInv /\ (TopNext \/ UNCHANGED topVars) => TopInv'
<1> SUFFICES ASSUME TopInv, TopNext \/ UNCHANGED topVars PROVE TopInv'
  OBVIOUS
<1>1. /\ TopTypeOK /\ Best(maxQueue, intoMax, Greater) /\ Best(minQueue, intoMin, NotGreater)
      /\ MaxPushes \in Nat
  BY TopAssumption DEF TopInv
<1>2. ASSUME NEW w \in Pushers, NEW v \in TopValues, PushMax(w, v) PROVE TopInv'
  <2>1. Best(maxQueue', intoMax', Greater)
    BY <1>1, <1>2, PushBest, BothStrict DEF PushMax
  <2>2. Best(minQueue', intoMin', NotGreater)
    BY <1>1, <1>2 DEF PushMax
  <2>3. TopTypeOK'
    <3>1. maxQueue' \in [TopValues -> Nat] /\ intoMax' \in [TopValues -> Nat]
      BY <2>1 DEF Best, Bags
    <3> QED
      BY <1>1, <1>2, <3>1 DEF TopTypeOK, PushMax
  <2> QED
    BY <2>1, <2>2, <2>3 DEF TopInv
<1>3. ASSUME NEW w \in Pushers, PushMin(w) PROVE TopInv'
  <2>0. pushing[w] \in TopValues
    BY <1>1, <1>3 DEF TopTypeOK, PushMin
  <2>1. Best(minQueue', intoMin', NotGreater)
    BY <1>1, <1>3, <2>0, PushBest, BothStrict DEF PushMin
  <2>2. Best(maxQueue', intoMax', Greater)
    BY <1>1, <1>3 DEF PushMin
  <2>3. TopTypeOK'
    <3>1. minQueue' \in [TopValues -> Nat] /\ intoMin' \in [TopValues -> Nat]
      BY <2>1 DEF Best, Bags
    <3> QED
      BY <1>1, <1>3, <3>1 DEF TopTypeOK, PushMin
  <2> QED
    BY <2>1, <2>2, <2>3 DEF TopInv
<1>4. CASE PopTop \/ PopBottom
  <2>1. EmptyBag \in [TopValues -> Nat]
    BY DEF EmptyBag
  <2>2. Best(maxQueue', intoMax', Greater) /\ Best(minQueue', intoMin', NotGreater)
    BY <1>1, <1>4, EmptyBest DEF PopTop, PopBottom
  <2>3. TopTypeOK'
    BY <1>1, <1>4, <2>1 DEF TopTypeOK, PopTop, PopBottom
  <2> QED
    BY <2>2, <2>3 DEF TopInv
<1>5. CASE UNCHANGED topVars
  <2>1. Best(maxQueue', intoMax', Greater) /\ Best(minQueue', intoMin', NotGreater)
    BY <1>1, <1>5 DEF topVars
  <2>2. TopTypeOK'
    BY <1>1, <1>5 DEF TopTypeOK, topVars
  <2> QED
    BY <2>1, <2>2 DEF TopInv
<1> QED
  BY <1>2, <1>3, <1>4, <1>5 DEF TopNext

(* With the invariant both queues are as they should be.                     *)
LEMMA TopKeeps == TopInv => TopCorrect
BY BestIs, BothStrict DEF TopInv, TopCorrect, KeepsTheBest

(* Whatever the order of the pushes and whenever a queue is emptied, the     *)
(* bounded queues return the best of what went into them, best first.        *)
THEOREM QueuesKeepTheBest == TopSpec => []TopCorrect
<1>1. TopInv /\ [TopNext]_topVars => TopInv'
  BY TopStep, Zenon
<1> QED
  BY <1>1, TopKeeps, TopInitInv, PTL DEF TopSpec

-----------------------------------------------------------------------------
(* Union-find and graph.                                                     *)

\* P is a forest: r is the root of each node, and a parent is lower than its children.
Forest(P, r, h) ==
  /\ P \in [DOMAIN P -> DOMAIN P] /\ r \in [DOMAIN P -> DOMAIN P] /\ h \in [DOMAIN P -> Nat]
  /\ \A x \in DOMAIN P : P[x] = x => r[x] = x
  /\ \A x \in DOMAIN P : P[x] # x => r[x] = r[P[x]] /\ h[P[x]] < h[x]

Roots(P) == {x \in DOMAIN P : P[x] = x}
Class(r, x) == {y \in DOMAIN r : r[y] = r[x]}
Classes(r) == {Class(r, x) : x \in DOMAIN r}

(* Of some nodes one is lowest.                                              *)
LEMMA LowestNode ==
  ASSUME NEW P, NEW r, NEW h, Forest(P, r, h), NEW bad \in SUBSET DOMAIN P, bad # {}
  PROVE  \E x \in bad : P[x] # x => P[x] \in DOMAIN P /\ P[x] \notin bad
<1> DEFINE heights == {h[x] : x \in bad}
<1>1. heights \in SUBSET Nat /\ heights # {}
  BY DEF Forest
<1>2. PICK n \in heights : \A m \in heights : n <= m
  BY <1>1, SmallestNat
<1>3. PICK x \in bad : h[x] = n
  BY <1>2
<1>4. ASSUME P[x] # x PROVE P[x] \in DOMAIN P /\ P[x] \notin bad
  <2>1. P[x] \in DOMAIN P /\ h[P[x]] < h[x] /\ h[P[x]] \in Nat /\ h[x] \in Nat
    BY <1>4 DEF Forest
  <2>2. P[x] \in bad => n <= h[P[x]]
    BY <1>2
  <2> QED
    BY <1>3, <2>1, <2>2
<1> QED
  BY <1>4

(* A root is a root, and lower than what is under it.                        *)
LEMMA RootFacts ==
  ASSUME NEW P, NEW r, NEW h, Forest(P, r, h)
  PROVE  \A x \in DOMAIN P : /\ r[x] \in Roots(P) /\ r[r[x]] = r[x] /\ h[r[x]] <= h[x]
                             /\ x # r[x] => h[r[x]] < h[x]
<1> DEFINE Right(x) == /\ r[x] \in Roots(P) /\ r[r[x]] = r[x] /\ h[r[x]] <= h[x]
                       /\ x # r[x] => h[r[x]] < h[x]
           bad == {x \in DOMAIN P : ~Right(x)}
<1> SUFFICES ASSUME bad # {} PROVE FALSE
  OBVIOUS
<1> HIDE DEF Right
<1>1. PICK x \in bad : P[x] # x => P[x] \in DOMAIN P /\ P[x] \notin bad
  BY LowestNode
<1>2. CASE P[x] = x
  BY <1>1, <1>2 DEF Forest, Roots, Right
<1>3. CASE P[x] # x
  <2>1. Right(P[x]) /\ r[x] = r[P[x]] /\ h[P[x]] < h[x] /\ P[x] \in DOMAIN P
    BY <1>1, <1>3 DEF Forest
  <2>2. h[x] \in Nat /\ h[P[x]] \in Nat /\ h[r[P[x]]] \in Nat
    BY <1>1, <2>1 DEF Forest
  <2>3. h[r[x]] < h[x]
    BY <2>1, <2>2 DEF Right
  <2>4. Right(x)
    BY <2>1, <2>2, <2>3 DEF Right
  <2> QED
    BY <1>1, <2>4
<1> QED
  BY <1>2, <1>3

(* What Root() follows and what Path() collects.                             *)
LEMMA RootIs ==
  ASSUME NEW P, NEW r, NEW h, Forest(P, r, h)
  PROVE  \A a \in DOMAIN P : Root(P, a) = r[a]
<1> DEFINE root[x \in DOMAIN P] == IF P[x] = x THEN x ELSE root[P[x]]
<1>1. \A a : Root(P, a) = root[a]
  BY Zenon DEF Root
<1>2. r = [x \in DOMAIN P |-> IF P[x] = x THEN x ELSE r[P[x]]]
  <2>1. r = [x \in DOMAIN P |-> r[x]]
    BY DEF Forest
  <2>2. \A x \in DOMAIN P : r[x] = IF P[x] = x THEN x ELSE r[P[x]]
    BY DEF Forest
  <2> QED
    BY <2>1, <2>2, Zenon
<1>3. root = [x \in DOMAIN P |-> IF P[x] = x THEN x ELSE root[P[x]]]
  BY <1>2, Zenon
<1> HIDE DEF root
<1>4. \A x \in DOMAIN P : root[x] = IF P[x] = x THEN x ELSE root[P[x]]
  BY <1>3, Zenon
<1> DEFINE bad == {x \in DOMAIN P : root[x] # r[x]}
<1>5. bad = {}
  <2> SUFFICES ASSUME bad # {} PROVE FALSE
    OBVIOUS
  <2>1. PICK x \in bad : P[x] # x => P[x] \in DOMAIN P /\ P[x] \notin bad
    BY LowestNode
  <2> QED
    BY <1>4, <2>1 DEF Forest
<1> QED
  BY <1>1, <1>5

(* A path to the root stays in one tree.                                     *)
LEMMA PathIs ==
  ASSUME NEW P, NEW r, NEW h, Forest(P, r, h)
  PROVE  \A a \in DOMAIN P : \A x \in Path(P, a) : x \in DOMAIN P /\ r[x] = r[a]
<1> DEFINE path[x \in DOMAIN P] == IF P[x] = x THEN {x} ELSE {x} \cup path[P[x]]
           Closed(S) == \A x \in S : P[x] \in S
           on(x) == {y \in DOMAIN P : \A S \in SUBSET DOMAIN P : Closed(S) /\ x \in S => y \in S}
           above == [x \in DOMAIN P |-> on(x)]
<1>1. \A a : Path(P, a) = path[a]
  BY Zenon DEF Path
<1>2. \A x \in DOMAIN P : P[x] \in DOMAIN P
  BY DEF Forest
<1>3. ASSUME NEW x \in DOMAIN P, P[x] = x PROVE on(x) = {x}
  <2>1. Closed({x}) /\ {x} \in SUBSET DOMAIN P
    BY <1>3
  <2>2. x \in on(x)
    OBVIOUS
  <2> QED
    BY <2>1, <2>2
<1>4. ASSUME NEW x \in DOMAIN P PROVE on(x) = {x} \cup on(P[x])
  <2>1. x \in on(x)
    OBVIOUS
  <2>2. ASSUME NEW y \in on(P[x]) PROVE y \in on(x)
    BY <1>2
  <2>3. ASSUME NEW y \in on(x), y # x PROVE y \in on(P[x])
    <3> SUFFICES ASSUME NEW S \in SUBSET DOMAIN P, Closed(S), P[x] \in S PROVE y \in S
      OBVIOUS
    <3>1. Closed(S \cup {x}) /\ x \in S \cup {x} /\ S \cup {x} \in SUBSET DOMAIN P
      OBVIOUS
    <3>2. y \in S \cup {x}
      BY <2>3, <3>1
    <3> QED
      BY <2>3, <3>2
  <2> HIDE DEF on
  <2> QED
    BY <2>1, <2>2, <2>3
<1>5. above = [x \in DOMAIN P |-> IF P[x] = x THEN {x} ELSE {x} \cup above[P[x]]]
  <2> HIDE DEF on
  <2>1. \A x \in DOMAIN P : above[x] = IF P[x] = x THEN {x} ELSE {x} \cup above[P[x]]
    BY <1>2, <1>3, <1>4
  <2>2. above = [x \in DOMAIN P |-> above[x]]
    OBVIOUS
  <2> HIDE DEF above
  <2> QED
    BY <2>1, <2>2, Zenon
<1>6. path = [x \in DOMAIN P |-> IF P[x] = x THEN {x} ELSE {x} \cup path[P[x]]]
  BY <1>5, Zenon
<1> HIDE DEF path, on, above
<1>7. \A x \in DOMAIN P : path[x] = IF P[x] = x THEN {x} ELSE {x} \cup path[P[x]]
  BY <1>6, Zenon
<1> DEFINE bad == {a \in DOMAIN P : ~ \A x \in path[a] : x \in DOMAIN P /\ r[x] = r[a]}
<1>8. bad = {}
  <2> SUFFICES ASSUME bad # {} PROVE FALSE
    OBVIOUS
  <2>1. PICK x \in bad : P[x] # x => P[x] \in DOMAIN P /\ P[x] \notin bad
    BY LowestNode
  <2>2. CASE P[x] = x
    <3>1. path[x] = {x}
      BY <1>7, <2>1, <2>2
    <3> QED
      BY <2>1, <3>1
  <2>3. CASE P[x] # x
    <3>1. path[x] = {x} \cup path[P[x]] /\ r[x] = r[P[x]]
      BY <1>7, <2>1, <2>3 DEF Forest
    <3>2. \A y \in path[P[x]] : y \in DOMAIN P /\ r[y] = r[P[x]]
      BY <2>1, <2>3
    <3> QED
      BY <2>1, <3>1, <3>2
  <2> QED
    BY <2>2, <2>3
<1> QED
  BY <1>1, <1>8

(* find() leaves every root, and each node under its own.                    *)
LEMMA FoundForest ==
  ASSUME NEW P, NEW r, NEW h, Forest(P, r, h), NEW kind, NEW a \in DOMAIN P
  PROVE  LET Q == Found(kind, P, a)
         IN Forest(Q, r, h) /\ DOMAIN Q = DOMAIN P /\ Roots(Q) = Roots(P)
<1> DEFINE Q == Found(kind, P, a)
<1>1. CASE kind # "int"
  BY <1>1 DEF Found
<1>2. CASE kind = "int"
  <2>1. Q = [x \in DOMAIN P |-> IF x \in Path(P, a) THEN r[a] ELSE P[x]]
    BY <1>2, RootIs DEF Found
  <2>2. r[a] \in DOMAIN P /\ P[r[a]] = r[a] /\ r[r[a]] = r[a]
    BY RootFacts DEF Forest, Roots
  <2> HIDE DEF Q
  <2>3. DOMAIN Q = DOMAIN P /\ Q \in [DOMAIN P -> DOMAIN P]
    BY <2>1, <2>2 DEF Forest
  <2>4. ASSUME NEW x \in DOMAIN P
        PROVE  /\ Q[x] = x <=> P[x] = x
               /\ Q[x] # x => r[x] = r[Q[x]] /\ h[Q[x]] < h[x]
    <3>1. CASE x \in Path(P, a)
      <4>1. Q[x] = r[a] /\ r[x] = r[a]
        BY <2>1, <3>1, PathIs
      <4>2. x # r[x] => h[r[x]] < h[x]
        BY RootFacts
      <4>3. P[x] = x => r[x] = x
        BY DEF Forest
      <4> QED
        BY <2>2, <4>1, <4>2, <4>3
    <3>2. CASE x \notin Path(P, a)
      BY <2>1, <3>2 DEF Forest
    <3> QED
      BY <3>1, <3>2
  <2>5. Roots(Q) = Roots(P)
    BY <2>3, <2>4 DEF Roots
  <2>6. Forest(Q, r, h)
    BY <2>3, <2>4 DEF Forest
  <2> QED
    BY <2>3, <2>5, <2>6 DEF Q
<1> QED
  BY <1>1, <1>2

(* Hanging one root under another one makes one tree of two.                 *)
LEMMA HangForest ==
  ASSUME NEW P, NEW r, NEW h, Forest(P, r, h), NEW under \in Roots(P), NEW top \in Roots(P), under # top
  PROVE  LET Q == [P EXCEPT ![under] = top]
             s == [x \in DOMAIN P |-> IF r[x] = under THEN top ELSE r[x]]
             g == [x \in DOMAIN P |-> IF r[x] = under THEN h[x] + h[top] + 1 ELSE h[x]]
         IN Forest(Q, s, g) /\ DOMAIN Q = DOMAIN P /\ Roots(Q) = Roots(P) \ {under}
<1> DEFINE Q == [P EXCEPT ![under] = top]
           s == [x \in DOMAIN P |-> IF r[x] = under THEN top ELSE r[x]]
           g == [x \in DOMAIN P |-> IF r[x] = under THEN h[x] + h[top] + 1 ELSE h[x]]
<1>1. /\ under \in DOMAIN P /\ top \in DOMAIN P /\ P[under] = under /\ P[top] = top
      /\ r[under] = under /\ r[top] = top /\ h[top] \in Nat
  BY DEF Roots, Forest
<1>2. DOMAIN Q = DOMAIN P /\ Q \in [DOMAIN P -> DOMAIN P]
  BY <1>1 DEF Forest
<1>3. s \in [DOMAIN P -> DOMAIN P] /\ g \in [DOMAIN P -> Nat]
  BY <1>1 DEF Forest
<1>4. ASSUME NEW x \in DOMAIN P PROVE Q[x] = IF x = under THEN top ELSE P[x]
  BY DEF Forest
<1>5. ASSUME NEW x \in DOMAIN P
      PROVE  /\ s[x] = IF r[x] = under THEN top ELSE r[x]
             /\ g[x] = IF r[x] = under THEN h[x] + h[top] + 1 ELSE h[x]
             /\ h[x] \in Nat
  BY DEF Forest
<1> HIDE DEF Q, s, g
<1>6. ASSUME NEW x \in DOMAIN P
      PROVE  /\ Q[x] = x => s[x] = x
             /\ Q[x] # x => s[x] = s[Q[x]] /\ g[Q[x]] < g[x]
             /\ Q[x] = x <=> P[x] = x /\ x # under
  <2>1. CASE x = under
    <3>1. Q[x] = top /\ s[x] = top /\ s[top] = top /\ g[top] = h[top] /\ g[x] = h[x] + h[top] + 1 /\ h[x] \in Nat
      BY <1>1, <1>4, <1>5, <2>1
    <3> QED
      BY <1>1, <2>1, <3>1
  <2>2. CASE x # under /\ P[x] = x
    <3>1. r[x] = x /\ Q[x] = x /\ s[x] = x
      BY <1>4, <1>5, <2>2 DEF Forest
    <3> QED
      BY <2>2, <3>1
  <2>3. CASE x # under /\ P[x] # x
    <3>1. Q[x] = P[x] /\ P[x] \in DOMAIN P /\ r[x] = r[P[x]] /\ h[P[x]] < h[x]
      BY <1>4, <2>3 DEF Forest
    <3>2. s[x] = s[P[x]]
      BY <1>5, <3>1
    <3>3. h[x] \in Nat /\ h[P[x]] \in Nat
      BY <1>5, <3>1
    <3>4. g[P[x]] < g[x]
      BY <1>1, <1>5, <3>1, <3>3
    <3> QED
      BY <2>3, <3>1, <3>2, <3>4
  <2> QED
    BY <2>1, <2>2, <2>3
<1>7. Roots(Q) = Roots(P) \ {under}
  BY <1>2, <1>6 DEF Roots
<1>8. Forest(Q, s, g)
  BY <1>2, <1>3, <1>6 DEF Forest
<1> QED
  BY <1>2, <1>7, <1>8 DEF Q, s, g

(* connect() makes one tree of two, and the set loses a root if they differ. *)
Together(r, a, b, x, y) == \/ r[x] = r[y]
                           \/ r[x] \in {r[a], r[b]} /\ r[y] \in {r[a], r[b]}

\* Q is a forest of the same nodes, with the trees of a and b in one.
OneTree(Q, P, r, a, b) ==
  \E s, g : Forest(Q, s, g) /\ \A x, y \in DOMAIN P : s[x] = s[y] <=> Together(r, a, b, x, y)

(* Two trees become one, unless they were one before.                        *)
OneRootLess(Q, P, r, a, b) ==
  /\ DOMAIN Q = DOMAIN P /\ OneTree(Q, P, r, a, b)
  /\ r[a] = r[b] => Roots(Q) = Roots(P)
  /\ r[a] # r[b] => \E under \in Roots(P) : Roots(Q) = Roots(P) \ {under}

(* connect() does that.                                                      *)
LEMMA ConnectedForest ==
  ASSUME NEW P, NEW r, NEW h, Forest(P, r, h), NEW kind, NEW a \in DOMAIN P, NEW b \in DOMAIN P
  PROVE  OneRootLess(Connected(kind, P, a, b), P, r, a, b)
<1> DEFINE m == Found(kind, P, a)
           o == Found(kind, m, b)
           Q == Connected(kind, P, a, b)
<1>1. Forest(m, r, h) /\ DOMAIN m = DOMAIN P /\ Roots(m) = Roots(P)
  BY FoundForest
<1>2. Forest(o, r, h) /\ DOMAIN o = DOMAIN P /\ Roots(o) = Roots(P)
  <2> HIDE DEF m
  <2> QED
    BY <1>1, FoundForest
<1>3. Q = IF Root(o, a) = Root(o, b) THEN o ELSE Joined(kind, o, a, b)
  BY DEF Connected
<1> HIDE DEF m, o, Q
<1>4. Root(o, a) = r[a] /\ Root(o, b) = r[b]
  BY <1>2, RootIs
<1>5. r[a] \in Roots(o) /\ r[b] \in Roots(o)
  BY <1>2, RootFacts
<1>6. CASE r[a] = r[b]
  <2>1. Q = o
    BY <1>3, <1>4, <1>6
  <2>2. \A x, y \in DOMAIN P : r[x] = r[y] <=> Together(r, a, b, x, y)
    BY <1>6 DEF Together
  <2> QED
    BY <1>2, <1>6, <2>1, <2>2 DEF Q, OneTree, OneRootLess
<1>7. ASSUME NEW under \in {r[a], r[b]}, NEW top \in {r[a], r[b]}, under # top,
             Q = [o EXCEPT ![under] = top]
      PROVE  /\ DOMAIN Q = DOMAIN P
             /\ OneTree(Q, P, r, a, b)
             /\ Roots(Q) = Roots(P) \ {under} /\ under \in Roots(P)
  <2> DEFINE s == [x \in DOMAIN o |-> IF r[x] = under THEN top ELSE r[x]]
             g == [x \in DOMAIN o |-> IF r[x] = under THEN h[x] + h[top] + 1 ELSE h[x]]
  <2>1. under \in Roots(o) /\ top \in Roots(o)
    BY <1>5
  <2>2. Forest(Q, s, g) /\ DOMAIN Q = DOMAIN o /\ Roots(Q) = Roots(o) \ {under}
    <3>1. /\ Forest([o EXCEPT ![under] = top], s, g) /\ DOMAIN [o EXCEPT ![under] = top] = DOMAIN o
          /\ Roots([o EXCEPT ![under] = top]) = Roots(o) \ {under}
      BY <1>2, <1>7, <2>1, HangForest
    <3> HIDE DEF s, g
    <3> QED
      BY <1>7, <3>1
  <2>3. ASSUME NEW x \in DOMAIN P, NEW y \in DOMAIN P
        PROVE  s[x] = s[y] <=> Together(r, a, b, x, y)
    <3>1. s[x] = (IF r[x] = under THEN top ELSE r[x]) /\ s[y] = (IF r[y] = under THEN top ELSE r[y])
      BY <1>2
    <3>2. {r[a], r[b]} = {under, top}
      BY <1>7
    <3> HIDE DEF s
    <3> QED
      BY <1>7, <3>1, <3>2 DEF Together
  <2> HIDE DEF s, g
  <2> QED
    BY <1>2, <2>1, <2>2, <2>3 DEF OneTree
<1>8. CASE r[a] # r[b]
  <2>1. Q = Joined(kind, o, a, b)
    BY <1>3, <1>4, <1>8
  <2>2. \/ Q = [o EXCEPT ![r[b]] = r[a]]
        \/ Q = [o EXCEPT ![r[a]] = r[b]]
    BY <1>4, <2>1 DEF Joined
  <2> DEFINE Good(under) == /\ DOMAIN Q = DOMAIN P
             /\ OneTree(Q, P, r, a, b)
             /\ Roots(Q) = Roots(P) \ {under} /\ under \in Roots(P)
  <2>3. Good(r[a]) \/ Good(r[b])
    <3>1. r[a] \in {r[a], r[b]} /\ r[b] \in {r[a], r[b]}
      OBVIOUS
    <3> HIDE DEF Good
    <3>2. ASSUME NEW under \in {r[a], r[b]}, NEW top \in {r[a], r[b]}, under # top,
             Q = [o EXCEPT ![under] = top]
          PROVE  Good(under)
      BY <1>7, <3>2 DEF Good
    <3> QED
      BY <1>8, <2>2, <3>1, <3>2
  <2> QED
    BY <1>8, <2>3 DEF Q, OneRootLess
<1> QED
  BY <1>6, <1>8

(* The blocks of what connect() leaves.                                      *)
LEMMA FusedClasses ==
  ASSUME NEW r, NEW a \in DOMAIN r, NEW b \in DOMAIN r, NEW s, DOMAIN s = DOMAIN r,
         \A x, y \in DOMAIN r : s[x] = s[y] <=> Together(r, a, b, x, y)
  PROVE  Fused(Classes(r), a, b) = Classes(s)
<1> DEFINE touched == {S \in Classes(r) : a \in S \/ b \in S}
<1>1. touched = {Class(r, a), Class(r, b)}
  <2>1. ASSUME NEW x \in DOMAIN r, a \in Class(r, x) PROVE Class(r, x) = Class(r, a)
    BY <2>1 DEF Class
  <2>2. ASSUME NEW x \in DOMAIN r, b \in Class(r, x) PROVE Class(r, x) = Class(r, b)
    BY <2>2 DEF Class
  <2>3. a \in Class(r, a) /\ b \in Class(r, b) /\ Class(r, a) \in Classes(r) /\ Class(r, b) \in Classes(r)
    BY DEF Class, Classes
  <2>4. \A S \in Classes(r) : \E x \in DOMAIN r : S = Class(r, x)
    BY DEF Classes
  <2> HIDE DEF touched
  <2>5. \A S \in touched : S \in Classes(r) /\ (a \in S \/ b \in S)
    BY DEF touched
  <2>6. \A S \in Classes(r) : (a \in S \/ b \in S) => S \in touched
    BY DEF touched
  <2> QED
    BY <2>1, <2>2, <2>3, <2>4, <2>5, <2>6
<1>2. UNION touched = Class(s, a)
  <2>1. UNION touched = Class(r, a) \cup Class(r, b)
    BY <1>1
  <2>2. ASSUME NEW y \in DOMAIN r PROVE s[y] = s[a] <=> r[y] = r[a] \/ r[y] = r[b]
    BY DEF Together
  <2> QED
    BY <2>1, <2>2 DEF Class
<1>3. Class(s, a) = Class(s, b) /\ Class(s, a) \in Classes(s)
  <2>1. s[a] = s[b]
    BY DEF Together
  <2> QED
    BY <2>1 DEF Class, Classes
<1>4. ASSUME NEW x \in DOMAIN r, a \notin Class(r, x), b \notin Class(r, x)
      PROVE  Class(r, x) = Class(s, x)
  <2>1. r[x] # r[a] /\ r[x] # r[b]
    BY <1>4 DEF Class
  <2>2. \A y \in DOMAIN r : s[y] = s[x] <=> r[y] = r[x]
    BY <2>1 DEF Together
  <2> QED
    BY <2>2 DEF Class
<1>5. ASSUME NEW x \in DOMAIN r, a \in Class(r, x) \/ b \in Class(r, x)
      PROVE  Class(s, x) = Class(s, a)
  <2>1. r[x] \in {r[a], r[b]}
    BY <1>5 DEF Class
  <2>2. s[x] = s[a]
    BY <2>1 DEF Together
  <2> QED
    BY <2>2 DEF Class
<1>6. ASSUME NEW S \in Classes(r) \ touched PROVE S \in Classes(s)
  BY <1>4 DEF Classes
<1>7. ASSUME NEW S \in Classes(s) PROVE S \in (Classes(r) \ touched) \cup {Class(s, a)}
  <2>1. PICK x \in DOMAIN r : S = Class(s, x)
    BY DEF Classes
  <2>2. Class(r, x) \in Classes(r)
    BY DEF Classes
  <2>3. CASE a \in Class(r, x) \/ b \in Class(r, x)
    BY <1>5, <2>1, <2>3
  <2>4. CASE ~(a \in Class(r, x) \/ b \in Class(r, x))
    BY <1>4, <2>1, <2>2, <2>4
  <2> QED
    BY <2>3, <2>4
<1>8. Fused(Classes(r), a, b) = (Classes(r) \ touched) \cup {UNION touched}
  BY DEF Fused
<1> HIDE DEF touched
<1> QED
  BY <1>2, <1>3, <1>6, <1>7, <1>8

(* A node that is added is a tree of its own.                                *)
LEMMA AddedForest ==
  ASSUME NEW P, NEW r, NEW h, Forest(P, r, h), NEW a, a \notin DOMAIN P
  PROVE  \E s, g : /\ Forest(Added(P, a), s, g)
                   /\ Classes(s) = Classes(r) \cup {{a}}
                   /\ Roots(Added(P, a)) = Roots(P) \cup {a}
                   /\ DOMAIN Added(P, a) = DOMAIN P \cup {a}
<1> DEFINE Q == Added(P, a)
           s == [x \in DOMAIN P \cup {a} |-> IF x = a THEN a ELSE r[x]]
           g == [x \in DOMAIN P \cup {a} |-> IF x = a THEN 0 ELSE h[x]]
<1>1. DOMAIN Q = DOMAIN P \cup {a} /\ \A x \in DOMAIN Q : Q[x] = IF x = a THEN a ELSE P[x]
  BY DEF Added
<1>2. Q \in [DOMAIN Q -> DOMAIN Q]
  <2>1. Q = [x \in DOMAIN Q |-> Q[x]]
    BY DEF Added
  <2>2. \A x \in DOMAIN Q : Q[x] \in DOMAIN Q
    BY <1>1 DEF Forest
  <2> HIDE DEF Q
  <2> QED
    BY <2>1, <2>2
<1>3. s \in [DOMAIN Q -> DOMAIN Q] /\ g \in [DOMAIN Q -> Nat]
  BY <1>1 DEF Forest
<1>4. \A x \in DOMAIN Q : s[x] = (IF x = a THEN a ELSE r[x]) /\ g[x] = (IF x = a THEN 0 ELSE h[x])
  BY <1>1
<1>5. \A x \in DOMAIN P : x # a /\ P[x] # a /\ r[x] # a /\ P[x] \in DOMAIN P /\ r[x] \in DOMAIN P
  BY DEF Forest
<1> HIDE DEF Q, s, g
<1>6. Forest(Q, s, g)
  <2>1. \A x \in DOMAIN Q : Q[x] = x => s[x] = x
    BY <1>1, <1>4, <1>5 DEF Forest
  <2>2. \A x \in DOMAIN Q : Q[x] # x => s[x] = s[Q[x]] /\ g[Q[x]] < g[x]
    BY <1>1, <1>4, <1>5 DEF Forest
  <2> QED
    BY <1>2, <1>3, <2>1, <2>2 DEF Forest
<1>7. Roots(Q) = Roots(P) \cup {a}
  BY <1>1, <1>5 DEF Roots
<1>8. Classes(s) = Classes(r) \cup {{a}}
  <2>1. DOMAIN s = DOMAIN P \cup {a} /\ DOMAIN r = DOMAIN P
    BY <1>1, <1>3 DEF Forest
  <2>2. Class(s, a) = {a}
    BY <1>1, <1>4, <1>5, <2>1 DEF Class
  <2>3. \A x \in DOMAIN P : Class(s, x) = Class(r, x)
    BY <1>1, <1>4, <1>5, <2>1 DEF Class
  <2>4. Classes(s) = {Class(s, x) : x \in DOMAIN P} \cup {Class(s, a)}
    BY <2>1 DEF Classes
  <2> QED
    BY <2>1, <2>2, <2>3, <2>4 DEF Classes
<1> QED
  BY <1>1, <1>6, <1>7, <1>8 DEF Q

(* There is one class for each root.                                         *)
LEMMA ClassesAreRoots ==
  ASSUME NEW P, NEW r, NEW h, Forest(P, r, h), IsFiniteSet(Roots(P))
  PROVE  Cardinality(Classes(r)) = Cardinality(Roots(P))
<1> DEFINE f == [x \in Roots(P) |-> Class(r, x)]
<1>1. \A x \in Roots(P) : x \in DOMAIN P /\ r[x] = x
  BY DEF Roots, Forest
<1>2. DOMAIN r = DOMAIN P
  BY DEF Forest
<1>3. f \in [Roots(P) -> Classes(r)]
  BY <1>1, <1>2 DEF Classes
<1>4. \A x, y \in Roots(P) : f[x] = f[y] => x = y
  <2> SUFFICES ASSUME NEW x \in Roots(P), NEW y \in Roots(P), Class(r, x) = Class(r, y) PROVE x = y
    OBVIOUS
  <2>1. x \in Class(r, x)
    BY <1>1, <1>2 DEF Class
  <2>2. r[x] = r[y]
    BY <2>1 DEF Class
  <2> QED
    BY <1>1, <2>2
<1>5. \A S \in Classes(r) : \E x \in Roots(P) : f[x] = S
  <2> SUFFICES ASSUME NEW S \in Classes(r) PROVE \E x \in Roots(P) : f[x] = S
    OBVIOUS
  <2>1. PICK z \in DOMAIN P : S = Class(r, z)
    BY <1>2 DEF Classes
  <2>2. r[z] \in Roots(P) /\ r[r[z]] = r[z]
    BY RootFacts
  <2>3. Class(r, r[z]) = Class(r, z)
    BY <2>2 DEF Class
  <2> QED
    BY <2>1, <2>2, <2>3
<1> HIDE DEF f
<1>6. f \in Bijection(Roots(P), Classes(r))
  BY <1>3, <1>4, <1>5 DEF Bijection, Injection, Surjection, IsInjective
<1> QED
  BY <1>6, FS_Bijection DEF ExistsBijection

(* The places of a matrix, in the order of its two loops.                    *)
LEMMA MatrixPlaces ==
  ASSUME NEW n \in Nat \ {0}, NEW k \in Nat
  PROVE  /\ k \div n \in Nat /\ k % n \in 0 .. n - 1 /\ k = n * (k \div n) + (k % n)
         /\ k < n * n => k \div n \in 0 .. n - 1
         /\ \A i, j \in 0 .. n - 1 : n * i + j < n * n
         /\ \A i, j \in 0 .. n - 1 : n * i + j = k => i = k \div n /\ j = k % n
<1>1. k \div n \in Nat /\ k % n \in 0 .. n - 1 /\ k = n * (k \div n) + (k % n)
  OBVIOUS
<1>2. \A i \in Nat, j \in 0 .. n - 1 : n * i + j < n * n <=> i < n
  OBVIOUS
<1>3. \A i, u \in Nat, j, v \in 0 .. n - 1 : n * i + j = n * u + v => i = u /\ j = v
  OBVIOUS
<1> DEFINE d == k \div n
           m == k % n
<1> HIDE DEF d, m
<1>4. d \in Nat /\ m \in 0 .. n - 1 /\ k = n * d + m
  BY <1>1 DEF d, m
<1>5. k < n * n => d \in 0 .. n - 1
  BY <1>2, <1>4
<1>6. \A i, j \in 0 .. n - 1 : i \in Nat /\ (n * i + j = k => i = d /\ j = m)
  BY <1>3, <1>4
<1>7. \A i, j \in 0 .. n - 1 : n * i + j < n * n
  BY <1>2
<1> QED
  BY <1>1, <1>5, <1>6, <1>7 DEF d, m

(* What holds of the set and of the graph it is being built from.            *)
Leaves(S, adj) == \A e \in adj : e[1] \in S <=> e[2] \in S

Linking(P, r, g, bs) ==
  /\ g.n \in Nat \ {0} /\ DOMAIN P = 0 .. g.n - 1 /\ g.place < g.n * g.n
  /\ g.directed \/ \A e \in g.edges : <<e[2], e[1]>> \in g.edges
  /\ bs = {Component(DOMAIN P, g.edges, x) : x \in DOMAIN P}
  /\ \A e \in g.edges : Visited(g.directed, e[1], e[2]) /\ g.n * e[1] + e[2] < g.place => r[e[1]] = r[e[2]]
  /\ \A x, y \in DOMAIN P : r[x] = r[y] =>
        \A S \in SUBSET DOMAIN P : Leaves(S, g.edges) => (x \in S <=> y \in S)

Joins(P, c, g, bs) ==
  \E r, h : /\ Forest(P, r, h)
            /\ c = Cardinality(Roots(P))
            /\ g = NoGraph => bs = Classes(r)
            /\ g # NoGraph => Linking(P, r, g, bs)

GraphToRead(D) == [n : 0 .. GraphSize, directed : BOOLEAN, edges : SUBSET (D \X D), place : Nat]

UnionInv ==
  /\ unionKind \in {"none", "int", "map"}
  /\ unionKind = "none" => graph = NoGraph
  /\ Nodes \in SUBSET AllNodes
  /\ graph \in GraphToRead(Nodes)
  /\ Joins(parent, cnt, graph, blocks)

(* What is left of a graph while its edges are read.                         *)
LEMMA ReadGraph ==
  ASSUME NEW D, NEW g \in GraphToRead(D)
  PROVE  /\ g.n \in 0 .. GraphSize /\ g.directed \in BOOLEAN /\ g.place \in Nat
         /\ \A e \in g.edges : e[1] \in D /\ e[2] \in D /\ e = <<e[1], e[2]>>
         /\ LET onward == [g EXCEPT !.place = @ + 1]
            IN /\ onward \in GraphToRead(D) /\ onward.place = g.place + 1
               /\ onward.n = g.n /\ onward.directed = g.directed /\ onward.edges = g.edges
<1>1. g.edges \in SUBSET (D \X D)
  BY DEF GraphToRead
<1>2. \A e \in D \X D : e[1] \in D /\ e[2] \in D /\ e = <<e[1], e[2]>>
  OBVIOUS
<1> QED
  BY <1>1, <1>2 DEF GraphToRead

(* Sets of nodes are finite.                                                 *)
LEMMA NodesFinite == ASSUME NEW S \in SUBSET AllNodes PROVE IsFiniteSet(S)
<1>1. IsFiniteSet(AllNodes)
  BY UnionAssumption, FS_Interval DEF AllNodes
<1> QED
  BY <1>1, FS_Subset

(* What connect() does to the classes.                                       *)
Fuses(Q, P, r, a, b) ==
  \E s, g : /\ Forest(Q, s, g) /\ Fused(Classes(r), a, b) = Classes(s)
            /\ \A x, y \in DOMAIN P : s[x] = s[y] <=> Together(r, a, b, x, y)

(* connect() joins two blocks, and counts the components that are left.      *)
LEMMA ConnectedJoins ==
  ASSUME NEW P, NEW r, NEW h, Forest(P, r, h), DOMAIN P \in SUBSET AllNodes,
         NEW kind, NEW a \in DOMAIN P, NEW b \in DOMAIN P
  PROVE  LET Q == Connected(kind, P, a, b)
         IN /\ DOMAIN Q = DOMAIN P
            /\ Merged(P, Cardinality(Roots(P)), a, b) = Cardinality(Roots(Q))
            /\ Fuses(Q, P, r, a, b)
<1> DEFINE Q == Connected(kind, P, a, b)
<1>0. OneRootLess(Q, P, r, a, b)
  BY ConnectedForest
<1> HIDE DEF Q
<1>1. /\ DOMAIN Q = DOMAIN P /\ OneTree(Q, P, r, a, b)
      /\ r[a] = r[b] => Roots(Q) = Roots(P)
      /\ r[a] # r[b] => \E under \in Roots(P) : Roots(Q) = Roots(P) \ {under}
  BY <1>0 DEF OneRootLess
<1>2. PICK s, g : /\ Forest(Q, s, g)
                  /\ \A x, y \in DOMAIN P : s[x] = s[y] <=> Together(r, a, b, x, y)
  BY <1>1 DEF OneTree
<1>3. DOMAIN s = DOMAIN r
  BY <1>1, <1>2 DEF Forest
<1>4. Fused(Classes(r), a, b) = Classes(s)
  <2>1. DOMAIN r = DOMAIN P
    BY DEF Forest
  <2> QED
    BY <1>2, <1>3, <2>1, FusedClasses
<1>5. IsFiniteSet(Roots(P))
  <2>1. Roots(P) \in SUBSET AllNodes
    BY DEF Roots
  <2> QED
    BY <2>1, NodesFinite
<1>6. Merged(P, Cardinality(Roots(P)), a, b) = Cardinality(Roots(Q))
  <2>1. Root(P, a) = r[a] /\ Root(P, b) = r[b]
    BY RootIs
  <2>2. CASE r[a] = r[b]
    BY <1>1, <2>1, <2>2 DEF Merged
  <2>3. CASE r[a] # r[b]
    <3>1. PICK under \in Roots(P) : Roots(Q) = Roots(P) \ {under}
      BY <1>1, <2>3
    <3>2. Cardinality(Roots(P) \ {under}) = Cardinality(Roots(P)) - 1
      BY <1>5, FS_RemoveElement
    <3> QED
      BY <2>1, <2>3, <3>1, <3>2 DEF Merged
  <2> QED
    BY <2>2, <2>3
<1> QED
  <2>1. Fuses(Q, P, r, a, b)
    BY <1>2, <1>4 DEF Fuses
  <2> QED
    BY <1>1, <1>6, <2>1 DEF Q

\* A block for each of them.
Singles(S) == {{x} : x \in S}

\* Q is a forest with the blocks of r and those of more.
Enlarged(Q, r, more) == \E s, g : Forest(Q, s, g) /\ Classes(s) = Classes(r) \cup more

(* add() of one that is not there.                                           *)
LEMMA AddedJoins ==
  ASSUME NEW P, NEW r, NEW h, Forest(P, r, h), DOMAIN P \in SUBSET AllNodes,
         NEW a \in AllNodes, a \notin DOMAIN P
  PROVE  /\ DOMAIN Added(P, a) = DOMAIN P \cup {a}
         /\ Cardinality(Roots(Added(P, a))) = Cardinality(Roots(P)) + 1
         /\ Enlarged(Added(P, a), r, {{a}})
<1>1. /\ Roots(Added(P, a)) = Roots(P) \cup {a} /\ DOMAIN Added(P, a) = DOMAIN P \cup {a}
      /\ Enlarged(Added(P, a), r, {{a}})
  BY AddedForest DEF Enlarged
<1>2. Roots(P) \in SUBSET AllNodes /\ a \notin Roots(P)
  BY DEF Roots
<1>3. Cardinality(Roots(P) \cup {a}) = Cardinality(Roots(P)) + 1
  BY <1>2, NodesFinite, FS_AddElement
<1> QED
  BY <1>1, <1>3

(* A node that is there is not added again.                                  *)
LEMMA AddedSame ==
  ASSUME NEW P, NEW r, NEW h, Forest(P, r, h), NEW a \in DOMAIN P
  PROVE  Added(P, a) = P
<1>1. P = [x \in DOMAIN P |-> P[x]] /\ DOMAIN P \cup {a} = DOMAIN P
  BY DEF Forest
<1>2. Added(P, a) = [x \in DOMAIN P |-> P[x]]
  BY <1>1 DEF Added
<1> QED
  BY <1>1, <1>2

(* add() of one that may be there.                                           *)
LEMMA AddedMaybe ==
  ASSUME NEW P, NEW r, NEW h, Forest(P, r, h), DOMAIN P \in SUBSET AllNodes, NEW a \in AllNodes
  PROVE  /\ DOMAIN Added(P, a) = DOMAIN P \cup {a}
         /\ Cardinality(Roots(Added(P, a))) = Cardinality(Roots(P)) + Cardinality({a} \ DOMAIN P)
         /\ Enlarged(Added(P, a), r, Singles({a} \ DOMAIN P))
<1>1. Cardinality(Roots(P)) \in Nat
  <2>1. Roots(P) \in SUBSET AllNodes
    BY DEF Roots
  <2> QED
    BY <2>1, NodesFinite, FS_CardinalityType
<1>2. CASE a \in DOMAIN P
  <2>1. {a} \ DOMAIN P = {} /\ DOMAIN P \cup {a} = DOMAIN P
    BY <1>2
  <2>2. Added(P, a) = P
    BY <1>2, AddedSame
  <2>3. Enlarged(P, r, Singles({a} \ DOMAIN P))
    BY <2>1 DEF Enlarged, Singles
  <2>4. Cardinality({a} \ DOMAIN P) = 0
    BY <2>1, FS_EmptySet
  <2> QED
    BY <1>1, <2>1, <2>2, <2>3, <2>4
<1>3. CASE a \notin DOMAIN P
  <2>1. {a} \ DOMAIN P = {a} /\ Cardinality({a}) = 1
    BY <1>3, FS_Singleton
  <2>2. Singles({a}) = {{a}}
    BY DEF Singles
  <2>3. /\ DOMAIN Added(P, a) = DOMAIN P \cup {a}
        /\ Cardinality(Roots(Added(P, a))) = Cardinality(Roots(P)) + 1
        /\ Enlarged(Added(P, a), r, {{a}})
    BY <1>3, AddedJoins
  <2>4. Enlarged(Added(P, a), r, Singles({a} \ DOMAIN P))
    BY <2>1, <2>2, <2>3
  <2>5. Cardinality(Roots(Added(P, a))) = Cardinality(Roots(P)) + Cardinality({a} \ DOMAIN P)
    BY <2>1, <2>3
  <2> QED
    BY <2>3, <2>4, <2>5
<1> QED
  BY <1>2, <1>3

(* A new set: each node alone.                                               *)
LEMMA AloneForest ==
  ASSUME NEW D
  PROVE  LET P == [x \in D |-> x]
         IN /\ Forest(P, P, [x \in D |-> 0]) /\ Roots(P) = D
            /\ Classes(P) = {{x} : x \in D}
<1> DEFINE P == [x \in D |-> x]
           h == [x \in D |-> 0]
<1>1. DOMAIN P = D /\ P \in [D -> D] /\ h \in [D -> Nat] /\ \A x \in D : P[x] = x
  OBVIOUS
<1> HIDE DEF P, h
<1>2. Forest(P, P, h)
  BY <1>1 DEF Forest
<1>3. Roots(P) = D
  BY <1>1 DEF Roots
<1>4. Classes(P) = {{x} : x \in D}
  <2>1. \A x \in D : Class(P, x) = {x}
    BY <1>1 DEF Class
  <2> QED
    BY <1>1, <2>1 DEF Classes
<1> QED
  BY <1>2, <1>3, <1>4 DEF P, h

(* Nothing is built yet.                                                     *)
LEMMA UnionStarts == ASSUME UnionInit PROVE UnionInv
<1> USE DEF UnionInit
<1>1. parent \in [{} -> {}] /\ DOMAIN parent = {}
  OBVIOUS
<1> DEFINE e == [x \in {} |-> x]
<1>2. parent = e
  BY <1>1
<1>3. Forest(e, e, [x \in {} |-> 0]) /\ Roots(e) = {} /\ Classes(e) = {{x} : x \in {}}
  BY AloneForest
<1>4. cnt = Cardinality(Roots(parent)) /\ graph = NoGraph /\ blocks = Classes(e)
  BY <1>2, <1>3, FS_EmptySet
<1>5. Joins(parent, cnt, graph, blocks)
  <2> HIDE DEF e
  <2> QED
    BY <1>2, <1>3, <1>4 DEF Joins
<1>6. graph \in GraphToRead(Nodes)
  BY UnionAssumption DEF GraphToRead, NoGraph
<1> QED
  BY <1>1, <1>5, <1>6 DEF UnionInv, Nodes

(* A new set has every node by itself.                                       *)
LEMMA UnionNewKeeps ==
  ASSUME UnionInv, NEW n \in 0 .. UnionSize, UnionNew(n)
  PROVE  UnionInv'
<1> DEFINE e == [x \in 0 .. n - 1 |-> x]
           z == [x \in 0 .. n - 1 |-> 0]
<1>1. /\ Forest(e, e, z) /\ Roots(e) = 0 .. n - 1 /\ Classes(e) = {{x} : x \in 0 .. n - 1}
  BY AloneForest
<1>2. /\ parent' = e /\ cnt' = n /\ blocks' = Classes(e) /\ DOMAIN e = 0 .. n - 1
      /\ unionKind' = "int" /\ graph' = NoGraph
  BY <1>1 DEF UnionNew, UnionInv
<1> HIDE DEF e, z
<1>3. n = Cardinality(0 .. n - 1)
  BY FS_Interval, UnionAssumption
<1>4. 0 .. n - 1 \in SUBSET AllNodes
  BY UnionAssumption DEF AllNodes
<1>5. Joins(parent', cnt', graph', blocks')
  BY <1>1, <1>2, <1>3 DEF Joins
<1>6. graph' \in GraphToRead(Nodes')
  BY <1>2, UnionAssumption DEF GraphToRead, NoGraph
<1> QED
  BY <1>2, <1>4, <1>5, <1>6 DEF UnionInv, Nodes

(* So has one that is to be built from a graph, whose edges no set leaves    *)
(* yet.                                                                      *)
LEMMA UnionNewGraphKeeps ==
  ASSUME UnionInv, NEW kind \in {"int", "map"}, NEW n \in 0 .. GraphSize, NEW directed \in BOOLEAN,
         NEW adj \in SUBSET ((0 .. n - 1) \X (0 .. n - 1)), UnionNewGraph(kind, n, directed, adj)
  PROVE  UnionInv'
<1> DEFINE D == 0 .. n - 1
           e == [x \in D |-> x]
           z == [x \in D |-> 0]
           both == GraphEdges(directed, adj)
<1>1. /\ Forest(e, e, z) /\ Roots(e) = D /\ Classes(e) = {{x} : x \in D}
  BY AloneForest
<1>2. /\ parent' = e /\ cnt' = n /\ DOMAIN e = D /\ blocks' = {Component(D, both, x) : x \in D}
      /\ unionKind' = kind
      /\ graph' = IF n = 0 THEN NoGraph
                  ELSE [n |-> n, directed |-> directed, edges |-> both, place |-> 0]
  BY DEF UnionNewGraph
<1>3. both \in SUBSET (D \X D) /\ (directed \/ \A d \in both : <<d[2], d[1]>> \in both)
  <2>1. \A d \in adj : d = <<d[1], d[2]>> /\ d[1] \in D /\ d[2] \in D
    OBVIOUS
  <2>2. \A i, j \in D : i > j => j < i /\ ~(i = j)
    BY UnionAssumption
  <2>3. ASSUME NEW d \in both PROVE d \in D \X D
    <3>1. \/ d \in adj
          \/ \E c \in adj : d = <<c[2], c[1]>>
      BY DEF GraphEdges
    <3> QED
      BY <2>1, <3>1
  <2>4. ASSUME ~directed, NEW d \in both PROVE <<d[2], d[1]>> \in both
    <3>1. CASE d \in adj /\ d[1] >= d[2]
      <4>1. CASE d[1] = d[2]
        BY <2>1, <2>4, <3>1, <4>1
      <4>2. CASE d[1] > d[2]
        BY <2>4, <3>1, <4>2 DEF GraphEdges
      <4> QED
        BY <2>1, <3>1, <4>1, <4>2, UnionAssumption
    <3>2. CASE \E c \in adj : c[1] > c[2] /\ d = <<c[2], c[1]>>
      <4>1. PICK c \in adj : c[1] > c[2] /\ d = <<c[2], c[1]>>
        BY <3>2
      <4>2. <<d[2], d[1]>> = c /\ c[1] >= c[2]
        BY <2>1, <4>1, UnionAssumption
      <4>3. c \in both
        BY <4>2 DEF GraphEdges
      <4> QED
        BY <4>2, <4>3
    <3> QED
      BY <2>4, <3>1, <3>2 DEF GraphEdges
  <2> HIDE DEF both
  <2> QED
    BY <2>3, <2>4
<1>4. n = Cardinality(D) /\ D \in SUBSET AllNodes
  BY FS_Interval, UnionAssumption DEF AllNodes
<1>5. CASE n = 0
  <2>1. D = {}
    BY <1>5
  <2>2. graph' = NoGraph /\ blocks' = Classes(e)
    BY <1>1, <1>2, <1>5, <2>1
  <2> HIDE DEF e, z, D
  <2>3. Joins(parent', cnt', graph', blocks')
    BY <1>1, <1>2, <1>4, <2>2 DEF Joins
  <2>4. graph' \in GraphToRead(Nodes')
    BY <2>2, UnionAssumption DEF GraphToRead, NoGraph
  <2> QED
    BY <1>2, <1>4, <2>2, <2>3, <2>4 DEF UnionInv, Nodes
<1>6. CASE n # 0
  <2> DEFINE g == [n |-> n, directed |-> directed, edges |-> both, place |-> 0]
  <2>1. n \in Nat \ {0} /\ 0 < n * n
    BY <1>6, UnionAssumption
  <2>2. graph' = g
    BY <1>2, <1>6
  <2>3. g.n = n /\ g.directed = directed /\ g.edges = both /\ g.place = 0 /\ g # NoGraph
    BY <1>6 DEF NoGraph
  <2>4. g \in GraphToRead(Nodes')
    <3>1. Nodes' = D
      BY <1>2 DEF Nodes
    <3> HIDE DEF both, e, D
    <3> QED
      BY <1>3, <3>1 DEF GraphToRead
  <2>5. \A x \in D : e[x] = x
    OBVIOUS
  <2>6. ASSUME NEW d \in both PROVE ~(n * d[1] + d[2] < 0)
    <3>1. d[1] \in D /\ d[2] \in D
      BY <1>3
    <3>2. d[1] \in Nat /\ d[2] \in Nat
      BY <3>1
    <3>3. n * d[1] \in Nat
      BY <2>1, <3>2
    <3> QED
      BY <3>2, <3>3
  <2> HIDE DEF g, both
  <2>7. Linking(parent', e, graph', blocks')
    <3>1. /\ graph'.n \in Nat \ {0} /\ DOMAIN (parent') = 0 .. graph'.n - 1
          /\ graph'.place < graph'.n * graph'.n
          /\ graph'.directed \/ \A d \in graph'.edges : <<d[2], d[1]>> \in graph'.edges
          /\ blocks' = {Component(DOMAIN (parent'), graph'.edges, x) : x \in DOMAIN (parent')}
      BY <1>2, <1>3, <2>1, <2>2, <2>3
    <3>2. \A d \in graph'.edges :
             Visited(graph'.directed, d[1], d[2]) /\ graph'.n * d[1] + d[2] < graph'.place => e[d[1]] = e[d[2]]
      BY <2>2, <2>3, <2>6
    <3>3. \A x, y \in DOMAIN (parent') : e[x] = e[y] => x = y
      BY <1>2, <2>5
    <3> QED
      BY <3>1, <3>2, <3>3 DEF Linking
  <2> HIDE DEF e, z, D
  <2>8. Joins(parent', cnt', graph', blocks')
    BY <1>1, <1>2, <1>4, <2>2, <2>3, <2>7 DEF Joins
  <2> QED
    BY <1>2, <1>4, <2>2, <2>4, <2>8 DEF UnionInv, Nodes
<1> QED
  BY <1>5, <1>6

(* When the matrix has been read, the trees are its components.              *)
LEMMA LinkedRead ==
  ASSUME NEW P, NEW r, NEW h, NEW g, NEW bs, Forest(P, r, h), Linking(P, r, g, bs), g \in GraphToRead(DOMAIN P),
         g.place + 1 = g.n * g.n,
         \A e \in g.edges : Visited(g.directed, e[1], e[2]) /\ g.n * e[1] + e[2] < g.place + 1 => r[e[1]] = r[e[2]]
  PROVE  bs = Classes(r)
<1>1. DOMAIN r = DOMAIN P /\ DOMAIN P = 0 .. g.n - 1 /\ g.n \in Nat \ {0}
  BY DEF Forest, Linking
<1>2. \A e \in g.edges : e[1] \in DOMAIN P /\ e[2] \in DOMAIN P /\ e = <<e[1], e[2]>>
  BY ReadGraph
<1>3. ASSUME NEW e \in g.edges, Visited(g.directed, e[1], e[2]) PROVE r[e[1]] = r[e[2]]
  <2>1. g.n * e[1] + e[2] < g.n * g.n
    BY <1>1, <1>2, MatrixPlaces
  <2> QED
    BY <1>3, <2>1
<1>4. ASSUME NEW e \in g.edges PROVE r[e[1]] = r[e[2]]
  <2>1. CASE Visited(g.directed, e[1], e[2])
    BY <1>3, <2>1
  <2>2. CASE e[1] = e[2]
    BY <2>2
  <2>3. CASE ~Visited(g.directed, e[1], e[2]) /\ e[1] # e[2]
    <3>1. ~g.directed /\ e[1] < e[2]
      BY <1>1, <1>2, <2>3 DEF Visited
    <3> DEFINE d == <<e[2], e[1]>>
    <3>2. d \in g.edges /\ d[1] = e[2] /\ d[2] = e[1]
      BY <3>1 DEF Linking
    <3>3. Visited(g.directed, d[1], d[2])
      BY <3>1, <3>2 DEF Visited
    <3> HIDE DEF d
    <3> QED
      BY <1>3, <3>2, <3>3
  <2> QED
    BY <2>1, <2>2, <2>3
<1>5. ASSUME NEW x \in DOMAIN P PROVE Component(DOMAIN P, g.edges, x) = Class(r, x)
  <2>1. ASSUME NEW y \in Component(DOMAIN P, g.edges, x) PROVE y \in Class(r, x)
    <3>1. Class(r, x) \in SUBSET DOMAIN P /\ x \in Class(r, x)
      BY <1>1 DEF Class
    <3>2. \A e \in g.edges : e[1] \in Class(r, x) <=> e[2] \in Class(r, x)
      BY <1>1, <1>2, <1>4 DEF Class
    <3> QED
      BY <3>1, <3>2 DEF Component
  <2>2. ASSUME NEW y \in Class(r, x) PROVE y \in Component(DOMAIN P, g.edges, x)
    <3>1. y \in DOMAIN P /\ r[y] = r[x]
      BY <1>1 DEF Class
    <3>2. \A S \in SUBSET DOMAIN P : Leaves(S, g.edges) => (x \in S <=> y \in S)
      BY <3>1 DEF Linking
    <3> QED
      BY <3>1, <3>2 DEF Component, Leaves
  <2> QED
    BY <2>1, <2>2
<1>6. bs = {Component(DOMAIN P, g.edges, x) : x \in DOMAIN P}
  BY DEF Linking
<1> QED
  BY <1>1, <1>5, <1>6 DEF Classes

(* An edge that is read joins its two nodes, or passes them.                 *)
LEMMA UnionEdgeKeeps ==
  ASSUME UnionInv, UnionEdge
  PROVE  UnionInv'
<1> DEFINE n == graph.n
           k == graph.place
           i == graph.place \div graph.n
           j == graph.place % graph.n
           looks == Visited(graph.directed, i, j) /\ <<i, j>> \in graph.edges
           onward == [graph EXCEPT !.place = @ + 1]
<1>1. PICK r, h : /\ Forest(parent, r, h) /\ cnt = Cardinality(Roots(parent))
                  /\ Linking(parent, r, graph, blocks)
  BY DEF UnionInv, Joins, UnionEdge, Built
<1>2. /\ graph \in GraphToRead(Nodes) /\ DOMAIN parent \in SUBSET AllNodes
      /\ n \in Nat \ {0} /\ k \in Nat /\ k < n * n /\ DOMAIN parent = 0 .. n - 1
      /\ unionKind \in {"int", "map"}
  BY <1>1 DEF UnionInv, Linking, Nodes, GraphToRead, UnionEdge, Built
<1>3. i \in 0 .. n - 1 /\ j \in 0 .. n - 1 /\ \A u, v \in 0 .. n - 1 : n * u + v = k => u = i /\ v = j
  BY <1>2, MatrixPlaces
<1>4. /\ unionKind' = unionKind /\ blocks' = blocks
      /\ graph' = IF k + 1 = n * n THEN NoGraph ELSE onward
      /\ IF looks THEN parent' = Connected(unionKind, parent, i, j) /\ cnt' = Merged(parent, cnt, i, j)
                  ELSE parent' = parent /\ cnt' = cnt
  BY DEF UnionEdge
<1> DEFINE Reads(s) == \A e \in graph.edges :
               Visited(graph.directed, e[1], e[2]) /\ n * e[1] + e[2] < k + 1 => s[e[1]] = s[e[2]]
           Says(s) == \A x, y \in DOMAIN parent : s[x] = s[y] =>
               \A S \in SUBSET DOMAIN parent : Leaves(S, graph.edges) => (x \in S <=> y \in S)
<1>5. \A e \in graph.edges : e[1] \in 0 .. n - 1 /\ e[2] \in 0 .. n - 1 /\ e = <<e[1], e[2]>>
  BY <1>2, ReadGraph DEF Nodes
<1>6. \E s, g : /\ Forest(parent', s, g) /\ cnt' = Cardinality(Roots(parent')) /\ DOMAIN (parent') = DOMAIN parent
                /\ Reads(s) /\ Says(s)
  <2>1. \A e \in graph.edges : Visited(graph.directed, e[1], e[2]) /\ n * e[1] + e[2] < k => r[e[1]] = r[e[2]]
    BY <1>1 DEF Linking
  <2>2. Says(r)
    BY <1>1 DEF Linking
  <2>3. ASSUME NEW e \in graph.edges, Visited(graph.directed, e[1], e[2]), n * e[1] + e[2] < k + 1
        PROVE  r[e[1]] = r[e[2]] \/ (looks /\ e[1] = i /\ e[2] = j)
    <3>1. n * e[1] + e[2] \in Int /\ k \in Int
      BY <1>2, <1>5
    <3>2. CASE n * e[1] + e[2] < k
      BY <2>1, <2>3, <3>2
    <3>3. CASE n * e[1] + e[2] = k
      <4>1. e[1] = i /\ e[2] = j
        BY <1>3, <1>5, <3>3
      <4> QED
        BY <1>5, <2>3, <4>1
    <3> HIDE DEF n, k
    <3> QED
      BY <2>3, <3>1, <3>2, <3>3
  <2>4. CASE ~looks
    <3>1. Reads(r)
      BY <2>3, <2>4
    <3>2. parent' = parent /\ cnt' = cnt
      BY <1>4, <2>4
    <3> HIDE DEF Reads, Says
    <3> QED
      BY <1>1, <2>2, <3>1, <3>2
  <2>5. CASE looks
    <3>1. parent' = Connected(unionKind, parent, i, j) /\ cnt' = Merged(parent, cnt, i, j)
      BY <1>4, <2>5
    <3> HIDE DEF looks, i, j, n, k
    <3>2. /\ DOMAIN (parent') = DOMAIN parent
          /\ cnt' = Cardinality(Roots(parent'))
          /\ Fuses(parent', parent, r, i, j)
      BY <1>1, <1>2, <1>3, <3>1, ConnectedJoins
    <3>3. PICK s, g : /\ Forest(parent', s, g)
                      /\ \A x, y \in DOMAIN parent : s[x] = s[y] <=> Together(r, i, j, x, y)
      BY <3>2 DEF Fuses
    <3>4. Reads(s)
      <4> SUFFICES ASSUME NEW e \in graph.edges, Visited(graph.directed, e[1], e[2]), n * e[1] + e[2] < k + 1
                   PROVE  s[e[1]] = s[e[2]]
        OBVIOUS
      <4>1. Together(r, i, j, e[1], e[2])
        BY <2>3 DEF Together
      <4> QED
        BY <1>2, <1>5, <3>3, <4>1
    <3>5. Says(s)
      <4> SUFFICES ASSUME NEW x \in DOMAIN parent, NEW y \in DOMAIN parent, s[x] = s[y],
                          NEW S \in SUBSET DOMAIN parent, Leaves(S, graph.edges)
                   PROVE  x \in S <=> y \in S
        OBVIOUS
      <4>1. Together(r, i, j, x, y)
        BY <3>3
      <4>2. i \in S <=> j \in S
        <5>1. <<i, j>> \in graph.edges /\ <<i, j>>[1] = i /\ <<i, j>>[2] = j
          BY <2>5 DEF looks
        <5> QED
          BY <5>1 DEF Leaves
      <4>3. \A u, v \in DOMAIN parent : r[u] = r[v] => (u \in S <=> v \in S)
        BY <2>2
      <4> QED
        BY <1>2, <1>3, <4>1, <4>2, <4>3 DEF Together
    <3> HIDE DEF Reads, Says
    <3> QED
      BY <3>2, <3>3, <3>4, <3>5
  <2> QED
    BY <2>4, <2>5
<1>7. PICK s, g : /\ Forest(parent', s, g) /\ cnt' = Cardinality(Roots(parent')) /\ DOMAIN (parent') = DOMAIN parent
                  /\ Reads(s) /\ Says(s)
  BY <1>6
<1>8. /\ onward.n = n /\ onward.directed = graph.directed /\ onward.edges = graph.edges /\ onward.place = k + 1
      /\ onward \in GraphToRead(Nodes) /\ onward # NoGraph
  <2>1. /\ onward.n = n /\ onward.directed = graph.directed /\ onward.edges = graph.edges /\ onward.place = k + 1
        /\ onward \in GraphToRead(Nodes)
    BY <1>2, ReadGraph
  <2> HIDE DEF onward
  <2> QED
    BY <1>2, <2>1 DEF NoGraph
<1>9. CASE k + 1 = n * n
  <2>1. Linking(parent', s, graph, blocks)
    <3>1. \A e \in graph.edges : Visited(graph.directed, e[1], e[2]) /\ n * e[1] + e[2] < k => s[e[1]] = s[e[2]]
      <4>1. \A e \in graph.edges : n * e[1] + e[2] < k => n * e[1] + e[2] < k + 1
        BY <1>2, <1>5
      <4> QED
        BY <1>7, <4>1
    <3> QED
      BY <1>1, <1>7, <3>1 DEF Linking
  <2>2. blocks = Classes(s)
    <3>1. graph \in GraphToRead(DOMAIN (parent'))
      BY <1>2, <1>7 DEF Nodes
    <3> QED
      BY <1>7, <1>9, <2>1, <3>1, LinkedRead
  <2>3. graph' = NoGraph
    BY <1>4, <1>9
  <2>4. Joins(parent', cnt', graph', blocks')
    BY <1>4, <1>7, <2>2, <2>3 DEF Joins
  <2>5. graph' \in GraphToRead(Nodes')
    BY <2>3, UnionAssumption DEF GraphToRead, NoGraph
  <2> QED
    BY <1>2, <1>4, <1>7, <2>3, <2>4, <2>5 DEF UnionInv, Nodes
<1>10. CASE k + 1 # n * n
  <2>1. graph' = onward
    BY <1>4, <1>10
  <2>2. k + 1 < n * n
    BY <1>2, <1>10
  <2>3. Linking(parent', s, onward, blocks)
    <3>1. onward.n \in Nat \ {0} /\ DOMAIN (parent') = 0 .. onward.n - 1 /\ onward.place < onward.n * onward.n
      BY <1>2, <1>7, <1>8, <2>2
    <3> HIDE DEF onward
    <3>2. /\ onward.directed \/ \A e \in onward.edges : <<e[2], e[1]>> \in onward.edges
          /\ blocks = {Component(DOMAIN (parent'), onward.edges, x) : x \in DOMAIN (parent')}
      BY <1>1, <1>7, <1>8 DEF Linking
    <3>3. \A e \in onward.edges : Visited(onward.directed, e[1], e[2]) /\ onward.n * e[1] + e[2] < onward.place => s[e[1]] = s[e[2]]
      BY <1>7, <1>8
    <3>4. \A x, y \in DOMAIN (parent') : s[x] = s[y] =>
            \A S \in SUBSET DOMAIN (parent') : Leaves(S, onward.edges) => (x \in S <=> y \in S)
      BY <1>7, <1>8
    <3> QED
      BY <3>1, <3>2, <3>3, <3>4 DEF Linking
  <2> HIDE DEF onward
  <2>4. Joins(parent', cnt', graph', blocks')
    BY <1>4, <1>7, <1>8, <2>1, <2>3 DEF Joins
  <2>5. graph' \in GraphToRead(Nodes')
    BY <1>7, <1>8, <2>1 DEF Nodes
  <2> QED
    BY <1>2, <1>4, <1>7, <2>4, <2>5 DEF UnionInv, Nodes
<1> QED
  BY <1>9, <1>10

(* A set that is built has some roots, its count and its blocks.             *)
LEMMA BuiltSet ==
  ASSUME UnionInv, Built
  PROVE  /\ graph = NoGraph /\ DOMAIN parent \in SUBSET AllNodes
         /\ \E r, h : /\ Forest(parent, r, h) /\ cnt = Cardinality(Roots(parent)) /\ blocks = Classes(r)
BY DEF UnionInv, Joins, Built, Nodes

(* A set that is built stays so if its forest stays one.                     *)
LEMMA StaysBuilt ==
  ASSUME UnionInv, Built, graph' = graph, unionKind' = unionKind, DOMAIN (parent') \in SUBSET AllNodes,
         cnt' = Cardinality(Roots(parent')),
         \E r, h : Forest(parent', r, h) /\ blocks' = Classes(r)
  PROVE  UnionInv'
<1>1. graph' = NoGraph
  BY DEF Built
<1>2. Joins(parent', cnt', graph', blocks')
  BY <1>1 DEF Joins
<1>3. graph' \in GraphToRead(Nodes')
  BY <1>1, UnionAssumption DEF GraphToRead, NoGraph
<1> QED
  BY <1>1, <1>2, <1>3 DEF UnionInv, Nodes

(* add() of one node.                                                        *)
LEMMA UnionAddKeeps ==
  ASSUME UnionInv, NEW a \in AllNodes, UnionAdd(a)
  PROVE  UnionInv'
<1>1. /\ Built /\ a \notin DOMAIN parent /\ parent' = Added(parent, a) /\ cnt' = cnt + 1
      /\ blocks' = blocks \cup {{a}} /\ graph' = graph /\ unionKind' = unionKind
  BY DEF UnionAdd, Nodes
<1>2. PICK r, h : Forest(parent, r, h) /\ cnt = Cardinality(Roots(parent)) /\ blocks = Classes(r)
  BY <1>1, BuiltSet
<1>3. DOMAIN parent \in SUBSET AllNodes
  BY <1>1, BuiltSet
<1>4. /\ DOMAIN Added(parent, a) = DOMAIN parent \cup {a}
      /\ Cardinality(Roots(Added(parent, a))) = Cardinality(Roots(parent)) + 1
      /\ Enlarged(Added(parent, a), r, {{a}})
  BY <1>1, <1>2, <1>3, AddedJoins
<1>5. \E s, g : Forest(parent', s, g) /\ blocks' = Classes(s)
  BY <1>1, <1>2, <1>4 DEF Enlarged
<1> QED
  BY <1>1, <1>2, <1>3, <1>4, <1>5, StaysBuilt

(* connect() of two nodes that are there.                                    *)
LEMMA UnionConnectKeeps ==
  ASSUME UnionInv, NEW a \in AllNodes, NEW b \in AllNodes, UnionConnect(a, b)
  PROVE  UnionInv'
<1>1. /\ Built /\ a \in DOMAIN parent /\ b \in DOMAIN parent
      /\ parent' = Connected(unionKind, parent, a, b) /\ cnt' = Merged(parent, cnt, a, b)
      /\ blocks' = Fused(blocks, a, b) /\ graph' = graph /\ unionKind' = unionKind
  BY DEF UnionConnect, Nodes
<1>2. PICK r, h : Forest(parent, r, h) /\ cnt = Cardinality(Roots(parent)) /\ blocks = Classes(r)
  BY <1>1, BuiltSet
<1>3. DOMAIN parent \in SUBSET AllNodes
  BY <1>1, BuiltSet
<1>4. /\ DOMAIN (parent') = DOMAIN parent
      /\ cnt' = Cardinality(Roots(parent'))
      /\ Fuses(parent', parent, r, a, b)
  BY <1>1, <1>2, <1>3, ConnectedJoins
<1>5. \E s, g : Forest(parent', s, g) /\ blocks' = Classes(s)
  BY <1>1, <1>2, <1>4 DEF Fuses
<1> QED
  BY <1>1, <1>3, <1>4, <1>5, StaysBuilt

(* add() of two nodes, which it connects.                                    *)
LEMMA UnionAddPairKeeps ==
  ASSUME UnionInv, NEW a \in AllNodes, NEW b \in AllNodes, UnionAddPair(a, b)
  PROVE  UnionInv'
<1> DEFINE P == Added(Added(parent, a), b)
           new == {a, b} \ DOMAIN parent
           c == cnt + Cardinality(new)
<1>1. /\ Built /\ parent' = Connected("map", P, a, b) /\ cnt' = Merged(P, c, a, b)
      /\ blocks' = Fused(blocks \cup Singles(new), a, b) /\ graph' = graph /\ unionKind' = unionKind
  BY DEF UnionAddPair, Nodes, Singles
<1>2. PICK r, h : Forest(parent, r, h) /\ cnt = Cardinality(Roots(parent)) /\ blocks = Classes(r)
  BY <1>1, BuiltSet
<1>3. DOMAIN parent \in SUBSET AllNodes
  BY <1>1, BuiltSet
<1> DEFINE m == Added(parent, a)
           one == {a} \ DOMAIN parent
           two == {b} \ DOMAIN m
<1>4. /\ DOMAIN m = DOMAIN parent \cup {a}
      /\ Cardinality(Roots(m)) = cnt + Cardinality(one)
      /\ Enlarged(m, r, Singles(one))
  BY <1>2, <1>3, AddedMaybe
<1> HIDE DEF m
<1>5. PICK s, g : Forest(m, s, g) /\ Classes(s) = blocks \cup Singles(one)
  BY <1>2, <1>4 DEF Enlarged
<1>6. DOMAIN m \in SUBSET AllNodes
  BY <1>3, <1>4
<1>7. /\ DOMAIN P = DOMAIN m \cup {b}
      /\ Cardinality(Roots(P)) = Cardinality(Roots(m)) + Cardinality(two)
      /\ Enlarged(P, s, Singles(two))
  <2>1. P = Added(m, b)
    BY DEF m
  <2> HIDE DEF P
  <2> QED
    BY <1>5, <1>6, <2>1, AddedMaybe
<1> HIDE DEF P
<1>8. PICK t, w : Forest(P, t, w) /\ Classes(t) = Classes(s) \cup Singles(two)
  BY <1>7 DEF Enlarged
<1>9. new = one \cup two /\ one \cap two = {} /\ IsFiniteSet(one) /\ IsFiniteSet(two)
  <2>1. one \in SUBSET AllNodes /\ two \in SUBSET AllNodes
    OBVIOUS
  <2> QED
    BY <1>4, <2>1, NodesFinite
<1>10. Classes(t) = blocks \cup Singles(new)
  BY <1>5, <1>8, <1>9 DEF Singles
<1>11. Cardinality(Roots(P)) = c
  <2>1. Cardinality(one) \in Nat /\ Cardinality(two) \in Nat
    BY <1>9, FS_CardinalityType
  <2>2. Cardinality(new) = Cardinality(one) + Cardinality(two)
    <3>1. IsFiniteSet(one) /\ IsFiniteSet(two) /\ new = one \cup two /\ one \cap two = {}
      BY <1>9
    <3> HIDE DEF one, two, new
    <3>2. Cardinality(one \cap two) = 0
      BY <3>1, FS_EmptySet
    <3>3. Cardinality(one \cup two) = Cardinality(one) + Cardinality(two) - Cardinality(one \cap two)
      BY <3>1, FS_Union
    <3> QED
      BY <2>1, <3>1, <3>2, <3>3
  <2>3. cnt \in Nat
    <3>1. Roots(parent) \in SUBSET AllNodes
      BY <1>3 DEF Roots
    <3> QED
      BY <1>2, <3>1, NodesFinite, FS_CardinalityType
  <2> QED
    BY <1>4, <1>7, <2>1, <2>2, <2>3
<1> HIDE DEF c, new
<1>12. a \in DOMAIN P /\ b \in DOMAIN P /\ DOMAIN P \in SUBSET AllNodes
  BY <1>4, <1>6, <1>7
<1>13. /\ DOMAIN (parent') = DOMAIN P
       /\ cnt' = Cardinality(Roots(parent'))
       /\ Fuses(parent', P, t, a, b)
  BY <1>1, <1>8, <1>11, <1>12, ConnectedJoins
<1>14. \E u, v : Forest(parent', u, v) /\ blocks' = Classes(u)
  BY <1>1, <1>10, <1>13 DEF Fuses
<1> QED
  BY <1>1, <1>12, <1>13, <1>14, StaysBuilt

(* find(), which compresses the path.                                        *)
LEMMA UnionFindKeeps ==
  ASSUME UnionInv, NEW a \in AllNodes, UnionFindRoot(a)
  PROVE  UnionInv'
<1>1. /\ Built /\ a \in DOMAIN parent /\ parent' = Found(unionKind, parent, a) /\ cnt' = cnt
      /\ blocks' = blocks /\ graph' = graph /\ unionKind' = unionKind
  BY DEF UnionFindRoot, Nodes
<1>2. PICK r, h : Forest(parent, r, h) /\ cnt = Cardinality(Roots(parent)) /\ blocks = Classes(r)
  BY <1>1, BuiltSet
<1>3. DOMAIN parent \in SUBSET AllNodes
  BY <1>1, BuiltSet
<1>4. Forest(parent', r, h) /\ DOMAIN (parent') = DOMAIN parent /\ Roots(parent') = Roots(parent)
  BY <1>1, <1>2, FoundForest
<1> QED
  BY <1>1, <1>2, <1>3, <1>4, StaysBuilt

(* normalize(), which compresses every path.                                 *)
LEMMA UnionNormalizeKeeps ==
  ASSUME UnionInv, UnionNormalize
  PROVE  UnionInv'
<1>1. /\ Built /\ parent' = [x \in DOMAIN parent |-> Root(parent, x)] /\ cnt' = cnt
      /\ blocks' = blocks /\ graph' = graph /\ unionKind' = unionKind
  BY DEF UnionNormalize, Nodes
<1>2. PICK r, h : Forest(parent, r, h) /\ cnt = Cardinality(Roots(parent)) /\ blocks = Classes(r)
  BY <1>1, BuiltSet
<1>3. DOMAIN parent \in SUBSET AllNodes
  BY <1>1, BuiltSet
<1>4. parent' = r
  <2>1. \A x \in DOMAIN parent : Root(parent, x) = r[x]
    BY <1>2, RootIs
  <2>2. r = [x \in DOMAIN parent |-> r[x]]
    BY <1>2 DEF Forest
  <2> QED
    BY <1>1, <2>1, <2>2
<1>5. DOMAIN r = DOMAIN parent /\ \A x \in DOMAIN parent : r[x] \in DOMAIN parent
  BY <1>2 DEF Forest
<1>6. \A x \in DOMAIN parent : /\ r[x] \in Roots(parent) /\ r[r[x]] = r[x]
                               /\ x # r[x] => h[r[x]] < h[x]
  BY <1>2, RootFacts
<1>7. Forest(r, r, h)
  BY <1>2, <1>5, <1>6 DEF Forest
<1>8. Roots(r) = Roots(parent)
  BY <1>2, <1>5, <1>6 DEF Roots, Forest
<1> QED
  BY <1>1, <1>2, <1>3, <1>4, <1>5, <1>7, <1>8, StaysBuilt

(* What the invariant says of the roots, the count and the blocks.           *)
LEMMA UnionInvShows ==
  ASSUME UnionInv
  PROVE  UnionTypeOK /\ SameRoot /\ CountsComponents
<1>1. PICK r, h : /\ Forest(parent, r, h)
                  /\ cnt = Cardinality(Roots(parent))
                  /\ graph = NoGraph => blocks = Classes(r)
                  /\ graph # NoGraph => Linking(parent, r, graph, blocks)
  BY DEF UnionInv, Joins
<1>2. Roots(parent) \in SUBSET AllNodes
  BY DEF UnionInv, Roots, Nodes
<1>3. cnt \in Nat
  BY <1>1, <1>2, NodesFinite, FS_CardinalityType
<1>4. graph.n \in 0 .. GraphSize /\ graph.place \in Nat /\ graph.edges \in SUBSET (Nodes \X Nodes)
  BY DEF UnionInv, GraphToRead
<1>5. graph.place \in 0 .. graph.n * graph.n
  <2>1. CASE graph = NoGraph
    BY <2>1 DEF NoGraph
  <2>2. CASE graph # NoGraph
    <3>1. graph.n \in Nat \ {0} /\ graph.place < graph.n * graph.n
      BY <1>1, <2>2 DEF Linking
    <3> QED
      BY <1>4, <3>1
  <2> QED
    BY <2>1, <2>2
<1>6. UnionTypeOK
  <2>1. parent \in [Nodes -> Nodes] /\ unionKind \in {"none", "int", "map"} /\ Nodes \subseteq AllNodes
    BY <1>1 DEF UnionInv, Forest, Nodes
  <2> QED
    BY <1>3, <1>4, <1>5, <2>1 DEF UnionTypeOK
<1>7. SameRoot
  <2> SUFFICES ASSUME Built, NEW a \in Nodes, NEW b \in Nodes
               PROVE  Root(parent, a) = Root(parent, b) <=> \E S \in blocks : a \in S /\ b \in S
    BY DEF SameRoot
  <2>1. blocks = Classes(r) /\ DOMAIN r = Nodes
    BY <1>1 DEF Built, Forest, Nodes
  <2>2. Root(parent, a) = r[a] /\ Root(parent, b) = r[b]
    BY <1>1, RootIs DEF Nodes
  <2>3. r[a] = r[b] <=> \E x \in DOMAIN r : a \in Class(r, x) /\ b \in Class(r, x)
    BY <2>1 DEF Class
  <2> QED
    BY <2>1, <2>2, <2>3 DEF Classes
<1>8. CountsComponents
  <2> SUFFICES ASSUME Built PROVE cnt = Cardinality(blocks)
    BY DEF CountsComponents
  <2>1. IsFiniteSet(Roots(parent))
    BY <1>2, NodesFinite
  <2> QED
    BY <1>1, <2>1, ClassesAreRoots DEF Built
<1> QED
  BY <1>6, <1>7, <1>8

(* Every step of a set keeps the invariant.                                  *)
LEMMA UnionKeeps == ASSUME UnionInv, [UnionNext]_unionVars PROVE UnionInv'
<1>1. ASSUME NEW n \in 0 .. UnionSize, UnionNew(n) PROVE UnionInv'
  BY <1>1, UnionNewKeeps
<1>2. ASSUME NEW kind \in {"int", "map"}, NEW n \in 0 .. GraphSize, NEW directed \in BOOLEAN,
             NEW adj \in SUBSET ((0 .. n - 1) \X (0 .. n - 1)), UnionNewGraph(kind, n, directed, adj)
      PROVE  UnionInv'
  BY <1>2, UnionNewGraphKeeps
<1>3. CASE UnionEdge
  BY <1>3, UnionEdgeKeeps
<1>4. ASSUME NEW a \in AllNodes, UnionAdd(a) \/ UnionFindRoot(a) PROVE UnionInv'
  BY <1>4, UnionAddKeeps, UnionFindKeeps
<1>5. ASSUME NEW a \in AllNodes, NEW b \in AllNodes, UnionConnect(a, b) \/ UnionAddPair(a, b) PROVE UnionInv'
  BY <1>5, UnionConnectKeeps, UnionAddPairKeeps
<1>6. CASE UnionNormalize
  BY <1>6, UnionNormalizeKeeps
<1>7. CASE UNCHANGED unionVars
  BY <1>7 DEF unionVars, UnionInv, Nodes
<1> QED
  BY <1>1, <1>2, <1>3, <1>4, <1>5, <1>6, <1>7 DEF UnionNext

(* The pairs of nodes, and each the other way round.                         *)
Pairs(n) == (0 .. n - 1) \X (0 .. n - 1)
Turned(P) == <<P[2], P[1]>>
AnyWeight == Weights \cup {0}

GraphInv ==
  /\ nodeCount \in 0 .. MaxNodes /\ isYouXiang \in BOOLEAN
  /\ edges \in Matrices(nodeCount, AnyWeight)
  /\ graphAt \in {"drawing", "random"} => drawn \in Matrices(nodeCount, AnyWeight)
  /\ Symmetric /\ OnlyDrawn

(* A pair that is turned round twice is the same.                            *)
LEMMA TurnedPairs ==
  ASSUME NEW n \in Nat
  PROVE  \A P \in Pairs(n) :
           /\ P = <<P[1], P[2]>> /\ P[1] \in 0 .. n - 1 /\ P[2] \in 0 .. n - 1
           /\ Turned(P) \in Pairs(n) /\ Turned(Turned(P)) = P
           /\ Turned(P)[1] = P[2] /\ Turned(P)[2] = P[1]
           /\ ~(P[1] < P[2]) /\ ~(P[2] < P[1]) => Turned(P) = P
<1> SUFFICES ASSUME NEW P \in Pairs(n)
             PROVE  /\ P = <<P[1], P[2]>> /\ P[1] \in 0 .. n - 1 /\ P[2] \in 0 .. n - 1
                    /\ Turned(P) \in Pairs(n) /\ Turned(Turned(P)) = P
                    /\ Turned(P)[1] = P[2] /\ Turned(P)[2] = P[1]
                    /\ ~(P[1] < P[2]) /\ ~(P[2] < P[1]) => Turned(P) = P
  OBVIOUS
<1>1. P = <<P[1], P[2]>> /\ P[1] \in 0 .. n - 1 /\ P[2] \in 0 .. n - 1
  BY DEF Pairs
<1>2. Turned(P) \in Pairs(n)
  BY <1>1 DEF Turned, Pairs
<1>3. Turned(P)[1] = P[2] /\ Turned(P)[2] = P[1]
  BY DEF Turned
<1>4. Turned(Turned(P)) = P
  BY <1>1, <1>3 DEF Turned
<1>5. ~(P[1] < P[2]) /\ ~(P[2] < P[1]) => P[1] = P[2]
  BY <1>1
<1> QED
  BY <1>1, <1>2, <1>3, <1>4, <1>5 DEF Turned

(* What the constructor makes of a matrix.                                   *)
LEMMA GivenMatrix ==
  ASSUME NEW n \in Nat, NEW e \in Matrices(n, AnyWeight)
  PROVE  /\ Given(e) \in Matrices(n, AnyWeight)
         /\ \A P \in Pairs(n) : Given(e)[P] \in {e[P]} \cup (IF isYouXiang THEN {} ELSE {e[Turned(P)]})
         /\ ~isYouXiang => \A P \in Pairs(n) : Given(e)[P] = Given(e)[Turned(P)]
<1>1. DOMAIN e = Pairs(n) /\ \A P \in Pairs(n) : e[P] \in AnyWeight
  BY DEF Matrices, Pairs
<1>2. CASE isYouXiang
  BY <1>2 DEF Given
<1>3. CASE ~isYouXiang
  <2> DEFINE m == [P \in Pairs(n) |-> IF P[1] < P[2] THEN e[Turned(P)] ELSE e[P]]
  <2>1. Given(e) = m
    BY <1>1, <1>3 DEF Given, Turned
  <2>2. ASSUME NEW P \in Pairs(n)
        PROVE  /\ m[P] = IF P[1] < P[2] THEN e[Turned(P)] ELSE e[P]
               /\ m[Turned(P)] = IF P[2] < P[1] THEN e[P] ELSE e[Turned(P)]
    BY TurnedPairs
  <2>3. m \in Matrices(n, AnyWeight)
    BY <1>1, TurnedPairs DEF Matrices, Pairs
  <2> HIDE DEF m
  <2>4. ASSUME NEW P \in Pairs(n)
        PROVE  m[P] \in {e[P], e[Turned(P)]} /\ m[P] = m[Turned(P)]
    <3>1. ~(P[1] < P[2] /\ P[2] < P[1])
      <4>1. P[1] \in Int /\ P[2] \in Int
        BY TurnedPairs
      <4> QED
        BY <4>1
    <3>2. ~(P[1] < P[2]) /\ ~(P[2] < P[1]) => e[Turned(P)] = e[P]
      BY TurnedPairs
    <3> QED
      BY <2>2, <3>1, <3>2
  <2> QED
    BY <1>3, <2>1, <2>3, <2>4
<1> QED
  BY <1>2, <1>3

(* No graph is made yet.                                                     *)
LEMMA GraphStarts == ASSUME GraphInit PROVE GraphInv
<1>1. Dummy(0) \in Matrices(0, AnyWeight) /\ DOMAIN Dummy(0) = {}
  <2>1. (0 .. 0 - 1) \X (0 .. 0 - 1) = {}
    OBVIOUS
  <2> QED
    BY <2>1 DEF Dummy, Matrices, AnyWeight
<1> QED
  BY <1>1, GraphAssumption DEF GraphInit, GraphInv, Symmetric, OnlyDrawn

(* A graph that is made of a matrix is as symmetric as it has to be.         *)
LEMMA NewGraphKeeps ==
  ASSUME GraphInv, NEW n \in 0 .. MaxNodes, NEW e \in Matrices(n, AnyWeight), NewGraph(n, e)
  PROVE  GraphInv'
<1>1. /\ nodeCount' = n /\ edges' = Given(e) /\ graphAt' = "built" /\ isYouXiang' = isYouXiang
  BY DEF NewGraph
<1>2. n \in Nat
  BY GraphAssumption
<1>3. edges' \in Matrices(n, AnyWeight) /\ DOMAIN (edges') = Pairs(n)
  BY <1>1, <1>2, GivenMatrix DEF Matrices, Pairs
<1>4. ~isYouXiang => \A P \in Pairs(n) : edges'[P] = edges'[Turned(P)]
  BY <1>1, <1>2, GivenMatrix
<1>5. Symmetric' /\ OnlyDrawn'
  BY <1>1, <1>3, <1>4 DEF Symmetric, OnlyDrawn, Turned
<1> QED
  BY <1>1, <1>3, <1>5 DEF GraphInv

(* addNode() leaves the edges as they are.                                   *)
LEMMA AddNodeKeeps ==
  ASSUME GraphInv, AddNode
  PROVE  GraphInv'
<1> DEFINE n == nodeCount + 1
           m == [P \in Pairs(n) |-> IF P \in DOMAIN edges THEN edges[P] ELSE 0]
<1>1. /\ nodeCount' = n /\ nodeCount \in Nat /\ n \in 0 .. MaxNodes /\ edges' = m
      /\ graphAt \in {"random", "built"} /\ graphAt' = "built" /\ isYouXiang' = isYouXiang
  BY GraphAssumption DEF AddNode, GraphInv, Dummy, Pairs
<1>2. DOMAIN edges = Pairs(nodeCount) /\ \A P \in Pairs(nodeCount) : edges[P] \in AnyWeight
  BY DEF GraphInv, Matrices, Pairs
<1>3. m \in Matrices(n, AnyWeight)
  BY <1>2 DEF Matrices, Pairs, AnyWeight
<1>4. ASSUME ~isYouXiang, NEW P \in Pairs(n) PROVE m[P] = m[Turned(P)]
  <2>1. Turned(P) \in Pairs(n) /\ Turned(Turned(P)) = P
    BY <1>1, TurnedPairs
  <2>2. P \in Pairs(nodeCount) <=> Turned(P) \in Pairs(nodeCount)
    BY <1>1, <2>1, TurnedPairs
  <2>3. P \in Pairs(nodeCount) => edges[P] = edges[Turned(P)]
    BY <1>1, <1>2, <1>4 DEF GraphInv, Symmetric, Turned
  <2> QED
    BY <1>2, <2>1, <2>2, <2>3
<1>5. DOMAIN m = Pairs(n)
  OBVIOUS
<1> HIDE DEF m
<1>6. Symmetric' /\ OnlyDrawn'
  BY <1>1, <1>4, <1>5 DEF Symmetric, OnlyDrawn, Turned
<1> QED
  BY <1>1, <1>3, <1>6 DEF GraphInv

(* addEdge() adds a pair, and the opposite pair to an undirected graph.      *)
LEMMA AddEdgeKeeps ==
  ASSUME GraphInv, NEW a \in 0 .. MaxNodes, NEW b \in 0 .. MaxNodes, NEW w \in Weights, AddEdge(a, b, w)
  PROVE  GraphInv'
<1> DEFINE n == nodeCount
           m == [edges EXCEPT ![<<a, b>>] = w, ![<<b, a>>] = IF isYouXiang THEN @ ELSE w]
<1>1. /\ nodeCount' = n /\ n \in Nat /\ edges' = m /\ a \in 0 .. n - 1 /\ b \in 0 .. n - 1
      /\ graphAt \in {"random", "built"} /\ graphAt' = "built" /\ isYouXiang' = isYouXiang
  BY GraphAssumption DEF AddEdge, GraphInv
<1>2. DOMAIN edges = Pairs(n) /\ edges \in [Pairs(n) -> AnyWeight] /\ w \in AnyWeight
  BY DEF GraphInv, Matrices, Pairs, AnyWeight
<1>3. <<a, b>> \in Pairs(n) /\ <<b, a>> \in Pairs(n)
  BY <1>1 DEF Pairs
<1>4. m \in [Pairs(n) -> AnyWeight]
  BY <1>2, <1>3
<1>5. ASSUME ~isYouXiang, NEW P \in Pairs(n)
      PROVE  m[P] = IF P = <<a, b>> \/ P = <<b, a>> THEN w ELSE edges[P]
  BY <1>2, <1>3, <1>5
<1> HIDE DEF m
<1>6. ASSUME ~isYouXiang, NEW P \in Pairs(n) PROVE m[P] = m[Turned(P)]
  <2>1. Turned(P) \in Pairs(n) /\ P = <<P[1], P[2]>>
    BY <1>1, TurnedPairs
  <2>2. edges[P] = edges[Turned(P)]
    BY <1>1, <1>2, <1>6 DEF GraphInv, Symmetric, Turned
  <2>3. (P = <<a, b>> \/ P = <<b, a>>) <=> (Turned(P) = <<a, b>> \/ Turned(P) = <<b, a>>)
    BY <2>1 DEF Turned
  <2> QED
    BY <1>5, <1>6, <2>1, <2>2, <2>3
<1>7. Symmetric' /\ OnlyDrawn'
  BY <1>1, <1>4, <1>6 DEF Symmetric, OnlyDrawn, Turned
<1>8. edges' \in Matrices(n, AnyWeight)
  BY <1>1, <1>4 DEF Matrices, Pairs
<1> QED
  BY <1>1, <1>7, <1>8 DEF GraphInv

(* buildRandomGraph() begins.                                                *)
LEMMA BeginRandomKeeps ==
  ASSUME GraphInv, NEW n \in 0 .. MaxNodes, BeginRandom(n)
  PROVE  GraphInv'
<1>1. Dummy(n) \in Matrices(n, AnyWeight)
  BY DEF Dummy, Matrices, AnyWeight
<1> QED
  BY <1>1 DEF BeginRandom, GraphInv, Symmetric, OnlyDrawn

(* It draws the weight of a pair.                                            *)
LEMMA DrawKeeps ==
  ASSUME GraphInv, NEW P \in DOMAIN drawn, NEW w \in Weights, Draw(P, w)
  PROVE  GraphInv'
<1>1. drawn' \in Matrices(nodeCount, AnyWeight)
  BY DEF Draw, GraphInv, Matrices, AnyWeight
<1> QED
  BY <1>1 DEF Draw, GraphInv, Symmetric, OnlyDrawn

(* It has drawn all of them.                                                 *)
LEMMA EndRandomKeeps ==
  ASSUME GraphInv, EndRandom
  PROVE  GraphInv'
<1> DEFINE n == nodeCount
<1>1. /\ n \in Nat /\ graphAt = "drawing" /\ graphAt' = "random" /\ nodeCount' = n
      /\ isYouXiang' = isYouXiang /\ drawn' = drawn
  BY GraphAssumption DEF EndRandom, GraphInv
<1>2. DOMAIN drawn = Pairs(n) /\ \A P \in Pairs(n) : drawn[P] \in AnyWeight
  BY <1>1 DEF GraphInv, Matrices, Pairs
<1>3. PICK heads : edges' = Given([P \in Pairs(n) |->
                    IF isYouXiang THEN drawn[P]
                    ELSE IF P \in heads \/ (P[1] < P[2] /\ <<P[2], P[1]>> \notin heads)
                      THEN drawn[<<P[2], P[1]>>] ELSE drawn[P]])
  BY <1>2 DEF EndRandom
<1> DEFINE m == [P \in Pairs(n) |->
                    IF isYouXiang THEN drawn[P]
                    ELSE IF P \in heads \/ (P[1] < P[2] /\ <<P[2], P[1]>> \notin heads)
                      THEN drawn[<<P[2], P[1]>>] ELSE drawn[P]]
<1>4. edges' = Given(m)
  BY <1>3
<1>5. \A P \in Pairs(n) : m[P] \in {drawn[P]} \cup (IF isYouXiang THEN {} ELSE {drawn[Turned(P)]})
  BY DEF Turned
<1>6. m = [P \in Pairs(n) |-> m[P]]
  OBVIOUS
<1> HIDE DEF m
<1>7. m \in Matrices(n, AnyWeight)
  <2>1. \A P \in Pairs(n) : m[P] \in AnyWeight
    BY <1>1, <1>2, <1>5, TurnedPairs
  <2>2. m \in [Pairs(n) -> AnyWeight]
    BY <1>6, <2>1
  <2> QED
    BY <2>2 DEF Matrices, Pairs
<1>8. /\ edges' \in Matrices(n, AnyWeight)
      /\ \A P \in Pairs(n) : edges'[P] \in {m[P]} \cup (IF isYouXiang THEN {} ELSE {m[Turned(P)]})
      /\ ~isYouXiang => \A P \in Pairs(n) : edges'[P] = edges'[Turned(P)]
  BY <1>1, <1>4, <1>7, GivenMatrix
<1>9. DOMAIN (edges') = Pairs(n)
  BY <1>8 DEF Matrices, Pairs
<1>10. ASSUME NEW P \in Pairs(n)
       PROVE  edges'[P] \in {drawn[P]} \cup (IF isYouXiang THEN {} ELSE {drawn[Turned(P)]})
  <2>1. Turned(P) \in Pairs(n) /\ Turned(Turned(P)) = P
    BY <1>1, TurnedPairs
  <2>2. m[Turned(P)] \in {drawn[Turned(P)]} \cup (IF isYouXiang THEN {} ELSE {drawn[P]})
    BY <1>5, <2>1
  <2> QED
    BY <1>5, <1>8, <2>2
<1>11. Symmetric' /\ OnlyDrawn'
  BY <1>1, <1>8, <1>9, <1>10 DEF Symmetric, OnlyDrawn, Turned
<1> QED
  BY <1>1, <1>2, <1>8, <1>11 DEF GraphInv

(* Every step of a graph keeps the invariant.                                *)
LEMMA GraphKeeps == ASSUME GraphInv, [GraphNext]_graphVars PROVE GraphInv'
<1>1. ASSUME NEW n \in 0 .. MaxNodes, BeginRandom(n) PROVE GraphInv'
  BY <1>1, BeginRandomKeeps
<1>2. ASSUME NEW n \in 0 .. MaxNodes, NEW e \in Matrices(n, Weights \cup {0}), NewGraph(n, e) PROVE GraphInv'
  BY <1>2, NewGraphKeeps DEF AnyWeight
<1>3. ASSUME NEW P \in DOMAIN drawn, NEW w \in Weights, Draw(P, w) PROVE GraphInv'
  BY <1>3, DrawKeeps
<1>4. ASSUME NEW a \in 0 .. MaxNodes, NEW b \in 0 .. MaxNodes, NEW w \in Weights, AddEdge(a, b, w) PROVE GraphInv'
  BY <1>4, AddEdgeKeeps
<1>5. CASE EndRandom
  BY <1>5, EndRandomKeeps
<1>6. CASE AddNode
  BY <1>6, AddNodeKeeps
<1>7. CASE UNCHANGED graphVars
  BY <1>7 DEF graphVars, GraphInv, Symmetric, OnlyDrawn
<1> QED
  BY <1>1, <1>2, <1>3, <1>4, <1>5, <1>6, <1>7 DEF GraphNext

(* A union-find set, however it was built, added to, connected and           *)
(* compressed, has the components of what was connected and counts them; a   *)
(* graph is as symmetric as it says, and has the weights it was given.       *)
THEOREM SetsHaveComponents == UnionSpec /\ GraphSpec => []UnionCorrect
<1>1. UnionInit /\ GraphInit => UnionInv /\ GraphInv
  BY UnionStarts, GraphStarts
<1>2. UnionInv /\ [UnionNext]_unionVars => UnionInv'
  BY UnionKeeps
<1>3. GraphInv /\ [GraphNext]_graphVars => GraphInv'
  BY GraphKeeps
<1>4. UnionInv /\ GraphInv => UnionCorrect
  BY UnionInvShows DEF UnionCorrect, GraphCorrect, GraphInv, GraphTypeOK, AnyWeight
<1> QED
  BY <1>1, <1>2, <1>3, <1>4, PTL DEF UnionSpec, GraphSpec

-----------------------------------------------------------------------------
(* Skip lists: a map whose levels are in order.                              *)

(* A bounded set of numbers that is not empty has a greatest one.            *)
LEMMA GreatestNat ==
  ASSUME NEW S \in SUBSET Nat, S # {}, NEW m \in Nat, \A i \in S : i <= m
  PROVE  \E i \in S : \A j \in S : j <= i
<1> DEFINE T == {m - i : i \in S}
<1>1. T \in SUBSET Nat /\ T # {}
  <2>1. \A i \in S : m - i \in Nat
    OBVIOUS
  <2> QED
    BY <2>1
<1>2. PICK t \in T : \A u \in T : t <= u
  BY <1>1, SmallestNat
<1>3. PICK i \in S : t = m - i
  BY <1>2
<1>4. \A j \in S : m - i <= m - j
  BY <1>2, <1>3
<1> QED
  BY <1>4

(* Who is on a level, who comes behind a number there, and who before it.    *)
OnLevel(i) == {k \in Keys : level[k] >= i}
Behind(S, n, x) ==
  \/ x = Null /\ \A k \in S : k <= n
  \/ x \in S /\ n < x /\ \A k \in S : n < k => x <= k
Before(S, n, x) == x \in {HeadNode} \cup S /\ x < n /\ \A k \in S : k < n => k <= x

SkipInv ==
  /\ SkipTypeOK
  /\ \A i \in Levels : /\ \A n \in {HeadNode} \cup OnLevel(i) : Behind(OnLevel(i), n, nextNodes[n][i])
                       /\ \A n \in Keys \ OnLevel(i) : nextNodes[n][i] = Null
  /\ stored = {<<k, val[k]>> : k \in OnLevel(1)}
  /\ IsFiniteSet(stored) /\ nodeNum = Cardinality(stored)

(* Keys are positive, the head is 0.                                         *)
LEMMA KeysAreNumbers == \A k \in Keys : k \in Nat /\ k > 0
  BY SkipAssumption

(* One node of a level is the last before a key.                             *)
LEMMA OneBefore ==
  ASSUME NEW S \in SUBSET Keys, NEW key \in Keys
  PROVE  \E x : Before(S, key, x) /\ \A y : Before(S, key, y) => x = y
<1> DEFINE T == {x \in {HeadNode} \cup S : x < key}
<1>1. T \in SUBSET Nat /\ HeadNode \in T /\ key \in Nat /\ \A x \in T : x <= key
  BY KeysAreNumbers DEF HeadNode
<1>2. PICK x \in T : \A y \in T : y <= x
  BY <1>1, GreatestNat
<1>3. Before(S, key, x)
  BY <1>2 DEF Before
<1>4. \A y : Before(S, key, y) => y \in T /\ x <= y
  <2> SUFFICES ASSUME NEW y, Before(S, key, y) PROVE y \in T /\ x <= y
    OBVIOUS
  <2>1. y \in T
    BY DEF Before
  <2>2. x \in S => x <= y
    BY <1>2 DEF Before
  <2>3. x = HeadNode => x <= y
    BY <1>1, <2>1 DEF HeadNode
  <2> QED
    BY <1>2, <2>1, <2>2, <2>3
<1> QED
  BY <1>1, <1>2, <1>3, <1>4

(* Whoever is on a level is on the levels below it.                          *)
LEMMA LevelsNest ==
  ASSUME SkipInv, NEW i \in Levels
  PROVE  /\ i \in Nat /\ i >= 1 /\ i <= MaxLevel
         /\ OnLevel(i) \in SUBSET Keys /\ OnLevel(i) \in SUBSET OnLevel(1)
         /\ i # MaxLevel => i + 1 \in Levels /\ OnLevel(i + 1) \in SUBSET OnLevel(i)
<1>1. MaxLevel \in Nat /\ i \in Nat /\ i >= 1 /\ i <= MaxLevel
  BY SkipAssumption DEF Levels
<1>2. \A k \in Keys : level[k] \in Nat
  BY DEF SkipInv, SkipTypeOK
<1>3. OnLevel(i) \in SUBSET Keys /\ OnLevel(i) \in SUBSET OnLevel(1) /\ OnLevel(i + 1) \in SUBSET OnLevel(i)
  BY <1>1, <1>2 DEF OnLevel
<1> QED
  BY <1>1, <1>3 DEF Levels

(* The search on one level comes to the last node before the key.            *)
LEMMA AlongIs ==
  ASSUME SkipInv, NEW i \in Levels, NEW key \in Keys, NEW last, Before(OnLevel(i), key, last),
         NEW from \in {HeadNode} \cup OnLevel(i), from < key
  PROVE  Along(from, i, key) = last
<1> DEFINE along[n \in {HeadNode} \cup Keys] ==
             IF GoesOn(nextNodes[n][i], key) THEN along[nextNodes[n][i]] ELSE n
           on == OnLevel(i)
           nodes == {HeadNode} \cup Keys
           next == [n \in nodes |-> nextNodes[n][i]]
           goal == [n \in nodes |-> IF GoesOn(next[n], key) THEN last ELSE n]
<1>1. Along(from, i, key) = along[from]
  BY Zenon DEF Along
<1>2. /\ on \in SUBSET Keys /\ on \in SUBSET Nat /\ key \in Nat /\ from \in nodes /\ from \in Nat
      /\ nodes \in SUBSET Nat /\ last \in nodes /\ last \in Nat /\ last < key
  BY KeysAreNumbers DEF OnLevel, Before, HeadNode
<1>3. ASSUME NEW n \in nodes
      PROVE  /\ next[n] = nextNodes[n][i]
             /\ GoesOn(next[n], key) => /\ n \in {HeadNode} \cup on /\ next[n] \in on /\ next[n] \in nodes
                                        /\ n < next[n] /\ next[n] < key
  <2>1. next[n] = nextNodes[n][i]
    OBVIOUS
  <2>2. CASE n \in {HeadNode} \cup on
    <3>1. Behind(on, n, next[n])
      BY <2>1, <2>2 DEF SkipInv
    <3> HIDE DEF on, next
    <3> QED
      BY <1>2, <2>1, <2>2, <3>1 DEF Behind, GoesOn
  <2>3. CASE n \notin {HeadNode} \cup on
    <3>1. next[n] = Null
      BY <2>1, <2>3 DEF SkipInv
    <3> HIDE DEF on, next
    <3> QED
      BY <2>1, <3>1 DEF GoesOn
  <2> QED
    BY <2>2, <2>3
<1>4. ASSUME NEW n \in {HeadNode} \cup on PROVE Behind(on, n, next[n])
  <2>1. n \in nodes
    BY <1>2
  <2> QED
    BY <1>3, <2>1 DEF SkipInv
<1> HIDE DEF on, next
<1>5. ASSUME NEW n \in {HeadNode} \cup on, n < key, ~GoesOn(next[n], key)
      PROVE  n = last
  <2>1. Behind(on, n, next[n]) /\ n \in Nat
    BY <1>2, <1>4
  <2>2. \A k \in on : k < key => k <= n
    <3>1. CASE next[n] = Null /\ \A k \in on : k <= n
      BY <3>1
    <3>2. CASE next[n] \in on /\ n < next[n] /\ \A k \in on : n < k => next[n] <= k
      <4>1. next[n] \in Nat /\ next[n] # Null
        <5>1. next[n] \in Nat
          BY <1>2, <3>2
        <5> QED
          BY <5>1 DEF Null
      <4>2. ~(next[n] < key)
        BY <1>5, <4>1 DEF GoesOn
      <4> SUFFICES ASSUME NEW k \in on, k < key PROVE k <= n
        OBVIOUS
      <4>3. k \in Nat /\ (n < k => next[n] <= k)
        BY <1>2, <3>2
      <4> QED
        BY <1>2, <2>1, <4>1, <4>2, <4>3
    <3> QED
      BY <2>1, <3>1, <3>2 DEF Behind
  <2>3. n <= last
    BY <1>2, <1>5, <2>1 DEF Before, on, HeadNode
  <2>4. last <= n
    BY <1>2, <2>1, <2>2 DEF Before, on, HeadNode
  <2> QED
    BY <1>2, <2>1, <2>3, <2>4
<1>6. \A n \in nodes : goal[n] = IF GoesOn(next[n], key) THEN goal[next[n]] ELSE n
  <2> SUFFICES ASSUME NEW n \in nodes, GoesOn(next[n], key)
               PROVE  goal[n] = goal[next[n]]
    BY <1>3
  <2>1. goal[n] = last /\ next[n] \in on /\ next[n] \in nodes /\ next[n] < key
    BY <1>3
  <2>2. goal[next[n]] = IF GoesOn(next[next[n]], key) THEN last ELSE next[n]
    BY <2>1
  <2>3. ~GoesOn(next[next[n]], key) => next[n] = last
    BY <1>5, <2>1
  <2> QED
    BY <2>1, <2>2, <2>3
<1>7. goal = [n \in nodes |-> IF GoesOn(nextNodes[n][i], key) THEN goal[nextNodes[n][i]] ELSE n]
  <2>1. goal = [n \in nodes |-> goal[n]]
    OBVIOUS
  <2> HIDE DEF goal
  <2>2. \A n \in nodes : goal[n] = IF GoesOn(nextNodes[n][i], key) THEN goal[nextNodes[n][i]] ELSE n
    BY <1>3, <1>6
  <2> QED
    BY <2>1, <2>2, Zenon
<1>8. along = [n \in nodes |-> IF GoesOn(nextNodes[n][i], key) THEN along[nextNodes[n][i]] ELSE n]
  BY <1>7, Zenon
<1> HIDE DEF along
<1>9. \A n \in nodes : along[n] = IF GoesOn(next[n], key) THEN along[next[n]] ELSE n
  <2>1. \A n \in nodes : along[n] = IF GoesOn(nextNodes[n][i], key) THEN along[nextNodes[n][i]] ELSE n
    BY <1>8, Zenon
  <2> QED
    BY <1>3, <2>1
<1> DEFINE bad == {n \in nodes : along[n] # goal[n]}
<1>10. bad = {}
  <2> SUFFICES ASSUME bad # {} PROVE FALSE
    OBVIOUS
  <2>1. ASSUME NEW n \in bad PROVE GoesOn(next[n], key) /\ n \in nodes /\ n \in Nat /\ n <= key
    <3>1. n \in nodes /\ along[n] # goal[n]
      OBVIOUS
    <3> HIDE DEF goal
    <3>2. GoesOn(next[n], key)
      BY <1>6, <1>9, <3>1
    <3>3. n < next[n] /\ next[n] < key /\ next[n] \in nodes
      BY <1>3, <3>1, <3>2
    <3>4. n \in Nat /\ next[n] \in Nat
      BY <1>2, <3>1, <3>3
    <3> QED
      BY <1>2, <3>1, <3>2, <3>3, <3>4
  <2>2. bad \in SUBSET Nat
    BY <2>1
  <2>3. PICK n \in bad : \A m \in bad : m <= n
    <3> HIDE DEF bad
    <3> QED
      BY <1>2, <2>1, <2>2, GreatestNat
  <2>4. /\ GoesOn(next[n], key) /\ next[n] \in nodes /\ n < next[n] /\ n \in nodes
        /\ n \in Nat /\ next[n] \in Nat
    <3> HIDE DEF bad, goal
    <3> QED
      BY <1>2, <1>3, <2>1
  <2>5. along[next[n]] = goal[next[n]]
    <3> HIDE DEF goal
    <3> QED
      BY <2>3, <2>4
  <2>6. along[n] = goal[n]
    <3> HIDE DEF goal, bad
    <3> QED
      BY <1>6, <1>9, <2>4, <2>5
  <2> QED
    BY <2>3, <2>6
<1>11. along[from] = goal[from]
  <2> HIDE DEF goal
  <2> QED
    BY <1>2, <1>10
<1>12. goal[from] = last
  <2>1. goal[from] = IF GoesOn(next[from], key) THEN last ELSE from
    BY <1>2
  <2>2. ~GoesOn(next[from], key) => from = last
    BY <1>5 DEF on
  <2> QED
    BY <2>1, <2>2
<1> QED
  BY <1>1, <1>11, <1>12

(* The search leaves each level at the last node before the key.             *)
LEMMA UpdateIs ==
  ASSUME SkipInv, NEW key \in Keys
  PROVE  \A i \in Levels : Before(OnLevel(i), key, Update(key)[i])
<1> DEFINE update[i \in Levels] == Along(IF i = MaxLevel THEN HeadNode ELSE update[i + 1], i, key)
           last(i) == CHOOSE x : Before(OnLevel(i), key, x)
           goal == [i \in Levels |-> last(i)]
<1>1. Update(key) = update
  BY Zenon DEF Update
<1>2. ASSUME NEW i \in Levels PROVE Before(OnLevel(i), key, last(i))
  <2>1. OnLevel(i) \in SUBSET Keys
    BY DEF OnLevel
  <2> QED
    BY <2>1, OneBefore
<1>3. \A i \in Levels : i # MaxLevel => i + 1 \in Levels /\ OnLevel(i + 1) \in SUBSET OnLevel(i)
  BY LevelsNest
<1> HIDE DEF last
<1>4. \A i \in Levels : goal[i] = Along(IF i = MaxLevel THEN HeadNode ELSE goal[i + 1], i, key)
  <2> SUFFICES ASSUME NEW i \in Levels
               PROVE  last(i) = Along(IF i = MaxLevel THEN HeadNode ELSE goal[i + 1], i, key)
    OBVIOUS
  <2> DEFINE from == IF i = MaxLevel THEN HeadNode ELSE goal[i + 1]
  <2>1. from \in {HeadNode} \cup OnLevel(i) /\ from < key
    <3>1. CASE i = MaxLevel
      BY <3>1, KeysAreNumbers DEF HeadNode
    <3>2. CASE i # MaxLevel
      BY <1>2, <1>3, <3>2 DEF Before
    <3> QED
      BY <3>1, <3>2
  <2> HIDE DEF from
  <2>2. Along(from, i, key) = last(i)
    BY <1>2, <2>1, AlongIs
  <2> QED
    BY <2>2 DEF from
<1>5. goal = [i \in Levels |-> Along(IF i = MaxLevel THEN HeadNode ELSE goal[i + 1], i, key)]
  <2>1. goal = [i \in Levels |-> goal[i]]
    OBVIOUS
  <2> HIDE DEF goal
  <2> QED
    BY <1>4, <2>1, Zenon
<1>6. update = [i \in Levels |-> Along(IF i = MaxLevel THEN HeadNode ELSE update[i + 1], i, key)]
  BY <1>5, Zenon
<1> HIDE DEF update, goal
<1>7. \A i \in Levels : update[i] = Along(IF i = MaxLevel THEN HeadNode ELSE update[i + 1], i, key)
  BY <1>6, Zenon
<1> DEFINE bad == {i \in Levels : update[i] # goal[i]}
<1>8. bad = {}
  <2> SUFFICES ASSUME bad # {} PROVE FALSE
    OBVIOUS
  <2>1. bad \in SUBSET Nat /\ \A i \in bad : i <= MaxLevel
    BY SkipAssumption DEF Levels
  <2>2. PICK i \in bad : \A j \in bad : j <= i
    <3> HIDE DEF bad
    <3> QED
      BY <2>1, SkipAssumption, GreatestNat
  <2>3. i \in Levels /\ i \in Nat /\ update[i] # goal[i] /\ ~(i + 1 <= i)
    BY <2>1
  <2>4. i # MaxLevel => update[i + 1] = goal[i + 1]
    <3>1. i + 1 \in bad => i + 1 <= i
      BY <2>2
    <3> QED
      BY <1>3, <2>3, <3>1
  <2> QED
    BY <1>4, <1>7, <2>3, <2>4
<1> QED
  BY <1>1, <1>2, <1>8 DEF goal

(* find() finds what is there.                                               *)
LEMMA FindIs ==
  ASSUME SkipInv, NEW key \in Keys
  PROVE  FindNode(key) = IF key \in OnLevel(1) THEN key ELSE Null
<1> DEFINE last == Update(key)[1]
           n == nextNodes[last][1]
           on == OnLevel(1)
<1>1. 1 \in Levels /\ on \in SUBSET Keys
  BY SkipAssumption DEF Levels, OnLevel
<1>2. Before(on, key, last)
  BY <1>1, UpdateIs
<1>3. FindNode(key) = IF n = key THEN n ELSE Null
  BY DEF FindNode
<1>4. Behind(on, last, n)
  BY <1>1, <1>2 DEF Before, SkipInv
<1>5. n = key <=> key \in on
  <2> HIDE DEF last, n, on
  <2>1. key # Null /\ key \in Nat /\ last \in Nat /\ last < key /\ \A k \in on : k \in Nat /\ k # Null
    BY <1>1, <1>2, KeysAreNumbers DEF Before, HeadNode, Null
  <2>2. ASSUME n = key PROVE key \in on
    BY <1>4, <2>1, <2>2 DEF Behind
  <2>3. ASSUME key \in on PROVE n = key
    <3>1. n \in on /\ last < n /\ n <= key
      BY <1>4, <2>1, <2>3 DEF Behind
    <3>2. n < key => n <= last
      BY <1>2, <3>1 DEF Before
    <3> QED
      BY <2>1, <3>1, <3>2
  <2> QED
    BY <2>2, <2>3
<1> QED
  BY <1>3, <1>5

(* A node that is put behind the last one before it is in order, and so are  *)
(* the others when it is taken out.                                          *)
LEMMA PutBehind ==
  ASSUME NEW on \in SUBSET Keys, NEW key \in Keys \ on, NEW last, Before(on, key, last),
         NEW n \in {HeadNode} \cup on, NEW x, Behind(on, n, x)
  PROVE  /\ n = last => Behind(on \cup {key}, key, x) /\ Behind(on \cup {key}, last, key)
         /\ n # last => Behind(on \cup {key}, n, x)
<1>1. /\ key \in Nat /\ n \in Nat /\ last \in Nat /\ 0 <= n /\ last < key
      /\ \A k \in on : k \in Nat /\ k # Null
  BY KeysAreNumbers DEF HeadNode, Null, Before
<1>2. \A k \in on : (k < key => k <= last) /\ (key < k \/ k < key)
  BY <1>1 DEF Before
<1>3. last = 0 \/ last \in on
  BY DEF Before, HeadNode
<1>4. CASE x = Null /\ \A k \in on : k <= n
  <2>1. ASSUME n = last PROVE Behind(on \cup {key}, key, x) /\ Behind(on \cup {key}, last, key)
    <3>1. \A k \in on : k <= last
      BY <1>4, <2>1
    <3>2. \A k \in on \cup {key} : k <= key
      BY <1>1, <3>1
    <3>3. \A k \in on \cup {key} : last < k => key <= k
      BY <1>1, <3>1
    <3> QED
      BY <1>1, <1>4, <3>2, <3>3 DEF Behind
  <2>2. ASSUME n # last PROVE Behind(on \cup {key}, n, x)
    <3>1. last < n /\ n \in on
      BY <1>1, <1>3, <1>4, <2>2 DEF HeadNode
    <3>2. key <= n
      BY <1>1, <1>2, <3>1
    <3> QED
      BY <1>4, <3>2 DEF Behind
  <2> QED
    BY <2>1, <2>2
<1>5. CASE x \in on /\ n < x /\ \A k \in on : n < k => x <= k
  <2>1. x \in Nat
    BY <1>1, <1>5
  <2>2. ASSUME n = last PROVE Behind(on \cup {key}, key, x) /\ Behind(on \cup {key}, last, key)
    <3>1. key < x
      BY <1>1, <1>2, <1>5, <2>1, <2>2
    <3>2. \A k \in on : key < k => x <= k
      BY <1>1, <1>5, <2>2
    <3>3. \A k \in on : last < k => key <= k
      BY <1>1, <1>2
    <3> QED
      BY <1>1, <1>5, <3>1, <3>2, <3>3 DEF Behind
  <2>3. ASSUME n # last, n < key PROVE x <= key
    <3>1. n < last
      BY <1>1, <1>2, <2>3 DEF HeadNode
    <3>2. x <= last
      BY <1>1, <1>3, <1>5, <3>1
    <3> QED
      BY <1>1, <2>1, <3>2
  <2> QED
    BY <1>1, <1>5, <2>2, <2>3 DEF Behind
<1> QED
  BY <1>4, <1>5 DEF Behind

(* Who follows whom when a key is taken out of a level.                      *)
LEMMA TakenOut ==
  ASSUME NEW on \in SUBSET Keys, NEW key \in on, NEW last, Before(on, key, last),
         NEW n \in {HeadNode} \cup on, NEW x, Behind(on, n, x)
  PROVE  /\ n = key => Behind(on \ {key}, last, x)
         /\ n # key /\ n # last => Behind(on \ {key}, n, x)
<1>1. /\ key \in Nat /\ n \in Nat /\ last \in Nat /\ 0 <= n /\ last < key
      /\ \A k \in on : k \in Nat /\ k # Null
  BY KeysAreNumbers DEF HeadNode, Null, Before
<1>2. \A k \in on : k < key => k <= last
  BY DEF Before
<1>3. last = 0 \/ last \in on
  BY DEF Before, HeadNode
<1>4. CASE x = Null /\ \A k \in on : k <= n
  <2>1. ASSUME n = key PROVE \A k \in on \ {key} : k <= last
    BY <1>1, <1>2, <1>4, <2>1
  <2> QED
    BY <1>4, <2>1 DEF Behind
<1>5. CASE x \in on /\ n < x /\ \A k \in on : n < k => x <= k
  <2>1. x \in Nat
    BY <1>1, <1>5
  <2>2. ASSUME n = key PROVE Behind(on \ {key}, last, x)
    <3>1. \A k \in on \ {key} : last < k => x <= k
      BY <1>1, <1>2, <1>5, <2>2
    <3> QED
      BY <1>1, <1>5, <2>1, <2>2, <3>1 DEF Behind
  <2>3. ASSUME n # key, n # last PROVE x # key
    <3>1. SUFFICES ASSUME x = key PROVE FALSE
      OBVIOUS
    <3>2. n <= last
      <4>1. n = 0 \/ n \in on
        BY DEF HeadNode
      <4> QED
        BY <1>1, <1>2, <1>5, <3>1, <4>1
    <3>3. n < last /\ last \in on
      BY <1>1, <1>3, <2>3, <3>2
    <3> QED
      BY <1>1, <1>5, <3>1, <3>3
  <2> QED
    BY <1>5, <2>2, <2>3 DEF Behind
<1> QED
  BY <1>4, <1>5 DEF Behind

(* An empty skip list satisfies the invariant.                               *)
LEMMA SkipStarts == ASSUME SkipInit PROVE SkipInv
<1>1. /\ nextNodes = [n \in {HeadNode} \cup Keys |-> [i \in Levels |-> Null]]
      /\ level = [k \in Keys |-> 0] /\ 0 \in 0 .. MaxLevel
      /\ nodeNum = 0 /\ stored = {} /\ skipUB = FALSE
  BY SkipAssumption DEF SkipInit
<1>2. \A i \in Levels : OnLevel(i) = {}
  BY <1>1, SkipAssumption DEF OnLevel, Levels
<1>3. val \in [Keys -> Vals]
  <2>1. (CHOOSE v \in Vals : TRUE) \in Vals
    BY SkipAssumption
  <2> QED
    BY <2>1 DEF SkipInit
<1>4. nextNodes \in [{HeadNode} \cup Keys -> [Levels -> Keys \cup {Null}]]
  BY <1>1
<1>5. SkipTypeOK
  BY <1>1, <1>3, <1>4 DEF SkipTypeOK
<1>6. \A i \in Levels : /\ \A n \in {HeadNode} \cup OnLevel(i) : Behind(OnLevel(i), n, nextNodes[n][i])
                        /\ \A n \in Keys \ OnLevel(i) : nextNodes[n][i] = Null
  BY <1>1, <1>2 DEF Behind
<1>7. 1 \in Levels
  BY SkipAssumption DEF Levels
<1> QED
  BY <1>1, <1>2, <1>5, <1>6, <1>7, FS_EmptySet DEF SkipInv

(* insert() links a new key on each of its levels.                           *)
LEMMA SkipInsertKeeps ==
  ASSUME SkipInv, NEW key \in Keys, NEW v \in Vals, NEW lvl \in 1 .. MaxLevel, FindNode(key) = Null,
         nextNodes' = Linked(key, lvl), level' = [level EXCEPT ![key] = lvl],
         val' = [val EXCEPT ![key] = v], nodeNum' = nodeNum + 1,
         stored' = stored \cup {<<key, v>>}, skipUB' = skipUB
  PROVE  SkipInv'
<1>1. key \notin OnLevel(1) /\ key # Null /\ key # HeadNode
  BY FindIs, KeysAreNumbers DEF Null, HeadNode
<1>2. \A i \in Levels : OnLevel(i) \in SUBSET OnLevel(1) /\ key \notin OnLevel(i) /\ i \in Nat
  BY <1>1, LevelsNest
<1>3. \A i \in Levels : OnLevel(i)' = IF i <= lvl THEN OnLevel(i) \cup {key} ELSE OnLevel(i)
  BY <1>2 DEF OnLevel, SkipInv, SkipTypeOK
<1>4. \A i \in Levels : Before(OnLevel(i), key, Update(key)[i])
  BY UpdateIs
<1> DEFINE update == Update(key)
<1>5. ASSUME NEW n \in {HeadNode} \cup Keys, NEW i \in Levels
      PROVE  nextNodes'[n][i] = IF i > lvl THEN nextNodes[n][i]
                                ELSE IF n = key THEN nextNodes[update[i]][i]
                                ELSE IF n = update[i] THEN key
                                ELSE nextNodes[n][i]
  BY DEF Linked
<1> HIDE DEF update
<1>6. ASSUME NEW i \in Levels
      PROVE  /\ \A n \in {HeadNode} \cup OnLevel(i)' : Behind(OnLevel(i)', n, nextNodes'[n][i])
             /\ \A n \in Keys \ OnLevel(i)' : nextNodes'[n][i] = Null
  <2> DEFINE on == OnLevel(i)
             last == update[i]
  <2>1. /\ on \in SUBSET Keys /\ last \in {HeadNode} \cup on /\ key \in Keys \ on
        /\ Before(on, key, last)
    <3>1. on \in SUBSET Keys /\ key \notin on
      BY <1>2, LevelsNest
    <3>2. Before(on, key, last)
      BY <1>4 DEF update
    <3> QED
      BY <3>1, <3>2 DEF Before
  <2>2. /\ \A n \in {HeadNode} \cup on : Behind(on, n, nextNodes[n][i])
        /\ \A n \in Keys \ on : nextNodes[n][i] = Null
    BY DEF SkipInv
  <2>3. HeadNode \in Nat /\ key \in Nat /\ \A k \in on : k \in Nat
    BY <2>1, KeysAreNumbers DEF HeadNode
  <2> HIDE DEF on
  <2>4. CASE i > lvl
    <3>1. OnLevel(i)' = on /\ \A n \in {HeadNode} \cup Keys : nextNodes'[n][i] = nextNodes[n][i]
      BY <1>2, <1>3, <1>5, <2>4 DEF on
    <3> QED
      BY <2>1, <2>2, <3>1
  <2>5. CASE ~(i > lvl)
    <3> DEFINE now == on \cup {key}
    <3>1. OnLevel(i)' = now
      BY <1>2, <1>3, <2>5 DEF on
    <3>2. ASSUME NEW n \in {HeadNode} \cup Keys
          PROVE  nextNodes'[n][i] = IF n = key THEN nextNodes[last][i] ELSE IF n = last THEN key
                                    ELSE nextNodes[n][i]
      BY <1>2, <1>5, <2>5
    <3> HIDE DEF last
    <3>3. ASSUME NEW n \in Keys \ now PROVE nextNodes'[n][i] = Null
      <4>1. n # key /\ n # last /\ n \notin on
        BY <2>1, <2>3, KeysAreNumbers DEF HeadNode
      <4> QED
        BY <2>2, <3>2, <4>1
    <3>4. ASSUME NEW n \in {HeadNode} \cup now PROVE Behind(now, n, nextNodes'[n][i])
      <4>1. CASE n = key
        <5>1. Behind(on, last, nextNodes[last][i]) /\ nextNodes'[n][i] = nextNodes[last][i]
          BY <2>1, <2>2, <3>2, <4>1
        <5> QED
          BY <2>1, <4>1, <5>1, PutBehind
      <4>2. CASE n # key
        <5>1. n \in {HeadNode} \cup on /\ n \in {HeadNode} \cup Keys /\ Behind(on, n, nextNodes[n][i])
          BY <2>1, <2>2, <4>2
        <5>2. nextNodes'[n][i] = IF n = last THEN key ELSE nextNodes[n][i]
          BY <3>2, <4>2, <5>1
        <5> DEFINE x == nextNodes[n][i]
        <5>3. Behind(on, n, x)
          BY <5>1
        <5> HIDE DEF x
        <5>4. /\ n = last => Behind(now, last, key)
              /\ n # last => Behind(now, n, x)
          BY <2>1, <5>1, <5>3, PutBehind
        <5> QED
          BY <5>2, <5>4 DEF x
      <4> QED
        BY <4>1, <4>2
    <3> QED
      BY <3>1, <3>3, <3>4
  <2> QED
    BY <2>4, <2>5
<1>7. SkipTypeOK'
  <2>1. nextNodes' \in [{HeadNode} \cup Keys -> [Levels -> Keys \cup {Null}]]
    <3>1. \A i \in Levels : Update(key)[i] \in {HeadNode} \cup Keys
      BY <1>4 DEF Before, OnLevel
    <3> QED
      BY <3>1 DEF Linked, SkipInv, SkipTypeOK
  <2>2. level' \in [Keys -> 0 .. MaxLevel] /\ val' \in [Keys -> Vals] /\ nodeNum' \in Nat
        /\ skipUB' \in BOOLEAN /\ stored' \subseteq Keys \X Vals
    BY SkipAssumption DEF SkipInv, SkipTypeOK
  <2> QED
    BY <2>1, <2>2 DEF SkipTypeOK
<1>8. stored' = {<<k, val'[k]>> : k \in OnLevel(1)'}
  <2>1. 1 \in Levels /\ 1 <= lvl
    BY SkipAssumption DEF Levels
  <2>2. OnLevel(1)' = OnLevel(1) \cup {key} /\ OnLevel(1) \in SUBSET Keys
    BY <1>3, <2>1 DEF OnLevel
  <2>3. val'[key] = v /\ \A k \in OnLevel(1) : val'[k] = val[k]
    BY <1>1, <2>2 DEF SkipInv, SkipTypeOK
  <2>4. stored = {<<k, val[k]>> : k \in OnLevel(1)}
    BY DEF SkipInv
  <2> QED
    BY <2>2, <2>3, <2>4
<1>9. IsFiniteSet(stored') /\ nodeNum' = Cardinality(stored')
  <2>1. <<key, v>> \notin stored
    BY <1>1 DEF SkipInv
  <2> QED
    BY <2>1, FS_AddElement DEF SkipInv
<1> QED
  BY <1>6, <1>7, <1>8, <1>9 DEF SkipInv

(* erase() unlinks a key on each of its levels.                              *)
LEMMA SkipEraseKeeps ==
  ASSUME SkipInv, NEW key \in Keys, SkipErase(key)
  PROVE  SkipInv'
<1>1. key \in OnLevel(1) /\ key # HeadNode
  BY FindIs, KeysAreNumbers DEF SkipErase, HeadNode
<1>2. \A i \in Levels : /\ OnLevel(i) \in SUBSET Keys /\ i \in Nat
                        /\ key \in OnLevel(i) <=> ~(i > level[key])
  <2>1. level[key] \in Nat
    BY DEF SkipInv, SkipTypeOK
  <2>2. \A i \in Levels : OnLevel(i) \in SUBSET Keys /\ i \in Nat
    BY LevelsNest
  <2>3. \A i \in Levels : key \in OnLevel(i) <=> level[key] >= i
    BY DEF OnLevel
  <2> QED
    BY <2>1, <2>2, <2>3
<1>3. \A i \in Levels : OnLevel(i)' = OnLevel(i) \ {key}
  <2>1. /\ \A i \in Levels : i \in Nat /\ i >= 1
        /\ level \in [Keys -> 0 .. MaxLevel] /\ level' = [level EXCEPT ![key] = 0]
    BY LevelsNest DEF SkipErase, SkipInv, SkipTypeOK
  <2> QED
    BY <2>1 DEF OnLevel
<1>4. \A i \in Levels : Before(OnLevel(i), key, Update(key)[i])
  BY UpdateIs
<1> DEFINE update == Update(key)
<1>5. ASSUME NEW n \in {HeadNode} \cup Keys, NEW i \in Levels
      PROVE  nextNodes'[n][i] = IF i > level[key] THEN nextNodes[n][i]
                                ELSE IF n = key THEN Null
                                ELSE IF n = update[i] THEN nextNodes[key][i]
                                ELSE nextNodes[n][i]
  BY DEF SkipErase, Unlinked
<1> HIDE DEF update
<1>6. ASSUME NEW i \in Levels
      PROVE  /\ \A n \in {HeadNode} \cup OnLevel(i)' : Behind(OnLevel(i)', n, nextNodes'[n][i])
             /\ \A n \in Keys \ OnLevel(i)' : nextNodes'[n][i] = Null
  <2> DEFINE on == OnLevel(i)
             last == update[i]
             now == on \ {key}
  <2>1. /\ on \in SUBSET Keys /\ last \in {HeadNode} \cup on /\ Before(on, key, last)
    <3>1. Before(on, key, last)
      BY <1>4 DEF update
    <3> QED
      BY <1>2, <3>1 DEF Before
  <2>2. /\ \A n \in {HeadNode} \cup on : Behind(on, n, nextNodes[n][i])
        /\ \A n \in Keys \ on : nextNodes[n][i] = Null
    BY DEF SkipInv
  <2>3. OnLevel(i)' = now /\ (key \in on <=> ~(i > level[key]))
    BY <1>2, <1>3
  <2> HIDE DEF on
  <2>4. CASE i > level[key]
    <3>1. now = on /\ \A n \in {HeadNode} \cup Keys : nextNodes'[n][i] = nextNodes[n][i]
      BY <1>5, <2>3, <2>4
    <3> QED
      BY <2>1, <2>2, <2>3, <3>1
  <2>5. CASE ~(i > level[key])
    <3>1. ASSUME NEW n \in {HeadNode} \cup Keys
          PROVE  nextNodes'[n][i] = IF n = key THEN Null ELSE IF n = last THEN nextNodes[key][i]
                                    ELSE nextNodes[n][i]
      BY <1>5, <2>5
    <3>2. key \in on
      BY <2>3, <2>5
    <3>3. last # key
      BY <3>2, <2>1, KeysAreNumbers DEF Before
    <3> HIDE DEF last
    <3>4. ASSUME NEW n \in Keys \ now PROVE nextNodes'[n][i] = Null
      <4>1. CASE n = key
        BY <3>1, <4>1
      <4>2. CASE n # key
        <5>1. n \notin on /\ n # last
          BY <2>1, <4>2, KeysAreNumbers DEF HeadNode
        <5> QED
          BY <2>2, <3>1, <4>2, <5>1
      <4> QED
        BY <4>1, <4>2
    <3>5. ASSUME NEW n \in {HeadNode} \cup now PROVE Behind(now, n, nextNodes'[n][i])
      <4>1. n # key /\ n \in {HeadNode} \cup on /\ n \in {HeadNode} \cup Keys
        BY <1>1, <2>1
      <4>2. CASE n = last
        <5>1. Behind(on, key, nextNodes[key][i]) /\ nextNodes'[n][i] = nextNodes[key][i]
          BY <2>2, <3>1, <3>2, <4>1, <4>2
        <5> QED
          BY <2>1, <3>2, <4>2, <5>1, TakenOut
      <4>3. CASE n # last
        <5>1. Behind(on, n, nextNodes[n][i]) /\ nextNodes'[n][i] = nextNodes[n][i]
          BY <2>2, <3>1, <4>1, <4>3
        <5> QED
          BY <2>1, <3>2, <4>1, <4>3, <5>1, TakenOut
      <4> QED
        BY <4>2, <4>3
    <3> QED
      BY <2>3, <3>4, <3>5
  <2> QED
    BY <2>4, <2>5
<1> DEFINE pair == <<key, val[key]>>
<1>7. /\ stored = {<<k, val[k]>> : k \in OnLevel(1)} /\ pair \in stored
      /\ stored' = stored \ {pair} /\ val' = val
  BY <1>1 DEF SkipErase, SkipInv
<1>8. stored' = {<<k, val'[k]>> : k \in OnLevel(1)'}
  <2>1. OnLevel(1)' = OnLevel(1) \ {key}
    BY <1>3, SkipAssumption DEF Levels
  <2> QED
    BY <1>7, <2>1
<1>9. IsFiniteSet(stored') /\ nodeNum' = Cardinality(stored')
  BY <1>7, FS_RemoveElement DEF SkipInv, SkipErase
<1>10. SkipTypeOK'
  <2>1. nextNodes' \in [{HeadNode} \cup Keys -> [Levels -> Keys \cup {Null}]]
    BY DEF SkipErase, Unlinked, SkipInv, SkipTypeOK
  <2>2. level' \in [Keys -> 0 .. MaxLevel]
    BY SkipAssumption DEF SkipErase, SkipInv, SkipTypeOK
  <2>3. nodeNum' \in Nat
    BY <1>9, FS_CardinalityType
  <2>4. stored' \subseteq Keys \X Vals /\ val' \in [Keys -> Vals] /\ skipUB' \in BOOLEAN
    BY <1>7 DEF SkipErase, SkipInv, SkipTypeOK
  <2> QED
    BY <2>1, <2>2, <2>3, <2>4 DEF SkipTypeOK
<1> QED
  BY <1>6, <1>8, <1>9, <1>10 DEF SkipInv

(* operator[] changes the value of a key that is there.                      *)
LEMMA SkipAssignKeeps ==
  ASSUME SkipInv, NEW key \in Keys, NEW v \in Vals, SkipAssign(key, v)
  PROVE  SkipInv'
<1>1. key \in OnLevel(1) /\ OnLevel(1) \in SUBSET Keys
  BY FindIs, LevelsNest, SkipAssumption DEF SkipAssign, Levels, OnLevel
<1>2. nextNodes' = nextNodes /\ level' = level /\ nodeNum' = nodeNum /\ skipUB' = skipUB
  BY DEF SkipAssign
<1>3. \A i \in Levels : OnLevel(i)' = OnLevel(i)
  BY <1>2 DEF OnLevel
<1>4. OnLevel(1)' = OnLevel(1)
  BY <1>2 DEF OnLevel
<1> DEFINE pair == <<key, val[key]>>
           rest == stored \ {pair}
<1>5. /\ stored = {<<k, val[k]>> : k \in OnLevel(1)} /\ pair \in stored
      /\ stored' = rest \cup {<<key, v>>} /\ <<key, v>> \notin rest
  BY <1>1 DEF SkipAssign, SkipInv
<1>6. val' \in [Keys -> Vals] /\ val'[key] = v /\ \A k \in Keys : k # key => val'[k] = val[k]
  BY DEF SkipAssign, SkipInv, SkipTypeOK
<1>7. stored' = {<<k, val'[k]>> : k \in OnLevel(1)'}
  BY <1>1, <1>4, <1>5, <1>6
<1>8. IsFiniteSet(stored') /\ Cardinality(stored') = Cardinality(stored)
  <2>1. IsFiniteSet(stored) /\ Cardinality(stored) \in Nat
    BY FS_CardinalityType DEF SkipInv
  <2>2. IsFiniteSet(rest) /\ Cardinality(rest) = Cardinality(stored) - 1
    BY <1>5, <2>1, FS_RemoveElement
  <2> HIDE DEF rest
  <2>3. IsFiniteSet(stored') /\ Cardinality(stored') = Cardinality(rest) + 1
    BY <1>5, <2>2, FS_AddElement
  <2> QED
    BY <2>1, <2>2, <2>3
<1>9. SkipTypeOK'
  <2>1. stored' \subseteq Keys \X Vals
    BY <1>5 DEF SkipInv, SkipTypeOK
  <2> QED
    BY <1>2, <1>6, <2>1 DEF SkipInv, SkipTypeOK
<1> QED
  BY <1>2, <1>3, <1>7, <1>8, <1>9 DEF SkipInv

(* Every call keeps the invariant.                                           *)
LEMMA SkipKept == ASSUME SkipInv, [SkipNext]_skipVars PROVE SkipInv'
<1>1. CASE UNCHANGED skipVars
  BY <1>1 DEF skipVars, SkipInv, SkipTypeOK, OnLevel
<1>2. ASSUME NEW key \in Keys, NEW v \in Vals, NEW lvl \in 1 .. MaxLevel + 1, SkipInsert(key, v, lvl)
      PROVE  SkipInv'
  <2>1. CASE lvl <= MaxLevel /\ nextNodes' = Linked(key, lvl)
             /\ level' = [level EXCEPT ![key] = lvl] /\ val' = [val EXCEPT ![key] = v]
             /\ nodeNum' = nodeNum + 1 /\ stored' = stored \cup {<<key, v>>} /\ UNCHANGED skipUB
    <3>1. lvl \in 1 .. MaxLevel /\ FindNode(key) = Null
      BY <1>2, <2>1, SkipAssumption DEF SkipInsert
    <3> QED
      BY <2>1, <3>1, SkipInsertKeeps
  <2>2. CASE skipUB' = TRUE /\ UNCHANGED <<nextNodes, level, val, nodeNum, stored>>
    BY <2>2 DEF SkipInv, SkipTypeOK, OnLevel
  <2> QED
    BY <1>2, <2>1, <2>2 DEF SkipInsert
<1> QED
  BY <1>1, <1>2, SkipEraseKeeps, SkipAssignKeeps DEF SkipNext

(* With the invariant the skip list is a map.                                *)
LEMMA SkipIsCorrect == ASSUME SkipInv PROVE SkipCorrect
<1>1. LevelsLinked
  <2> SUFFICES ASSUME NEW i \in Levels, NEW n \in {HeadNode} \cup OnLevel(i)
               PROVE  nextNodes[n][i] = IF \A k \in OnLevel(i) : k <= n THEN Null
                        ELSE CHOOSE k \in OnLevel(i) : k > n /\ \A m \in OnLevel(i) : m > n => k <= m
    BY Zenon DEF LevelsLinked, OnLevel
  <2> DEFINE on == OnLevel(i)
             x == nextNodes[n][i]
  <2>1. Behind(on, n, x) /\ n \in Nat /\ \A k \in on : k \in Nat
    BY LevelsNest, KeysAreNumbers DEF SkipInv, HeadNode
  <2> HIDE DEF on, x
  <2>2. CASE \A k \in on : k <= n
    BY <2>1, <2>2 DEF Behind, on, x
  <2>3. CASE ~ \A k \in on : k <= n
    <3>1. x \in on /\ x > n /\ \A m \in on : m > n => x <= m
      BY <2>1, <2>3 DEF Behind
    <3>2. ASSUME NEW k \in on, k > n, \A m \in on : m > n => k <= m PROVE k = x
      BY <2>1, <3>1, <3>2
    <3>3. x = CHOOSE k \in on : k > n /\ \A m \in on : m > n => k <= m
      BY <3>1, <3>2
    <3> QED
      BY <2>3, <3>3 DEF on, x
  <2> QED
    BY <2>2, <2>3
<1>2. FindsStored
  <2>1. OnLevel(1) \in SUBSET Keys /\ stored = {<<k, val[k]>> : k \in OnLevel(1)}
    BY DEF SkipInv, OnLevel
  <2>2. ASSUME NEW k \in Keys
        PROVE  IF FindNode(k) = Null THEN \A v \in Vals : <<k, v>> \notin stored
                                     ELSE <<k, val[k]>> \in stored
    <3>1. FindNode(k) = Null <=> k \notin OnLevel(1)
      BY FindIs, KeysAreNumbers DEF Null
    <3> QED
      BY <2>1, <3>1
  <2> QED
    BY <2>2 DEF FindsStored, SkipInv
<1> QED
  BY <1>1, <1>2 DEF SkipCorrect, SkipInv

(* A skip list is a map whose levels are in order, for any keys and levels.  *)
THEOREM SkipListIsAMap == SkipSpec => []SkipCorrect
<1>1. SkipSpec => []SkipInv
  BY SkipStarts, SkipKept, PTL DEF SkipSpec
<1> QED
  BY <1>1, SkipIsCorrect, PTL

-----------------------------------------------------------------------------
(* Heaps: loops that sift, and what they leave of the order.                 *)

Runs(g, n, x, step) == g = [i \in 0 .. n |-> IF i = 0 THEN x ELSE step[i][g[i - 1]]]

(* The states of a loop of n iterations are there, and what each iteration   *)
(* makes of the states it may begin with holds of those it leads to.         *)
LEMMA Looped ==
  ASSUME NEW n \in Nat, NEW S, NEW x \in S[0], NEW step,
         \A i \in 1 .. n : \A s \in S[i - 1] : step[i][s] \in S[i]
  PROVE  \E g : Runs(g, n, x, step) /\ \A i \in 0 .. n : g[i] \in S[i]
<1> DEFINE Fits(m, g) == Runs(g, m, x, step) /\ \A i \in 0 .. m : g[i] \in S[i]
           bad == {m \in 0 .. n : ~ \E g : Fits(m, g)}
<1>1. SUFFICES ASSUME bad # {} PROVE FALSE
  <2>1. n \in 0 .. n
    OBVIOUS
  <2> QED
    BY <2>1
<1>2. PICK m \in bad : \A j \in bad : m <= j
  <2>1. bad \in SUBSET Nat
    OBVIOUS
  <2> HIDE DEF bad
  <2> QED
    BY <1>1, <2>1, SmallestNat
<1>3. m \in 0 .. n /\ ~ \E g : Fits(m, g)
  OBVIOUS
<1>4. m # 0
  <2> DEFINE g == [i \in 0 .. 0 |-> x]
  <2>1. g = [i \in 0 .. 0 |-> IF i = 0 THEN x ELSE step[i][g[i - 1]]]
    OBVIOUS
  <2>2. \A i \in 0 .. 0 : g[i] \in S[i]
    OBVIOUS
  <2>3. Fits(0, g)
    BY <2>1, <2>2, Zenon DEF Runs
  <2> HIDE DEF Fits, g
  <2> QED
    BY <1>3, <2>3
<1>5. m - 1 \in 0 .. n /\ m \in 1 .. n /\ ~(m <= m - 1)
  BY <1>3, <1>4
<1>6. PICK g : Fits(m - 1, g)
  <2> HIDE DEF Fits
  <2> QED
    BY <1>2, <1>5
<1> DEFINE h == [i \in 0 .. m |-> IF i = m THEN step[m][g[m - 1]] ELSE g[i]]
<1>7. /\ \A i \in 0 .. m - 1 : g[i] = IF i = 0 THEN x ELSE step[i][g[i - 1]]
      /\ \A i \in 0 .. m - 1 : g[i] \in S[i]
  <2>1. g = [i \in 0 .. m - 1 |-> IF i = 0 THEN x ELSE step[i][g[i - 1]]]
    BY <1>6, Zenon DEF Runs
  <2>2. \A i \in 0 .. m - 1 : g[i] \in S[i]
    BY <1>6, Zenon
  <2>3. \A i \in 0 .. m - 1 : g[i] = IF i = 0 THEN x ELSE step[i][g[i - 1]]
    BY <2>1, Zenon
  <2> QED
    BY <2>2, <2>3
<1>8. \A i \in 0 .. m : h[i] = IF i = 0 THEN x ELSE step[i][h[i - 1]]
  <2> SUFFICES ASSUME NEW i \in 0 .. m PROVE h[i] = IF i = 0 THEN x ELSE step[i][h[i - 1]]
    OBVIOUS
  <2>1. CASE i = m
    <3>1. h[i] = step[m][g[m - 1]] /\ i # 0 /\ h[i - 1] = g[m - 1]
      BY <1>4, <1>5, <2>1
    <3> QED
      BY <2>1, <3>1
  <2>2. CASE i # m
    <3>1. i \in 0 .. m - 1 /\ h[i] = g[i]
      BY <1>5, <2>2
    <3>2. i # 0 => h[i - 1] = g[i - 1]
      BY <1>5, <3>1
    <3> QED
      BY <1>7, <3>1, <3>2
  <2> QED
    BY <2>1, <2>2
<1>9. \A i \in 0 .. m : h[i] \in S[i]
  <2> SUFFICES ASSUME NEW i \in 0 .. m PROVE h[i] \in S[i]
    OBVIOUS
  <2>1. CASE i = m
    <3>1. h[i] = step[m][g[m - 1]] /\ g[m - 1] \in S[m - 1]
      BY <1>5, <1>7, <2>1
    <3> QED
      BY <1>5, <2>1, <3>1
  <2>2. CASE i # m
    <3>1. i \in 0 .. m - 1 /\ h[i] = g[i]
      BY <1>5, <2>2
    <3> QED
      BY <1>7, <3>1
  <2> QED
    BY <2>1, <2>2
<1>10. h = [i \in 0 .. m |-> IF i = 0 THEN x ELSE step[i][h[i - 1]]]
  <2>1. h = [i \in 0 .. m |-> h[i]]
    OBVIOUS
  <2> HIDE DEF h
  <2> QED
    BY <1>8, <2>1, Zenon
<1>11. Fits(m, h)
  <2> HIDE DEF h
  <2> QED
    BY <1>9, <1>10, Zenon DEF Runs
<1> HIDE DEF Fits, h
<1> QED
  BY <1>3, <1>11

(* The invariant of a loop *)
LEMMA LoopKeeps ==
  ASSUME NEW n \in Nat, NEW S, NEW g, g[0] \in S[0],
         \A i \in 1 .. n : g[i - 1] \in S[i - 1] => g[i] \in S[i]
  PROVE  \A i \in 0 .. n : g[i] \in S[i]
<1> DEFINE bad == {i \in 0 .. n : g[i] \notin S[i]}
<1>1. SUFFICES ASSUME bad # {} PROVE FALSE
  OBVIOUS
<1>2. PICK i \in bad : \A j \in bad : i <= j
  <2>1. bad \in SUBSET Nat
    OBVIOUS
  <2> HIDE DEF bad
  <2> QED
    BY <1>1, <2>1, SmallestNat
<1>3. i \in 1 .. n /\ i - 1 \in 0 .. n /\ ~(i <= i - 1) /\ g[i] \notin S[i]
  OBVIOUS
<1>4. g[i - 1] \in S[i - 1]
  BY <1>2, <1>3
<1> QED
  BY <1>3, <1>4

(* Halves *)
Half(j) == j \div 2

(* A half, rounded down.                                                     *)
LEMMA HalfOf == \A j \in Nat : Half(j) \in Nat /\ 2 * Half(j) <= j /\ j <= 2 * Half(j) + 1
  BY DEF Half

(* The same elements, each as often; the order of a heap that has its least  *)
(* or its greatest on top, from a position on or but for one.                *)
SameBag(d, e) == Len(d) = Len(e) /\ \A v \in HeapValues : Count(d, v) = Count(e, v)
LeastUp(d, a) == \A j \in 2 .. Len(d) : Half(j) >= a => d[Half(j)] <= d[j]
Sinking(d, k, a) ==
  \A j \in 2 .. Len(d) :
     /\ Half(j) >= a /\ Half(j) # k => d[Half(j)] <= d[j]
     /\ Half(j) = k /\ Half(k) >= a => d[Half(k)] <= d[j]
Sinks(d, k) == \E j \in 2 .. Len(d) : Half(j) = k /\ d[k] > d[j]
GreatestUp(d) == \A j \in 2 .. Len(d) : d[Half(j)] >= d[j]
Rising(d, k) ==
  \A j \in 2 .. Len(d) :
     /\ j # k => d[Half(j)] >= d[j]
     /\ Half(j) = k /\ k > 1 => d[Half(k)] >= d[j]
Rises(d, k) == k > 1 /\ d[k] > d[Half(k)]

(* The elements of a heap are numbers.                                       *)
LEMMA HeapSeq ==
  ASSUME NEW d \in Seq(HeapValues)
  PROVE  /\ Len(d) \in Nat /\ d \in [1 .. Len(d) -> HeapValues]
         /\ \A i \in 1 .. Len(d) : d[i] \in HeapValues /\ d[i] \in Int
<1>1. Len(d) \in Nat /\ d \in [1 .. Len(d) -> HeapValues]
  BY LenProperties
<1> QED
  BY <1>1, HeapAssumption

(* Swapping two elements keeps the bag of them.                              *)
LEMMA Swapped ==
  ASSUME NEW d \in Seq(HeapValues), NEW i \in 1 .. Len(d), NEW j \in 1 .. Len(d)
  PROVE  /\ Swap(d, i, j) \in Seq(HeapValues) /\ SameBag(Swap(d, i, j), d)
         /\ \A m \in 1 .. Len(d) : Swap(d, i, j)[m] = IF m = j THEN d[i] ELSE IF m = i THEN d[j] ELSE d[m]
<1> DEFINE e == Swap(d, i, j)
           D == 1 .. Len(d)
<1>1. Len(d) \in Nat /\ d \in [D -> HeapValues]
  BY HeapSeq
<1>2. e \in [D -> HeapValues] /\ \A m \in D : e[m] = IF m = j THEN d[i] ELSE IF m = i THEN d[j] ELSE d[m]
  BY <1>1 DEF Swap
<1> HIDE DEF e
<1>3. e \in Seq(HeapValues) /\ Len(e) = Len(d)
  <2>1. e \in Seq(HeapValues)
    BY <1>1, <1>2, IsASeq
  <2> QED
    BY <1>1, <1>2, <2>1, LenProperties
<1>4. ASSUME NEW v \in HeapValues PROVE Count(e, v) = Count(d, v)
  <2> DEFINE A == {m \in 1 .. Len(d) : d[m] = v}
             B == {m \in 1 .. Len(e) : e[m] = v}
             f == [m \in A |-> IF m = i THEN j ELSE IF m = j THEN i ELSE m]
  <2>1. IsFiniteSet(A)
    <3>1. IsFiniteSet(1 .. Len(d))
      BY <1>1, FS_Interval
    <3> QED
      BY <3>1, FS_Subset
  <2>2. \A m \in A : m \in D /\ d[m] = v
    OBVIOUS
  <2>3. \A m \in B : m \in D /\ e[m] = v
    BY <1>3
  <2>4. f \in [A -> B]
    BY <1>2, <1>3
  <2>5. \A m \in A : f[m] = IF m = i THEN j ELSE IF m = j THEN i ELSE m
    OBVIOUS
  <2>6. ASSUME NEW m \in B PROVE \E l \in A : f[l] = m
    <3>1. m \in D /\ (m = i => j \in A) /\ (m = j => i \in A) /\ (m # i /\ m # j => m \in A)
      BY <1>2, <2>3
    <3> HIDE DEF A, f
    <3> QED
      BY <2>5, <3>1
  <2>7. \A k, l \in A : f[k] = f[l] => k = l
    BY <2>5
  <2> HIDE DEF A, B, f
  <2>8. f \in Bijection(A, B)
    BY <2>4, <2>6, <2>7 DEF Bijection, Injection, Surjection, IsInjective
  <2>9. Cardinality(B) = Cardinality(A)
    BY <2>1, <2>8, FS_Bijection DEF ExistsBijection
  <2> QED
    BY <2>9 DEF Count, A, B
<1> QED
  BY <1>2, <1>3, <1>4 DEF e, SameBag

(* Bags that are one bag after each of two steps are one after both.         *)
LEMMA SameBagTransitive ==
  ASSUME NEW c, NEW d, NEW e, SameBag(c, d), SameBag(d, e) PROVE SameBag(c, e)
  BY DEF SameBag

(* What one iteration does *)
LEMMA SunkOnce ==
  ASSUME NEW d \in Seq(HeapValues), NEW k \in Nat \ {0}, NEW a \in Nat, a <= k, a > 0
  PROVE  \/ SiftDown(<<d, k>>) = <<d, k>> /\ ~Sinks(d, k)
         \/ \E e \in Seq(HeapValues), j \in Nat \ {0} :
              /\ SiftDown(<<d, k>>) = <<e, j>> /\ SameBag(e, d) /\ k < j /\ Sinks(d, k)
              /\ Sinking(d, k, a) => Sinking(e, j, a)
<1> DEFINE j == IF 2 * k < Len(d) /\ d[2 * k] > d[2 * k + 1] THEN 2 * k + 1 ELSE 2 * k
           e == Swap(d, k, j)
           n == Len(d)
<1>1. SiftDown(<<d, k>>) = IF 2 * k <= Len(d) /\ d[k] > d[j] THEN <<e, j>> ELSE <<d, k>>
  BY DEF SiftDown, Comp
<1>2. n \in Nat /\ \A i \in 1 .. n : d[i] \in Int
  BY HeapSeq
<1>3. ASSUME NEW i \in 2 .. n
      PROVE  /\ Half(i) \in 1 .. n /\ Half(i) < i
             /\ Half(i) = k <=> i = 2 * k \/ i = 2 * k + 1
  <2>1. i \in Nat /\ 2 <= i /\ i <= n
    BY <1>2
  <2>2. Half(i) \in Nat /\ 2 * Half(i) <= i /\ i <= 2 * Half(i) + 1
    BY <2>1, HalfOf
  <2> QED
    BY <1>2, <2>1, <2>2
<1>4. CASE ~(2 * k <= n)
  <2>1. ~Sinks(d, k)
    BY <1>2, <1>3, <1>4 DEF Sinks
  <2> QED
    BY <1>1, <1>4, <2>1
<1>5. CASE 2 * k <= n
  <2>1. /\ j \in 2 .. n /\ j \in Nat \ {0} /\ Half(j) = k /\ k < j /\ k \in 1 .. n
        /\ \A i \in 2 .. n : Half(i) = k => d[j] <= d[i]
    <3>1. j \in 2 .. n /\ k < j /\ k \in 1 .. n /\ (j = 2 * k \/ j = 2 * k + 1)
      BY <1>2, <1>5
    <3>2. d[j] <= d[2 * k] /\ (2 * k + 1 <= n => d[j] <= d[2 * k + 1])
      BY <1>2, <1>5
    <3> HIDE DEF j
    <3> QED
      BY <1>2, <1>3, <3>1, <3>2
  <2> HIDE DEF j
  <2>2. CASE ~(d[k] > d[j])
    <3>1. ~Sinks(d, k)
      BY <1>2, <1>3, <2>1, <2>2 DEF Sinks
    <3> QED
      BY <1>1, <2>2, <3>1
  <2>3. CASE d[k] > d[j]
    <3>1. /\ e \in Seq(HeapValues) /\ SameBag(e, d) /\ Len(e) = n
          /\ \A m \in 1 .. n : e[m] = IF m = j THEN d[k] ELSE IF m = k THEN d[j] ELSE d[m]
      BY <2>1, Swapped DEF SameBag
    <3> HIDE DEF e
    <3>2. ASSUME Sinking(d, k, a) PROVE Sinking(e, j, a)
      <4>1. \A i \in 2 .. n :
               /\ Half(i) >= a /\ Half(i) # k => d[Half(i)] <= d[i]
               /\ Half(i) = k /\ Half(k) >= a => d[Half(k)] <= d[i]
        BY <3>2 DEF Sinking
      <4> SUFFICES ASSUME NEW i \in 2 .. n
                   PROVE  /\ Half(i) >= a /\ Half(i) # j => e[Half(i)] <= e[i]
                          /\ Half(i) = j /\ Half(j) >= a => e[Half(j)] <= e[i]
        BY <3>1 DEF Sinking
      <4>2. Half(i) \in 1 .. n /\ i \in 1 .. n /\ Half(i) < i /\ Half(i) \in Nat
        BY <1>2, <1>3
      <4>3. ASSUME Half(i) = j PROVE e[Half(j)] <= e[i]
        <5>1. i # j /\ i # k /\ Half(i) # k
          BY <2>1, <4>2, <4>3
        <5>2. e[i] = d[i] /\ e[k] = d[j] /\ d[j] <= d[i]
          BY <2>1, <3>1, <4>1, <4>2, <4>3, <5>1
        <5> QED
          BY <2>1, <5>2
      <4>4. ASSUME Half(i) >= a, Half(i) # j PROVE e[Half(i)] <= e[i]
        <5>1. CASE i = j
          BY <1>2, <2>1, <2>3, <3>1, <5>1
        <5>2. CASE i # j /\ Half(i) = k
          <6>1. i # k
            BY <4>2, <5>2
          <6> QED
            BY <2>1, <3>1, <4>2, <5>2, <6>1
        <5>3. CASE Half(i) # k /\ i = k
          <6>1. d[Half(k)] <= d[j] /\ Half(k) # j /\ Half(k) # k
            BY <2>1, <4>1, <4>4, <4>2, <5>3
          <6> QED
            BY <2>1, <3>1, <4>2, <5>3, <6>1
        <5>4. CASE i # j /\ Half(i) # k /\ i # k
          <6>1. d[Half(i)] <= d[i]
            BY <4>1, <4>4, <5>4
          <6> QED
            BY <3>1, <4>2, <4>4, <5>4, <6>1
        <5>5. Half(i) = k => i # k
          BY <4>2
        <5> QED
          BY <5>1, <5>2, <5>3, <5>4, <5>5
      <4> QED
        BY <4>3, <4>4
    <3>3. Sinks(d, k)
      BY <2>1, <2>3 DEF Sinks
    <3> QED
      BY <1>1, <1>5, <2>1, <2>3, <3>1, <3>2, <3>3
  <2> QED
    BY <2>2, <2>3
<1> QED
  BY <1>4, <1>5

(* An iteration of adjustUp() moves the one place that is out of order up.   *)
LEMMA RisenOnce ==
  ASSUME NEW d \in Seq(HeapValues), NEW k \in 1 .. Len(d)
  PROVE  \/ SiftUp(<<d, k>>) = <<d, k>> /\ ~Rises(d, k)
         \/ \E e \in Seq(HeapValues), j \in 1 .. Len(d) :
              /\ SiftUp(<<d, k>>) = <<e, j>> /\ SameBag(e, d) /\ j < k /\ Rises(d, k)
              /\ Rising(d, k) => Rising(e, j)
<1> DEFINE j == Half(k)
           e == Swap(d, k, j)
           n == Len(d)
<1>1. SiftUp(<<d, k>>) = IF k > 1 /\ d[k] > d[j] THEN <<e, j>> ELSE <<d, k>>
  BY DEF SiftUp, Comp, Half
<1>2. n \in Nat /\ \A i \in 1 .. n : d[i] \in Int
  BY HeapSeq
<1>3. ASSUME NEW i \in 2 .. n PROVE Half(i) \in 1 .. n /\ Half(i) < i
  <2>1. i \in Nat /\ 2 <= i /\ i <= n
    BY <1>2
  <2>2. Half(i) \in Nat /\ 2 * Half(i) <= i /\ i <= 2 * Half(i) + 1
    BY <2>1, HalfOf
  <2> QED
    BY <1>2, <2>1, <2>2
<1>4. CASE ~(k > 1 /\ d[k] > d[j])
  BY <1>1, <1>4 DEF Rises
<1>5. CASE k > 1 /\ d[k] > d[j]
  <2>1. k \in 2 .. n /\ j \in 1 .. n /\ j < k
    BY <1>2, <1>3, <1>5
  <2> HIDE DEF j
  <2>2. /\ e \in Seq(HeapValues) /\ SameBag(e, d) /\ Len(e) = n
        /\ \A m \in 1 .. n : e[m] = IF m = j THEN d[k] ELSE IF m = k THEN d[j] ELSE d[m]
    BY <2>1, Swapped DEF SameBag
  <2> HIDE DEF e
  <2>3. ASSUME Rising(d, k) PROVE Rising(e, j)
    <3>1. \A i \in 2 .. n : /\ i # k => d[Half(i)] >= d[i]
                            /\ Half(i) = k /\ k > 1 => d[j] >= d[i]
      BY <2>3 DEF Rising, j
    <3> SUFFICES ASSUME NEW i \in 2 .. n
                 PROVE  /\ i # j => e[Half(i)] >= e[i]
                        /\ Half(i) = j /\ j > 1 => e[Half(j)] >= e[i]
      BY <2>2 DEF Rising
    <3>2. Half(i) \in 1 .. n /\ i \in 1 .. n /\ Half(i) < i
      BY <1>3
    <3>3. ASSUME i # j PROVE e[Half(i)] >= e[i]
      <4>1. CASE i = k
        <5>1. e[Half(i)] = d[k] /\ e[i] = d[j]
          BY <2>1, <2>2, <4>1 DEF j
        <5> QED
          BY <1>2, <1>5, <2>1, <5>1
      <4>2. CASE i # k /\ Half(i) = k
        BY <1>5, <2>1, <2>2, <3>1, <3>2, <3>3, <4>2
      <4>3. CASE i # k /\ Half(i) = j
        <5>1. d[j] >= d[i] /\ d[k] > d[j] /\ e[i] = d[i] /\ e[j] = d[k]
          BY <1>5, <2>1, <2>2, <3>1, <3>2, <3>3, <4>3
        <5> QED
          BY <1>2, <2>1, <3>2, <4>3, <5>1
      <4>4. CASE i # k /\ Half(i) # k /\ Half(i) # j
        BY <2>1, <2>2, <3>1, <3>2, <3>3, <4>4
      <4> QED
        BY <4>1, <4>2, <4>3, <4>4
    <3>4. ASSUME Half(i) = j, j > 1 PROVE e[Half(j)] >= e[i]
      <4>1. j \in 2 .. n /\ j # k /\ Half(j) \in 1 .. n /\ Half(j) < j
        BY <1>3, <2>1, <3>4
      <4>2. d[Half(j)] >= d[j] /\ e[Half(j)] = d[Half(j)]
        BY <2>1, <2>2, <3>1, <4>1
      <4>3. CASE i = k
        BY <2>1, <2>2, <4>1, <4>2, <4>3
      <4>4. CASE i # k
        <5>1. d[j] >= d[i] /\ e[i] = d[i] /\ i # j
          BY <2>2, <3>1, <3>2, <3>4, <4>4
        <5> QED
          BY <1>2, <2>1, <3>2, <4>1, <4>2, <5>1
      <4> QED
        BY <4>3, <4>4
    <3> QED
      BY <3>3, <3>4
  <2>4. Rises(d, k)
    BY <1>5 DEF Rises, j
  <2> QED
    BY <1>1, <1>5, <2>1, <2>2, <2>3, <2>4
<1> QED
  BY <1>4, <1>5

(* What the loops do *)
LEMMA Sunk ==
  ASSUME NEW d0 \in Seq(HeapValues), NEW k0 \in Nat \ {0}
  PROVE  /\ AdjustDown(d0, k0) \in Seq(HeapValues) /\ SameBag(AdjustDown(d0, k0), d0)
         /\ LeastUp(d0, k0 + 1) => LeastUp(AdjustDown(d0, k0), k0)
<1> DEFINE n == Len(d0)
           Ok(d, k, i) == /\ SameBag(d, d0) /\ k0 <= k /\ (i < k \/ ~Sinks(d, k))
                          /\ LeastUp(d0, k0 + 1) => Sinking(d, k, k0)
           All == Seq(HeapValues) \X (Nat \ {0})
           S == [i \in 0 .. n |-> {s \in All : Ok(s[1], s[2], i)}]
           step == [i \in 1 .. n |-> [s \in All |-> SiftDown(s)]]
           x == <<d0, k0>>
           after[i \in 0 .. n] == IF i = 0 THEN x ELSE SiftDown(after[i - 1])
<1>1. n \in Nat
  BY HeapSeq
<1>2. x \in S[0]
  <2>1. LeastUp(d0, k0 + 1) => Sinking(d0, k0, k0)
    <3> SUFFICES ASSUME LeastUp(d0, k0 + 1), NEW j \in 2 .. Len(d0)
                 PROVE  /\ Half(j) >= k0 /\ Half(j) # k0 => d0[Half(j)] <= d0[j]
                        /\ ~(Half(k0) >= k0)
      BY DEF Sinking
    <3>1. Half(j) \in Nat /\ Half(k0) \in Nat /\ 2 * Half(k0) <= k0
      <4>1. j \in Nat
        BY <1>1
      <4> QED
        BY <4>1, HalfOf
    <3> QED
      BY <1>1, <3>1 DEF LeastUp
  <2>2. Ok(d0, k0, 0)
    BY <2>1 DEF SameBag
  <2> HIDE DEF Ok
  <2> QED
    BY <1>1, <2>2
<1>4. k0 \in Nat /\ k0 > 0
  OBVIOUS
<1>3. ASSUME NEW i \in 1 .. n, NEW s \in S[i - 1] PROVE step[i][s] \in S[i] /\ step[i][s] = SiftDown(s)
  <2> DEFINE d == s[1]
             k == s[2]
  <2>1. i - 1 \in 0 .. n /\ i \in 0 .. n
    BY <1>1
  <2>2. s \in All /\ Ok(d, k, i - 1)
    BY <2>1
  <2>3. d \in Seq(HeapValues) /\ k \in Nat \ {0} /\ s = <<d, k>> /\ k0 <= k
    BY <2>2
  <2>4. step[i][s] = SiftDown(s)
    BY <2>2
  <2>5. ASSUME SiftDown(<<d, k>>) = <<d, k>>, ~Sinks(d, k) PROVE SiftDown(s) \in S[i]
    <3>1. Ok(d, k, i)
      BY <2>2, <2>5
    <3> HIDE DEF Ok, d, k
    <3> QED
      BY <2>1, <2>2, <2>3, <2>5, <3>1 DEF d, k
  <2>6. ASSUME NEW e \in Seq(HeapValues), NEW j \in Nat \ {0},
               SiftDown(<<d, k>>) = <<e, j>>, SameBag(e, d), k < j, Sinking(d, k, k0) => Sinking(e, j, k0),
               Sinks(d, k)
        PROVE  SiftDown(s) \in S[i]
    <3> HIDE DEF d, k
    <3>1. SameBag(e, d0)
      BY <2>2, <2>6, SameBagTransitive
    <3>2. k0 <= j /\ i < j
      BY <2>1, <2>2, <2>3, <2>6
    <3>3. Ok(e, j, i)
      BY <2>2, <2>6, <3>1, <3>2
    <3>4. <<e, j>> \in All
      BY <2>6
    <3> HIDE DEF Ok
    <3> QED
      BY <2>1, <2>3, <2>6, <3>3, <3>4
  <2> HIDE DEF d, k, Ok, S, step
  <2> QED
    BY <1>4, <2>3, <2>4, <2>5, <2>6, SunkOnce
<1>5. PICK g : Runs(g, n, x, step) /\ \A i \in 0 .. n : g[i] \in S[i]
  <2> HIDE DEF S, step, x, n
  <2>1. \A i \in 1 .. n : \A s \in S[i - 1] : step[i][s] \in S[i]
    BY <1>3
  <2> QED
    BY <1>1, <1>2, <2>1, Looped
<1> HIDE DEF S, step, n
<1>6. g = [i \in 0 .. n |-> IF i = 0 THEN x ELSE SiftDown(g[i - 1])]
  <2>1. \A i \in 0 .. n : g[i] = IF i = 0 THEN x ELSE step[i][g[i - 1]]
    BY <1>5, Zenon DEF Runs
  <2>2. ASSUME NEW i \in 0 .. n, i # 0 PROVE step[i][g[i - 1]] = SiftDown(g[i - 1])
    <3>1. i \in 1 .. n /\ i - 1 \in 0 .. n
      BY <1>1, <2>2
    <3> QED
      BY <1>3, <1>5, <3>1
  <2>3. \A i \in 0 .. n : g[i] = IF i = 0 THEN x ELSE SiftDown(g[i - 1])
    BY <2>1, <2>2
  <2>4. g = [i \in 0 .. n |-> g[i]]
    BY <1>5, Zenon DEF Runs
  <2> QED
    BY <2>3, <2>4, Zenon
<1>7. after = [i \in 0 .. n |-> IF i = 0 THEN x ELSE SiftDown(after[i - 1])]
  BY <1>6, Zenon
<1>8. AdjustDown(d0, k0) = after[n][1]
  BY Zenon DEF AdjustDown, n
<1> HIDE DEF after
<1>9. after[0] = x /\ \A i \in 1 .. n : after[i] = SiftDown(after[i - 1])
  <2>1. \A i \in 0 .. n : after[i] = IF i = 0 THEN x ELSE SiftDown(after[i - 1])
    BY <1>7, Zenon
  <2> QED
    BY <1>1, <2>1
<1>10. after[n] \in S[n]
  <2>1. \A i \in 1 .. n : after[i - 1] \in S[i - 1] => after[i] \in S[i]
    BY <1>3, <1>9
  <2>2. \A i \in 0 .. n : after[i] \in S[i]
    BY <1>1, <1>2, <1>9, <2>1, LoopKeeps
  <2> QED
    BY <1>1, <2>2
<1> DEFINE d == after[n][1]
           k == after[n][2]
<1>11. d \in Seq(HeapValues) /\ k \in Nat \ {0} /\ Ok(d, k, n)
  BY <1>1, <1>10 DEF S
<1> HIDE DEF d, k
<1>12. ~Sinks(d, k) /\ Len(d) = n
  <2>1. Len(d) = n
    BY <1>11 DEF SameBag, n
  <2>2. ASSUME n < k, NEW j \in 2 .. n PROVE Half(j) # k
    <3>1. j \in Nat /\ j <= n
      BY <1>1
    <3>2. Half(j) \in Nat /\ 2 * Half(j) <= j
      BY <3>1, HalfOf
    <3> QED
      BY <1>1, <1>11, <2>2, <3>1, <3>2
  <2> QED
    BY <1>11, <2>1, <2>2 DEF Sinks
<1>13. ASSUME Sinking(d, k, k0) PROVE LeastUp(d, k0)
  <2> SUFFICES ASSUME NEW j \in 2 .. n, Half(j) >= k0 PROVE d[Half(j)] <= d[j]
    BY <1>12 DEF LeastUp
  <2>1. Half(j) # k => d[Half(j)] <= d[j]
    BY <1>12, <1>13 DEF Sinking
  <2>2. Half(j) = k => ~(d[k] > d[j])
    BY <1>12 DEF Sinks
  <2>3. d[j] \in Int /\ d[Half(j)] \in Int
    <3>1. j \in Nat /\ 2 <= j /\ j <= n
      BY <1>1
    <3>2. Half(j) \in Nat /\ 2 * Half(j) <= j /\ j <= 2 * Half(j) + 1
      BY <3>1, HalfOf
    <3>3. Half(j) \in 1 .. n /\ j \in 1 .. n
      BY <1>1, <3>1, <3>2
    <3> QED
      BY <1>11, <1>12, <3>3, HeapSeq
  <2> QED
    BY <2>1, <2>2, <2>3
<1> QED
  BY <1>8, <1>11, <1>13 DEF d

(* The loop of adjustUp() ends with no place out of order.                   *)
LEMMA Risen ==
  ASSUME NEW d0 \in Seq(HeapValues), NEW k0 \in 1 .. Len(d0)
  PROVE  /\ AdjustUp(d0, k0) \in Seq(HeapValues) /\ SameBag(AdjustUp(d0, k0), d0)
         /\ Rising(d0, k0) => GreatestUp(AdjustUp(d0, k0))
<1> DEFINE n == Len(d0)
           Ok(d, k, i) == /\ SameBag(d, d0) /\ k \in 1 .. n /\ (k + i <= k0 \/ ~Rises(d, k))
                          /\ Rising(d0, k0) => Rising(d, k)
           All == Seq(HeapValues) \X Nat
           S == [i \in 0 .. n |-> {s \in All : Ok(s[1], s[2], i)}]
           step == [i \in 1 .. n |-> [s \in All |-> SiftUp(s)]]
           x == <<d0, k0>>
           after[i \in 0 .. n] == IF i = 0 THEN x ELSE SiftUp(after[i - 1])
<1>1. n \in Nat /\ k0 \in Nat /\ k0 <= n
  BY HeapSeq
<1>2. x \in S[0]
  <2>1. Ok(d0, k0, 0)
    BY DEF SameBag
  <2> HIDE DEF Ok
  <2> QED
    BY <1>1, <2>1
<1>3. ASSUME NEW i \in 1 .. n, NEW s \in S[i - 1] PROVE step[i][s] \in S[i] /\ step[i][s] = SiftUp(s)
  <2> DEFINE d == s[1]
             k == s[2]
  <2>1. i - 1 \in 0 .. n /\ i \in 0 .. n
    BY <1>1
  <2>2. s \in All /\ Ok(d, k, i - 1)
    BY <2>1
  <2>3. d \in Seq(HeapValues) /\ k \in 1 .. Len(d) /\ s = <<d, k>> /\ k \in Nat
    BY <2>2 DEF SameBag
  <2>4. step[i][s] = SiftUp(s)
    BY <2>2
  <2>5. ASSUME SiftUp(<<d, k>>) = <<d, k>>, ~Rises(d, k) PROVE SiftUp(s) \in S[i]
    <3>1. Ok(d, k, i)
      BY <2>2, <2>5
    <3> HIDE DEF Ok, d, k
    <3> QED
      BY <2>1, <2>2, <2>3, <2>5, <3>1 DEF d, k
  <2>6. ASSUME NEW e \in Seq(HeapValues), NEW j \in 1 .. Len(d),
               SiftUp(<<d, k>>) = <<e, j>>, SameBag(e, d), j < k, Rising(d, k) => Rising(e, j),
               Rises(d, k)
        PROVE  SiftUp(s) \in S[i]
    <3> HIDE DEF d, k
    <3>1. SameBag(e, d0) /\ Len(d) = n
      BY <2>2, <2>6, SameBagTransitive DEF SameBag
    <3>2. j + i <= k0 /\ j \in 1 .. n /\ j \in Nat
      BY <1>1, <2>1, <2>2, <2>3, <2>6, <3>1
    <3>3. Ok(e, j, i)
      BY <2>2, <2>6, <3>1, <3>2
    <3>4. <<e, j>> \in All
      BY <2>6, <3>2
    <3> HIDE DEF Ok
    <3> QED
      BY <2>1, <2>3, <2>6, <3>3, <3>4
  <2> HIDE DEF d, k, Ok, S, step
  <2> QED
    BY <2>3, <2>4, <2>5, <2>6, RisenOnce
<1>5. PICK g : Runs(g, n, x, step) /\ \A i \in 0 .. n : g[i] \in S[i]
  <2> HIDE DEF S, step, x, n
  <2>1. \A i \in 1 .. n : \A s \in S[i - 1] : step[i][s] \in S[i]
    BY <1>3
  <2> QED
    BY <1>1, <1>2, <2>1, Looped
<1> HIDE DEF S, step, n
<1>6. g = [i \in 0 .. n |-> IF i = 0 THEN x ELSE SiftUp(g[i - 1])]
  <2>1. \A i \in 0 .. n : g[i] = IF i = 0 THEN x ELSE step[i][g[i - 1]]
    BY <1>5, Zenon DEF Runs
  <2>2. ASSUME NEW i \in 0 .. n, i # 0 PROVE step[i][g[i - 1]] = SiftUp(g[i - 1])
    <3>1. i \in 1 .. n /\ i - 1 \in 0 .. n
      BY <1>1, <2>2
    <3> QED
      BY <1>3, <1>5, <3>1
  <2>3. \A i \in 0 .. n : g[i] = IF i = 0 THEN x ELSE SiftUp(g[i - 1])
    BY <2>1, <2>2
  <2>4. g = [i \in 0 .. n |-> g[i]]
    BY <1>5, Zenon DEF Runs
  <2> QED
    BY <2>3, <2>4, Zenon
<1>7. after = [i \in 0 .. n |-> IF i = 0 THEN x ELSE SiftUp(after[i - 1])]
  BY <1>6, Zenon
<1>8. AdjustUp(d0, k0) = after[n][1]
  BY Zenon DEF AdjustUp, n
<1> HIDE DEF after
<1>9. after[0] = x /\ \A i \in 1 .. n : after[i] = SiftUp(after[i - 1])
  <2>1. \A i \in 0 .. n : after[i] = IF i = 0 THEN x ELSE SiftUp(after[i - 1])
    BY <1>7, Zenon
  <2> QED
    BY <1>1, <2>1
<1>10. after[n] \in S[n]
  <2>1. \A i \in 1 .. n : after[i - 1] \in S[i - 1] => after[i] \in S[i]
    BY <1>3, <1>9
  <2>2. \A i \in 0 .. n : after[i] \in S[i]
    BY <1>1, <1>2, <1>9, <2>1, LoopKeeps
  <2> QED
    BY <1>1, <2>2
<1> DEFINE d == after[n][1]
           k == after[n][2]
<1>11. d \in Seq(HeapValues) /\ k \in Nat /\ Ok(d, k, n)
  BY <1>1, <1>10 DEF S
<1> HIDE DEF d, k
<1>12. ~Rises(d, k) /\ Len(d) = n /\ k \in 1 .. n
  BY <1>1, <1>11 DEF SameBag, n
<1>13. ASSUME Rising(d, k) PROVE GreatestUp(d)
  <2> SUFFICES ASSUME NEW j \in 2 .. n PROVE d[Half(j)] >= d[j]
    BY <1>12 DEF GreatestUp
  <2>1. j # k => d[Half(j)] >= d[j]
    BY <1>12, <1>13 DEF Rising
  <2>2. j = k => ~(d[k] > d[Half(k)])
    BY <1>1, <1>12 DEF Rises
  <2>3. d[j] \in Int /\ d[Half(j)] \in Int
    <3>1. j \in Nat /\ 2 <= j /\ j <= n
      BY <1>1
    <3>2. Half(j) \in Nat /\ 2 * Half(j) <= j /\ j <= 2 * Half(j) + 1
      BY <3>1, HalfOf
    <3>3. Half(j) \in 1 .. n /\ j \in 1 .. n
      BY <1>1, <3>1, <3>2
    <3> QED
      BY <1>11, <1>12, <3>3, HeapSeq
  <2> QED
    BY <2>1, <2>2, <2>3
<1> QED
  BY <1>8, <1>11, <1>13 DEF d

(* A heap is built from the last parent up to the root.                      *)
LEMMA BuiltHeap ==
  ASSUME NEW vals \in Seq(HeapValues)
  PROVE  /\ BuildHeap(vals) \in Seq(HeapValues) /\ SameBag(BuildHeap(vals), vals)
         /\ LeastUp(BuildHeap(vals), 1)
<1> DEFINE n == Half(Len(vals))
           Ok(d, i) == SameBag(d, vals) /\ LeastUp(d, n + 1 - i)
           S == [i \in 0 .. n |-> {d \in Seq(HeapValues) : Ok(d, i)}]
           step == [i \in 1 .. n |-> [d \in Seq(HeapValues) |-> AdjustDown(d, n + 1 - i)]]
           build[i \in 0 .. n] == IF i = 0 THEN vals ELSE AdjustDown(build[i - 1], n + 1 - i)
<1>1. n \in Nat /\ Len(vals) \in Nat /\ Len(vals) <= 2 * n + 1
  BY HeapSeq, HalfOf
<1>2. vals \in S[0]
  <2>1. LeastUp(vals, n + 1)
    <3> SUFFICES ASSUME NEW j \in 2 .. Len(vals) PROVE ~(Half(j) >= n + 1)
      BY DEF LeastUp
    <3>1. j \in Nat /\ j <= Len(vals)
      BY <1>1
    <3>2. Half(j) \in Nat /\ 2 * Half(j) <= j
      BY <3>1, HalfOf
    <3> HIDE DEF n
    <3> QED
      BY <1>1, <3>1, <3>2
  <2>2. n + 1 - 0 = n + 1
    BY <1>1
  <2>3. Ok(vals, 0)
    BY <2>1, <2>2 DEF SameBag
  <2> HIDE DEF Ok, n
  <2> QED
    BY <1>1, <2>3
<1>3. ASSUME NEW i \in 1 .. n, NEW d \in S[i - 1]
      PROVE  step[i][d] \in S[i] /\ step[i][d] = AdjustDown(d, n + 1 - i)
  <2> DEFINE k == n + 1 - i
             e == AdjustDown(d, k)
  <2> HIDE DEF n
  <2>1. i - 1 \in 0 .. n /\ i \in 0 .. n /\ k \in Nat \ {0} /\ k + 1 = n + 1 - (i - 1)
    BY <1>1
  <2>2. d \in Seq(HeapValues) /\ Ok(d, i - 1)
    BY <2>1
  <2>3. e \in Seq(HeapValues) /\ SameBag(e, d) /\ (LeastUp(d, k + 1) => LeastUp(e, k))
    BY <2>1, <2>2, Sunk
  <2>4. step[i][d] = e
    BY <2>2
  <2> HIDE DEF e
  <2>5. Ok(e, i)
    BY <2>1, <2>2, <2>3, SameBagTransitive
  <2> HIDE DEF Ok, step
  <2> QED
    BY <2>1, <2>3, <2>4, <2>5 DEF e
<1> HIDE DEF n
<1>5. PICK g : Runs(g, n, vals, step) /\ \A i \in 0 .. n : g[i] \in S[i]
  <2> HIDE DEF S, step
  <2>1. \A i \in 1 .. n : \A s \in S[i - 1] : step[i][s] \in S[i]
    BY <1>3
  <2> QED
    BY <1>1, <1>2, <2>1, Looped
<1> HIDE DEF S, step
<1>6. g = [i \in 0 .. n |-> IF i = 0 THEN vals ELSE AdjustDown(g[i - 1], n + 1 - i)]
  <2>1. \A i \in 0 .. n : g[i] = IF i = 0 THEN vals ELSE step[i][g[i - 1]]
    BY <1>5, Zenon DEF Runs
  <2>2. ASSUME NEW i \in 0 .. n, i # 0 PROVE step[i][g[i - 1]] = AdjustDown(g[i - 1], n + 1 - i)
    <3>1. i \in 1 .. n /\ i - 1 \in 0 .. n
      BY <1>1, <2>2
    <3> QED
      BY <1>3, <1>5, <3>1
  <2>3. \A i \in 0 .. n : g[i] = IF i = 0 THEN vals ELSE AdjustDown(g[i - 1], n + 1 - i)
    BY <2>1, <2>2
  <2>4. g = [i \in 0 .. n |-> g[i]]
    BY <1>5, Zenon DEF Runs
  <2> QED
    BY <2>3, <2>4, Zenon
<1>7. build = [i \in 0 .. n |-> IF i = 0 THEN vals ELSE AdjustDown(build[i - 1], n + 1 - i)]
  BY <1>6, Zenon
<1>8. BuildHeap(vals) = build[n]
  BY Zenon DEF BuildHeap, n, Half
<1> HIDE DEF build
<1>9. build[0] = vals /\ \A i \in 1 .. n : build[i] = AdjustDown(build[i - 1], n + 1 - i)
  <2>1. \A i \in 0 .. n : build[i] = IF i = 0 THEN vals ELSE AdjustDown(build[i - 1], n + 1 - i)
    BY <1>7, Zenon
  <2> QED
    BY <1>1, <2>1
<1>10. build[n] \in S[n]
  <2>1. \A i \in 1 .. n : build[i - 1] \in S[i - 1] => build[i] \in S[i]
    BY <1>3, <1>9
  <2>2. \A i \in 0 .. n : build[i] \in S[i]
    BY <1>1, <1>2, <1>9, <2>1, LoopKeeps
  <2> QED
    BY <1>1, <2>2
<1>11. build[n] \in Seq(HeapValues) /\ Ok(build[n], n) /\ n + 1 - n = 1
  BY <1>1, <1>10 DEF S
<1> QED
  BY <1>8, <1>11

(* How often a value is in a sequence, before and behind its last element.   *)
LEMMA CountIs ==
  ASSUME NEW d \in Seq(HeapValues), NEW v \in HeapValues
  PROVE  /\ Count(d, v) \in Nat
         /\ Count(d, v) > 0 <=> \E i \in 1 .. Len(d) : d[i] = v
         /\ d = <<>> => Count(d, v) = 0
<1> DEFINE A == {i \in 1 .. Len(d) : d[i] = v}
<1>1. IsFiniteSet(A)
  <2>1. IsFiniteSet(1 .. Len(d))
    BY HeapSeq, FS_Interval
  <2> QED
    BY <2>1, FS_Subset
<1>2. Cardinality(A) \in Nat /\ (Cardinality(A) = 0 <=> A = {})
  BY <1>1, FS_CardinalityType, FS_EmptySet
<1>3. d = <<>> => A = {}
  OBVIOUS
<1>4. A # {} <=> \E i \in 1 .. Len(d) : d[i] = v
  OBVIOUS
<1> HIDE DEF A
<1> QED
  BY <1>2, <1>3, <1>4 DEF Count, A

(* A longer sequence has one element more.                                   *)
LEMMA CountAppend ==
  ASSUME NEW d \in Seq(HeapValues), NEW e \in Seq(HeapValues), NEW v \in HeapValues,
         Len(e) = Len(d) + 1, \A i \in 1 .. Len(d) : e[i] = d[i]
  PROVE  Count(e, v) = Count(d, v) + (IF e[Len(e)] = v THEN 1 ELSE 0)
<1> DEFINE A == {i \in 1 .. Len(d) : d[i] = v}
           B == {i \in 1 .. Len(e) : e[i] = v}
           n == Len(e)
<1>1. Len(d) \in Nat /\ n \in Nat
  BY HeapSeq
<1>2. IsFiniteSet(A) /\ Cardinality(A) \in Nat
  <2>1. IsFiniteSet(1 .. Len(d))
    BY <1>1, FS_Interval
  <2>2. IsFiniteSet(A)
    BY <2>1, FS_Subset
  <2> QED
    BY <2>2, FS_CardinalityType
<1>3. n \notin A
  BY <1>1
<1>4. B = IF e[n] = v THEN A \cup {n} ELSE A
  BY <1>1
<1> HIDE DEF A, B, n
<1>5. Cardinality(B) = Cardinality(A) + (IF e[n] = v THEN 1 ELSE 0)
  <2>1. CASE e[n] = v
    BY <1>2, <1>3, <1>4, <2>1, FS_AddElement
  <2>2. CASE e[n] # v
    BY <1>2, <1>4, <2>2
  <2> QED
    BY <2>1, <2>2
<1> QED
  BY <1>5 DEF Count, A, B, n

(* What pop() leaves *)
LEMMA PoppedIs ==
  ASSUME NEW d \in Seq(HeapValues), d # <<>>
  PROVE  /\ Popped(d) \in Seq(HeapValues) /\ Len(Popped(d)) = Len(d) - 1 /\ 1 \in 1 .. Len(d)
         /\ \A v \in HeapValues : Count(d, v) = Count(Popped(d), v) + (IF d[1] = v THEN 1 ELSE 0)
         /\ LeastUp(d, 1) => LeastUp(Popped(d), 1)
<1> DEFINE n == Len(d)
           e == Swap(d, 1, n)
           r == SubSeq(e, 1, n - 1)
<1>1. n \in Nat /\ n > 0 /\ 1 \in 1 .. n /\ n \in 1 .. n
  BY HeapSeq, EmptySeq
<1>2. /\ e \in Seq(HeapValues) /\ SameBag(e, d) /\ Len(e) = n
      /\ \A m \in 1 .. n : e[m] = IF m = n THEN d[1] ELSE IF m = 1 THEN d[n] ELSE d[m]
  BY <1>1, Swapped DEF SameBag
<1> HIDE DEF e, n
<1>3. /\ r \in Seq(HeapValues) /\ Len(r) = n - 1
      /\ \A m \in 1 .. n - 1 : r[m] = e[m]
  <2>1. \A m \in 1 .. n - 1 : e[m] \in HeapValues
    BY <1>1, <1>2, HeapSeq
  <2> QED
    BY <1>1, <1>2, <2>1, SubSeqProperties
<1>4. Popped(d) = AdjustDown(r, 1)
  BY DEF Popped, e, n
<1> HIDE DEF r
<1>5. LeastUp(d, 1) => LeastUp(r, 2)
  <2> SUFFICES ASSUME LeastUp(d, 1), NEW j \in 2 .. n - 1, Half(j) >= 2 PROVE r[Half(j)] <= r[j]
    BY <1>3 DEF LeastUp
  <2>1. j \in Nat /\ 2 <= j /\ j <= n - 1
    BY <1>1
  <2>2. Half(j) \in Nat /\ 2 * Half(j) <= j
    BY <2>1, HalfOf
  <2>3. Half(j) \in 1 .. n - 1 /\ j \in 1 .. n - 1 /\ Half(j) \in 1 .. n /\ j \in 2 .. n /\ j \in 1 .. n
        /\ Half(j) # n /\ Half(j) # 1 /\ j # n /\ j # 1 /\ Half(j) >= 1
    BY <1>1, <2>1, <2>2
  <2>4. d[Half(j)] <= d[j]
    BY <2>3 DEF LeastUp, n
  <2> QED
    BY <1>2, <1>3, <2>3, <2>4
<1>6. ASSUME NEW v \in HeapValues PROVE Count(d, v) = Count(r, v) + (IF d[1] = v THEN 1 ELSE 0)
  <2>1. Len(e) = Len(r) + 1 /\ \A i \in 1 .. Len(r) : e[i] = r[i]
    BY <1>1, <1>2, <1>3
  <2>2. e[Len(e)] = d[1] /\ Count(e, v) = Count(d, v)
    BY <1>1, <1>2 DEF SameBag
  <2> QED
    BY <1>2, <1>3, <2>1, <2>2, CountAppend
<1>7. /\ Popped(d) \in Seq(HeapValues) /\ SameBag(Popped(d), r)
      /\ LeastUp(r, 2) => LeastUp(Popped(d), 1)
  <2>1. 1 \in Nat \ {0} /\ 1 + 1 = 2
    OBVIOUS
  <2> QED
    BY <1>3, <1>4, <2>1, Sunk
<1> QED
  BY <1>1, <1>3, <1>5, <1>6, <1>7 DEF SameBag, n

(* The top of a heap in order *)
LEMMA LeastOnTop ==
  ASSUME NEW d \in Seq(HeapValues), LeastUp(d, 1)
  PROVE  \A i \in 1 .. Len(d) : d[1] <= d[i]
<1> DEFINE bad == {i \in 1 .. Len(d) : ~(d[1] <= d[i])}
<1>1. SUFFICES ASSUME bad # {} PROVE FALSE
  OBVIOUS
<1>2. PICK i \in bad : \A j \in bad : i <= j
  <2>1. bad \in SUBSET Nat
    OBVIOUS
  <2> HIDE DEF bad
  <2> QED
    BY <1>1, <2>1, SmallestNat
<1>3. i \in 1 .. Len(d) /\ ~(d[1] <= d[i]) /\ Len(d) \in Nat /\ 1 \in 1 .. Len(d) /\ i \in Nat
  BY HeapSeq
<1>4. i # 1
  BY <1>3, HeapSeq
<1>5. Half(i) \in 1 .. Len(d) /\ Half(i) < i /\ i \in 2 .. Len(d) /\ Half(i) \in Nat
  <2>1. Half(i) \in Nat /\ 2 * Half(i) <= i /\ i <= 2 * Half(i) + 1
    BY <1>3, HalfOf
  <2> QED
    BY <1>3, <1>4, <2>1
<1>6. d[1] <= d[Half(i)] /\ d[Half(i)] <= d[i]
  BY <1>2, <1>5 DEF LeastUp
<1>7. d[1] \in Int /\ d[Half(i)] \in Int /\ d[i] \in Int
  BY <1>3, <1>5, HeapSeq
<1> QED
  BY <1>3, <1>6, <1>7

(* If no element is greater than its parent, none is greater than the top.   *)
LEMMA GreatestOnTop ==
  ASSUME NEW d \in Seq(HeapValues), GreatestUp(d)
  PROVE  \A i \in 1 .. Len(d) : d[1] >= d[i]
<1> DEFINE bad == {i \in 1 .. Len(d) : ~(d[1] >= d[i])}
<1>1. SUFFICES ASSUME bad # {} PROVE FALSE
  OBVIOUS
<1>2. PICK i \in bad : \A j \in bad : i <= j
  <2>1. bad \in SUBSET Nat
    OBVIOUS
  <2> HIDE DEF bad
  <2> QED
    BY <1>1, <2>1, SmallestNat
<1>3. i \in 1 .. Len(d) /\ ~(d[1] >= d[i]) /\ Len(d) \in Nat /\ 1 \in 1 .. Len(d) /\ i \in Nat
  BY HeapSeq
<1>4. i # 1
  BY <1>3, HeapSeq
<1>5. Half(i) \in 1 .. Len(d) /\ Half(i) < i /\ i \in 2 .. Len(d) /\ Half(i) \in Nat
  <2>1. Half(i) \in Nat /\ 2 * Half(i) <= i /\ i <= 2 * Half(i) + 1
    BY <1>3, HalfOf
  <2> QED
    BY <1>3, <1>4, <2>1
<1>6. d[1] >= d[Half(i)] /\ d[Half(i)] >= d[i]
  BY <1>2, <1>5 DEF GreatestUp
<1>7. d[1] \in Int /\ d[Half(i)] \in Int /\ d[i] \in Int
  BY <1>3, <1>5, HeapSeq
<1> QED
  BY <1>3, <1>6, <1>7

(* Heap::sort() sorts.                                                       *)
LEMMA Sorted ==
  ASSUME NEW vc \in Seq(HeapValues)
  PROVE  /\ \A v \in HeapValues : Count(HeapSort(vc), v) = Count(vc, v)
         /\ \A i \in 1 .. Len(HeapSort(vc)) - 1 : HeapSort(vc)[i] <= HeapSort(vc)[i + 1]
<1> DEFINE n == Len(vc)
           x == BuildHeap(vc)
           Ok(d, i) == Len(d) = n - i /\ LeastUp(d, 1)
           S == [i \in 0 .. n |-> {d \in Seq(HeapValues) : Ok(d, i)}]
           step == [i \in 1 .. n |-> [d \in Seq(HeapValues) |-> Popped(d)]]
           heap[i \in 0 .. n] == IF i = 0 THEN x ELSE Popped(heap[i - 1])
           out == [i \in 1 .. n |-> heap[i - 1][1]]
<1>1. n \in Nat
  BY HeapSeq
<1>2. x \in S[0] /\ SameBag(x, vc)
  <2>1. x \in Seq(HeapValues) /\ SameBag(x, vc) /\ LeastUp(x, 1)
    BY BuiltHeap
  <2> HIDE DEF x
  <2>2. Ok(x, 0)
    BY <1>1, <2>1 DEF SameBag
  <2> HIDE DEF Ok, n
  <2> QED
    BY <1>1, <2>1, <2>2
<1> HIDE DEF n, x
<1>3. ASSUME NEW i \in 1 .. n, NEW d \in S[i - 1]
      PROVE  step[i][d] \in S[i] /\ step[i][d] = Popped(d) /\ d \in Seq(HeapValues) /\ d # <<>> /\ LeastUp(d, 1)
  <2>1. i - 1 \in 0 .. n /\ i \in 0 .. n
    BY <1>1
  <2>2. d \in Seq(HeapValues) /\ Ok(d, i - 1)
    BY <2>1
  <2>3. d # <<>>
    BY <1>1, <2>2
  <2>4. Popped(d) \in Seq(HeapValues) /\ Ok(Popped(d), i)
    <3>1. /\ Popped(d) \in Seq(HeapValues) /\ Len(Popped(d)) = Len(d) - 1
          /\ LeastUp(d, 1) => LeastUp(Popped(d), 1)
      BY <2>2, <2>3, PoppedIs
    <3>2. Len(d) = n - (i - 1) /\ LeastUp(d, 1)
      BY <2>2
    <3>3. Len(Popped(d)) = n - i
      BY <1>1, <3>1, <3>2
    <3> QED
      BY <3>1, <3>2, <3>3
  <2>5. step[i][d] = Popped(d)
    BY <2>2
  <2> HIDE DEF Ok, step
  <2>6. Popped(d) \in S[i]
    BY <2>1, <2>4
  <2> QED
    BY <2>2, <2>3, <2>5, <2>6 DEF Ok
<1>5. PICK g : Runs(g, n, x, step) /\ \A i \in 0 .. n : g[i] \in S[i]
  <2> HIDE DEF S, step
  <2>1. \A i \in 1 .. n : \A s \in S[i - 1] : step[i][s] \in S[i]
    BY <1>3
  <2> QED
    BY <1>1, <1>2, <2>1, Looped
<1> HIDE DEF S, step
<1>6. g = [i \in 0 .. n |-> IF i = 0 THEN x ELSE Popped(g[i - 1])]
  <2>1. \A i \in 0 .. n : g[i] = IF i = 0 THEN x ELSE step[i][g[i - 1]]
    BY <1>5, Zenon DEF Runs
  <2>2. ASSUME NEW i \in 0 .. n, i # 0 PROVE step[i][g[i - 1]] = Popped(g[i - 1])
    <3>1. i \in 1 .. n /\ i - 1 \in 0 .. n
      BY <1>1, <2>2
    <3> QED
      BY <1>3, <1>5, <3>1
  <2>3. \A i \in 0 .. n : g[i] = IF i = 0 THEN x ELSE Popped(g[i - 1])
    BY <2>1, <2>2
  <2>4. g = [i \in 0 .. n |-> g[i]]
    BY <1>5, Zenon DEF Runs
  <2> QED
    BY <2>3, <2>4, Zenon
<1>7. heap = [i \in 0 .. n |-> IF i = 0 THEN x ELSE Popped(heap[i - 1])]
  BY <1>6, Zenon
<1>8. HeapSort(vc) = out
  BY Zenon DEF HeapSort, n, x
<1> HIDE DEF heap
<1>9. heap[0] = x /\ \A i \in 1 .. n : heap[i] = Popped(heap[i - 1])
  <2>1. \A i \in 0 .. n : heap[i] = IF i = 0 THEN x ELSE Popped(heap[i - 1])
    BY <1>7, Zenon
  <2> QED
    BY <1>1, <2>1
<1>10. \A i \in 0 .. n : heap[i] \in S[i]
  <2>1. \A i \in 1 .. n : heap[i - 1] \in S[i - 1] => heap[i] \in S[i]
    BY <1>3, <1>9
  <2> QED
    BY <1>1, <1>2, <1>9, <2>1, LoopKeeps
<1>11. ASSUME NEW i \in 1 .. n
       PROVE  /\ heap[i - 1] \in Seq(HeapValues) /\ heap[i - 1] # <<>> /\ LeastUp(heap[i - 1], 1)
              /\ heap[i] = Popped(heap[i - 1]) /\ out[i] = heap[i - 1][1] /\ out[i] \in HeapValues
  <2>1. i - 1 \in 0 .. n
    BY <1>1
  <2>2. heap[i - 1] \in Seq(HeapValues) /\ heap[i - 1] # <<>> /\ LeastUp(heap[i - 1], 1)
    BY <1>3, <1>10, <2>1
  <2>3. heap[i - 1][1] \in HeapValues
    BY <2>2, PoppedIs, HeapSeq
  <2> QED
    BY <1>9, <2>2, <2>3
<1>12. out \in Seq(HeapValues) /\ Len(out) = n
  <2>1. out \in [1 .. n -> HeapValues]
    BY <1>11
  <2>2. out \in Seq(HeapValues)
    BY <1>1, <2>1, IsASeq
  <2> QED
    BY <1>1, <2>1, <2>2, LenProperties
<1> HIDE DEF out
<1>13. ASSUME NEW i \in 1 .. n - 1 PROVE out[i] <= out[i + 1]
  <2>1. i \in 1 .. n /\ i + 1 \in 1 .. n /\ i + 1 - 1 = i
    BY <1>1
  <2> DEFINE d == heap[i - 1]
             e == heap[i]
  <2>2. /\ d \in Seq(HeapValues) /\ d # <<>> /\ LeastUp(d, 1) /\ e = Popped(d) /\ out[i] = d[1]
        /\ e \in Seq(HeapValues) /\ e # <<>> /\ out[i + 1] = e[1] /\ e[1] \in HeapValues
    BY <1>11, <2>1
  <2> HIDE DEF d, e
  <2>3. Count(e, e[1]) > 0
    BY <2>2, PoppedIs, CountIs
  <2>4. Count(d, e[1]) > 0
    <3>1. Count(d, e[1]) = Count(e, e[1]) + (IF d[1] = e[1] THEN 1 ELSE 0)
      BY <2>2, PoppedIs
    <3>2. Count(e, e[1]) \in Nat
      BY <2>2, CountIs
    <3> QED
      BY <2>3, <3>1, <3>2
  <2>5. PICK m \in 1 .. Len(d) : d[m] = e[1]
    BY <2>2, <2>4, CountIs
  <2> QED
    BY <2>2, <2>5, LeastOnTop
<1> DEFINE front(i) == SubSeq(out, 1, i)
<1>14. ASSUME NEW i \in 0 .. n
       PROVE  front(i) \in Seq(HeapValues) /\ Len(front(i)) = i /\ \A m \in 1 .. i : front(i)[m] = out[m]
  <2>1. i \in Nat /\ i <= n /\ \A m \in 1 .. i : out[m] \in HeapValues
    BY <1>1, <1>11
  <2> QED
    BY <1>1, <1>12, <2>1, SubSeqProperties
<1>15. ASSUME NEW v \in HeapValues PROVE Count(out, v) = Count(vc, v)
  <2> DEFINE T == [i \in 0 .. n |-> {c \in {0} : Count(vc, v) = Count(front(i), v) + Count(heap[i], v)}]
             none == [i \in 0 .. n |-> 0]
  <2>1. Count(x, v) = Count(vc, v) /\ Count(vc, v) \in Nat /\ Count(out, v) \in Nat
    BY <1>2, <1>12, CountIs DEF SameBag
  <2>2. Count(front(0), v) = 0 /\ 0 \in 0 .. n
    <3>1. 0 \in 0 .. n
      BY <1>1
    <3>2. front(0) = <<>> /\ front(0) \in Seq(HeapValues)
      BY <1>14, <3>1, EmptySeq
    <3> QED
      BY <3>1, <3>2, CountIs
  <2>3. none[0] \in T[0]
    BY <1>9, <2>1, <2>2
  <2>4. ASSUME NEW i \in 1 .. n, none[i - 1] \in T[i - 1] PROVE none[i] \in T[i]
    <3>1. i - 1 \in 0 .. n /\ i \in 0 .. n /\ i - 1 + 1 = i
      BY <1>1
    <3>2. Count(vc, v) = Count(front(i - 1), v) + Count(heap[i - 1], v)
      BY <2>4, <3>1
    <3>3. Count(heap[i - 1], v) = Count(heap[i], v) + (IF out[i] = v THEN 1 ELSE 0)
      BY <1>11, PoppedIs
    <3>4. Count(front(i), v) = Count(front(i - 1), v) + (IF out[i] = v THEN 1 ELSE 0)
      <4> DEFINE d == front(i - 1)
                 e == front(i)
      <4>1. d \in Seq(HeapValues) /\ Len(d) = i - 1 /\ \A m \in 1 .. i - 1 : d[m] = out[m]
        BY <1>14, <3>1
      <4>2. e \in Seq(HeapValues) /\ Len(e) = i /\ \A m \in 1 .. i : e[m] = out[m]
        BY <1>14, <3>1
      <4> HIDE DEF front
      <4>3. Len(e) = Len(d) + 1 /\ e[Len(e)] = out[i] /\ \A m \in 1 .. Len(d) : e[m] = d[m]
        BY <1>1, <4>1, <4>2
      <4> QED
        BY <4>1, <4>2, <4>3, CountAppend
    <3>5. Count(front(i - 1), v) \in Nat /\ Count(heap[i], v) \in Nat
      <4>1. front(i - 1) \in Seq(HeapValues) /\ heap[i] \in Seq(HeapValues)
        BY <1>11, <1>14, <3>1, PoppedIs
      <4> QED
        BY <4>1, CountIs
    <3> HIDE DEF front
    <3>6. Count(vc, v) = Count(front(i), v) + Count(heap[i], v)
      BY <3>2, <3>3, <3>4, <3>5
    <3> QED
      BY <3>1, <3>6
  <2>5. none[n] \in T[n] /\ n \in 0 .. n
    <3> HIDE DEF T, none
    <3>1. \A i \in 0 .. n : none[i] \in T[i]
      BY <1>1, <2>3, <2>4, LoopKeeps
    <3> QED
      BY <1>1, <3>1
  <2>6. Count(vc, v) = Count(front(n), v) + Count(heap[n], v)
    BY <2>5
  <2>7. front(n) = out
    BY <1>1, <1>12, SubSeqFull
  <2>8. Count(heap[n], v) = 0
    <3>1. heap[n] \in Seq(HeapValues) /\ Len(heap[n]) = 0
      BY <1>1, <1>10, <2>5 DEF S
    <3> QED
      BY <3>1, EmptySeq, CountIs
  <2> HIDE DEF front, T, none
  <2>9. Count(vc, v) = Count(out, v) + 0
    BY <2>6, <2>7, <2>8
  <2> QED
    BY <2>1, <2>9
<1> QED
  BY <1>8, <1>12, <1>13, <1>15

HeapInv ==
  /\ HeapTypeOK /\ HeapKeeps
  /\ heapUse = "pushed" => GreatestUp(heapData)
  /\ heapUse = "built" => LeastUp(heapData, 1)

(* An empty heap satisfies the invariant.                                    *)
LEMMA HeapStarts == ASSUME HeapInit PROVE HeapInv
<1>1. heapData = <<>> /\ heapData \in Seq(HeapValues) /\ heapUse = "new"
      /\ heapBag = [v \in HeapValues |-> 0]
  BY EmptySeq DEF HeapInit
<1>2. \A v \in HeapValues : Count(heapData, v) = 0
  BY <1>1, CountIs
<1> QED
  BY <1>1, <1>2 DEF HeapInv, HeapTypeOK, HeapKeeps, Counts

(* Every step keeps the elements, and their order while there is one.        *)
LEMMA HeapKept == ASSUME HeapInv, [HeapNext]_heapVars PROVE HeapInv'
<1>1. heapData \in Seq(HeapValues) /\ heapBag \in [HeapValues -> Nat]
      /\ \A v \in HeapValues : heapBag[v] = Count(heapData, v)
  BY DEF HeapInv, HeapTypeOK, HeapKeeps, Counts
<1>2. ASSUME NEW vals \in Seq(HeapValues), HeapNew(vals) PROVE HeapInv'
  <2>1. /\ heapData' \in Seq(HeapValues) /\ SameBag(heapData', vals) /\ LeastUp(heapData', 1)
        /\ heapUse' \in {"pushed", "built"} /\ heapBag' = Counts(vals)
    BY <1>2, BuiltHeap DEF HeapNew
  <2>2. \A v \in HeapValues : Count(heapData', v) = Count(vals, v) /\ Count(vals, v) \in Nat
    BY <2>1, CountIs DEF SameBag
  <2>3. heapUse' = "pushed" => GreatestUp(heapData')
    <3> SUFFICES ASSUME vals = <<>> PROVE GreatestUp(heapData')
      BY <1>2 DEF HeapNew
    <3>1. Len(heapData') = 0
      BY <2>1, EmptySeq DEF SameBag
    <3> QED
      BY <3>1 DEF GreatestUp
  <2> QED
    BY <2>1, <2>2, <2>3 DEF HeapInv, HeapTypeOK, HeapKeeps, Counts
<1>3. ASSUME NEW v \in HeapValues, HeapPush(v) PROVE HeapInv'
  <2> DEFINE d == Append(heapData, v)
             k == Len(heapData) + 1
  <2>1. /\ d \in Seq(HeapValues) /\ Len(d) = k /\ k \in 1 .. Len(d) /\ d[k] = v
        /\ \A i \in 1 .. Len(heapData) : d[i] = heapData[i]
    BY <1>1, AppendProperties, LenProperties
  <2>2. heapData' = AdjustUp(d, k) /\ heapBag' = [heapBag EXCEPT ![v] = @ + 1]
    BY <1>3 DEF HeapPush
  <2> HIDE DEF d
  <2>3. /\ heapData' \in Seq(HeapValues) /\ SameBag(heapData', d)
        /\ Rising(d, k) => GreatestUp(heapData')
    BY <2>1, <2>2, Risen
  <2>4. ASSUME NEW w \in HeapValues
        PROVE  Count(heapData', w) = Count(heapData, w) + (IF v = w THEN 1 ELSE 0)
    <3>1. Count(heapData', w) = Count(d, w)
      BY <2>3 DEF SameBag
    <3>2. Count(d, w) = Count(heapData, w) + (IF d[Len(d)] = w THEN 1 ELSE 0)
      BY <1>1, <2>1, CountAppend
    <3> QED
      BY <2>1, <3>1, <3>2
  <2>5. heapBag' \in [HeapValues -> Nat] /\ \A w \in HeapValues : heapBag'[w] = Count(heapData', w)
    <3>1. \A w \in HeapValues : heapBag'[w] = heapBag[w] + (IF v = w THEN 1 ELSE 0)
      BY <1>1, <2>2
    <3>2. heapBag' \in [HeapValues -> Nat]
      BY <1>1, <2>2
    <3> QED
      BY <1>1, <2>4, <3>1, <3>2
  <2>6. heapUse' \in {"pushed", "mixed"} /\ (heapUse' = "pushed" => Rising(d, k))
    <3>1. ASSUME heapData = <<>> \/ heapUse = "pushed" PROVE Rising(d, k)
      <4> SUFFICES ASSUME NEW j \in 2 .. k
                   PROVE  /\ j # k => d[Half(j)] >= d[j]
                          /\ ~(Half(j) = k)
        BY <2>1 DEF Rising
      <4>1. Len(heapData) \in Nat
        BY <1>1, LenProperties
      <4>2. j \in Nat /\ 2 <= j /\ j <= k
        BY <4>1
      <4>3. Half(j) \in Nat /\ 2 * Half(j) <= j /\ j <= 2 * Half(j) + 1
        BY <4>2, HalfOf
      <4>4. Half(j) # k
        BY <4>1, <4>2, <4>3
      <4>5. ASSUME j # k PROVE d[Half(j)] >= d[j]
        <5>1. j \in 2 .. Len(heapData) /\ j \in 1 .. Len(heapData) /\ Half(j) \in 1 .. Len(heapData)
          BY <4>1, <4>2, <4>3, <4>5
        <5>2. heapUse = "pushed"
          BY <3>1, <5>1, EmptySeq
        <5> QED
          BY <2>1, <5>1, <5>2 DEF HeapInv, GreatestUp
      <4> QED
        BY <4>4, <4>5
    <3> QED
      BY <1>3, <3>1 DEF HeapPush
  <2> QED
    BY <2>3, <2>5, <2>6 DEF HeapInv, HeapTypeOK, HeapKeeps, Counts
<1>4. ASSUME HeapPop PROVE HeapInv'
  <2>1. /\ heapData # <<>> /\ heapData' = Popped(heapData)
        /\ heapBag' = [heapBag EXCEPT ![heapData[1]] = @ - 1]
        /\ heapUse' = IF heapUse = "built" THEN "built" ELSE "mixed"
    BY <1>4 DEF HeapPop
  <2>2. /\ heapData' \in Seq(HeapValues) /\ 1 \in 1 .. Len(heapData)
        /\ \A v \in HeapValues : Count(heapData, v) = Count(heapData', v) + (IF heapData[1] = v THEN 1 ELSE 0)
        /\ LeastUp(heapData, 1) => LeastUp(heapData', 1)
    BY <1>1, <2>1, PoppedIs
  <2>3. \A v \in HeapValues : Count(heapData', v) \in Nat
    BY <2>2, CountIs
  <2>4. heapData[1] \in HeapValues
    BY <1>1, <2>2, HeapSeq
  <2>5. \A v \in HeapValues : heapBag'[v] = Count(heapData', v)
    <3>1. \A v \in HeapValues : heapBag'[v] = heapBag[v] - (IF heapData[1] = v THEN 1 ELSE 0)
      BY <1>1, <2>1, <2>4
    <3>2. ASSUME NEW v \in HeapValues PROVE heapBag'[v] = Count(heapData', v)
      <4> DEFINE one == IF heapData[1] = v THEN 1 ELSE 0
      <4>1. heapBag'[v] = heapBag[v] - one /\ heapBag[v] = Count(heapData, v)
        BY <1>1, <3>1
      <4>2. Count(heapData, v) = Count(heapData', v) + one /\ Count(heapData', v) \in Nat /\ one \in Int
        BY <2>2, <2>3
      <4> HIDE DEF one
      <4> QED
        BY <4>1, <4>2
    <3> QED
      BY <3>2
  <2>6. heapBag' \in [HeapValues -> Nat]
    <3>1. DOMAIN heapBag' = HeapValues /\ heapBag' = [v \in HeapValues |-> heapBag'[v]]
      BY <1>1, <2>1
    <3> QED
      BY <2>3, <2>5, <3>1
  <2> QED
    BY <2>1, <2>2, <2>5, <2>6 DEF HeapInv, HeapTypeOK, HeapKeeps, Counts
<1>5. CASE UNCHANGED heapVars
  BY <1>5 DEF heapVars, HeapInv, HeapTypeOK, HeapKeeps, Counts, Count, GreatestUp, LeastUp
<1>6. ASSUME NEW n \in 0 .. HeapSize, NEW vals \in [1 .. n -> HeapValues] PROVE vals \in Seq(HeapValues)
  BY HeapAssumption, IsASeq
<1> QED
  BY <1>2, <1>3, <1>4, <1>5, <1>6 DEF HeapNext

(* With the invariant a heap is correct.                                     *)
LEMMA HeapIsCorrect == ASSUME HeapInv PROVE HeapCorrect
<1>1. heapData \in Seq(HeapValues)
  BY DEF HeapInv, HeapTypeOK
<1>2. HeapTop
  BY <1>1, LeastOnTop, GreatestOnTop DEF HeapInv, HeapTop
<1>3. HeapSorts
  BY <1>1, Sorted, Zenon DEF HeapSorts, Counts
<1> QED
  BY <1>2, <1>3 DEF HeapCorrect, HeapInv

(* A heap of any size keeps what is in it, has its extreme on top while it   *)
(* is used in one direction, and Heap::sort() sorts any vector.              *)
THEOREM HeapsKeepOrder == HeapSpec => []HeapCorrect
<1>1. HeapSpec => []HeapInv
  BY HeapStarts, HeapKept, PTL DEF HeapSpec
<1> QED
  BY <1>1, HeapIsCorrect, PTL

-----------------------------------------------------------------------------
(* Lists: how far they are turned round.                                     *)

(* Which node is at a place of the list, and how its nodes are linked while  *)
(* the first so many of them are turned round.                               *)
NodeAt(r, i) == IF r = 1 THEN data + 1 - i ELSE i
TurnedUpTo(r, k) ==
  \A i \in 1 .. data :
     nextNode[NodeAt(r, i)] = IF i <= k THEN (IF i = 1 THEN 0 ELSE NodeAt(r, i - 1))
                          ELSE IF i = data THEN 0 ELSE NodeAt(r, i + 1)

(* Where reverseList() stands: k nodes are turned round, p is the last of    *)
(* them and q the next one.                                                  *)
Stands(r, k) == TurnedUpTo(r, k) /\ p = NodeAt(r, k) /\ q = NodeAt(r, k + 1)

ListInv ==
  /\ data \in Nat /\ reversals \in 0 .. 2
  /\ nextNode \in Seq(0 .. data) /\ Len(nextNode) <= data
  /\ head \in 0 .. data /\ p \in 0 .. data /\ q \in 0 .. data
  /\ listAt \in {"build", "built", "reverse", "over", "undefined"}
  /\ listAt = "build" =>
       /\ reversals = 0
       /\ nextNode = [i \in 1 .. Len(nextNode) |-> IF i < Len(nextNode) THEN i + 1 ELSE 0]
       /\ head = IF Len(nextNode) = 0 THEN 0 ELSE 1
  /\ listAt \in {"built", "over"} =>
       /\ listAt = "built" <=> reversals = 0
       /\ Len(nextNode) = data /\ data > 0 /\ TurnedUpTo(reversals, 0) /\ head = NodeAt(reversals, 1)
  /\ listAt = "reverse" =>
       /\ Len(nextNode) = data /\ reversals > 0
       /\ \E k \in 1 .. data - 1 : Stands(reversals - 1, k)

(* A list that has no node yet satisfies the invariant.                      *)
LEMMA ListStarts == ASSUME ListInit PROVE ListInv
<1>1. data \in Nat /\ nextNode = <<>> /\ nextNode \in Seq(0 .. data) /\ Len(nextNode) = 0
  BY ListsAssumption, EmptySeq DEF ListInit
<1>2. nextNode = [i \in 1 .. 0 |-> IF i < 0 THEN i + 1 ELSE 0]
  BY <1>1
<1> QED
  BY <1>1, <1>2 DEF ListInit, ListInv

(* NodesOnce and nodes are one to one.                                          *)
LEMMA NodesOnce ==
  ASSUME data \in Nat, NEW r \in Nat
  PROVE  /\ \A i \in 1 .. data : NodeAt(r, i) \in 1 .. data
         /\ \A i, j \in 1 .. data : NodeAt(r, i) = NodeAt(r, j) => i = j
  BY DEF NodeAt

TurnedIn(next, r, k) ==
  \A i \in 1 .. data :
     next[NodeAt(r, i)] = IF i <= k THEN (IF i = 1 THEN 0 ELSE NodeAt(r, i - 1))
                      ELSE IF i = data THEN 0 ELSE NodeAt(r, i + 1)

(* The assignment of p to q->next turns one more node round.                 *)
LEMMA TurnsOne ==
  ASSUME ListInv, listAt = "reverse", NEW k \in 1 .. data - 1, NEW r, r = reversals - 1, Stands(r, k)
  PROVE  /\ r \in Nat /\ data \in Nat /\ Len(nextNode) = data /\ k + 1 \in 1 .. data
         /\ p \in 1 .. data /\ q \in 1 .. data
         /\ nextNode[q] = IF k + 1 = data THEN 0 ELSE NodeAt(r, k + 2)
         /\ [nextNode EXCEPT ![q] = p] \in Seq(0 .. data) /\ Len([nextNode EXCEPT ![q] = p]) = data
         /\ TurnedIn([nextNode EXCEPT ![q] = p], r, k + 1)
<1>1. /\ data \in Nat /\ reversals \in 0 .. 2 /\ nextNode \in Seq(0 .. data) /\ reversals > 0
      /\ Len(nextNode) = data
  BY DEF ListInv
<1>2. r \in Nat /\ k \in 1 .. data /\ k + 1 \in 1 .. data /\ k \in Nat
  BY <1>1
<1>3. p \in 1 .. data /\ q \in 1 .. data
  BY <1>1, <1>2, NodesOnce DEF Stands
<1>4. nextNode[q] = IF k + 1 = data THEN 0 ELSE NodeAt(r, k + 2)
  <2>1. nextNode[NodeAt(r, k + 1)] = IF k + 1 <= k THEN (IF k + 1 = 1 THEN 0 ELSE NodeAt(r, k + 1 - 1))
                                 ELSE IF k + 1 = data THEN 0 ELSE NodeAt(r, k + 1 + 1)
    BY <1>2 DEF TurnedUpTo, Stands
  <2>2. ~(k + 1 <= k) /\ k + 1 + 1 = k + 2
    BY <1>2
  <2> QED
    BY <2>1, <2>2 DEF Stands
<1> DEFINE next == [nextNode EXCEPT ![q] = p]
<1>5. /\ next \in Seq(0 .. data) /\ Len(next) = data
      /\ \A i \in 1 .. data : next[i] = IF i = q THEN p ELSE nextNode[i]
  <2>1. p \in 0 .. data
    BY <1>3
  <2> QED
    BY <1>1, <1>3, <2>1, ExceptSeq
<1> HIDE DEF next
<1>6. ASSUME NEW i \in 1 .. data
      PROVE  next[NodeAt(r, i)] = IF i <= k + 1 THEN (IF i = 1 THEN 0 ELSE NodeAt(r, i - 1))
                              ELSE IF i = data THEN 0 ELSE NodeAt(r, i + 1)
  <2>1. NodeAt(r, i) \in 1 .. data /\ (NodeAt(r, i) = q <=> i = k + 1)
    BY <1>1, <1>2, NodesOnce DEF Stands
  <2>2. nextNode[NodeAt(r, i)] = IF i <= k THEN (IF i = 1 THEN 0 ELSE NodeAt(r, i - 1))
                             ELSE IF i = data THEN 0 ELSE NodeAt(r, i + 1)
    BY DEF TurnedUpTo, Stands
  <2>3. /\ i = k + 1 => i # 1 /\ i - 1 = k /\ i <= k + 1
        /\ i # k + 1 => (i <= k + 1 <=> i <= k)
    BY <1>1, <1>2
  <2> QED
    BY <1>5, <2>1, <2>2, <2>3 DEF Stands
<1> QED
  BY <1>1, <1>2, <1>3, <1>4, <1>5, <1>6 DEF TurnedIn, next

(* Every iteration keeps the invariant.                                      *)
LEMMA ListKept == ASSUME ListInv, [ListNext]_listVars PROVE ListInv'
<1>1. /\ data \in Nat /\ reversals \in 0 .. 2 /\ nextNode \in Seq(0 .. data)
      /\ Len(nextNode) \in Nat /\ nextNode \in [1 .. Len(nextNode) -> 0 .. data]
  BY LenProperties DEF ListInv
<1>2. ASSUME BuildNode PROVE ListInv'
  <2> DEFINE n == Len(nextNode)
  <2>1. /\ data' = data /\ p' = p /\ q' = q /\ reversals' = 0 /\ reversals = 0 /\ n \in Nat /\ n <= data
        /\ nextNode = [i \in 1 .. n |-> IF i < n THEN i + 1 ELSE 0]
        /\ head = IF n = 0 THEN 0 ELSE 1
    BY <1>1, <1>2 DEF BuildNode, ListInv
  <2>2. CASE n = data /\ nextNode' = nextNode /\ head' = head /\ listAt' = IF data = 0 THEN "undefined" ELSE "built"
    <3>1. ASSUME data # 0 PROVE TurnedUpTo(0, 0)' /\ head' = NodeAt(0, 1)'
      BY <2>1, <2>2, <3>1 DEF TurnedUpTo, NodeAt
    <3> QED
      BY <1>1, <2>1, <2>2, <3>1 DEF ListInv
  <2>3. CASE /\ n < data /\ head' = 1 /\ listAt' = listAt
             /\ nextNode' = [i \in 1 .. n + 1 |-> IF i <= n THEN i + 1 ELSE 0]
    <3>1. \A i \in 1 .. n + 1 : (IF i <= n THEN i + 1 ELSE 0) \in 0 .. data
      BY <1>1, <2>1, <2>3
    <3>2. nextNode' \in Seq(0 .. data)
      BY <2>1, <2>3, <3>1, IsASeq
    <3>3. Len(nextNode') = n + 1
      BY <2>1, <2>3
    <3>4. nextNode' = [i \in 1 .. n + 1 |-> IF i < n + 1 THEN i + 1 ELSE 0]
      BY <2>1, <2>3
    <3>5. n + 1 <= data /\ n + 1 # 0 /\ 1 \in 0 .. data
      BY <1>1, <2>1, <2>3
    <3>6. listAt' = "build"
      BY <1>2, <2>3 DEF BuildNode
    <3> HIDE DEF n
    <3> QED
      BY <1>1, <2>1, <2>3, <3>2, <3>3, <3>4, <3>5, <3>6 DEF ListInv
  <2> QED
    BY <1>2, <2>2, <2>3 DEF BuildNode
<1>3. ASSUME BeginReverse PROVE ListInv'
  <2> DEFINE r == reversals
  <2>0. listAt \in {"built", "over"} /\ reversals < 2 /\ reversals' = reversals + 1 /\ p' = head /\ q' = nextNode[head]
    BY <1>3 DEF BeginReverse
  <2>1. /\ data' = data /\ head' = head /\ reversals' = r + 1 /\ p' = head /\ q' = nextNode[head]
        /\ Len(nextNode) = data /\ data > 0 /\ TurnedUpTo(r, 0) /\ head = NodeAt(r, 1) /\ r \in Nat /\ r < 2
        /\ head \in 0 .. data
    <3>1. data' = data /\ head' = head
      BY <1>3 DEF BeginReverse
    <3>2. Len(nextNode) = data /\ data > 0 /\ TurnedUpTo(r, 0) /\ head = NodeAt(r, 1) /\ head \in 0 .. data
      BY <2>0 DEF ListInv
    <3>3. r \in Nat /\ r < 2 /\ reversals' = r + 1
      BY <1>1, <2>0
    <3> QED
      BY <2>0, <3>1, <3>2, <3>3
  <2>2. /\ 1 \in 1 .. data /\ head \in 1 .. data
        /\ nextNode[head] = IF data = 1 THEN 0 ELSE NodeAt(r, 2)
    <3>1. 1 \in 1 .. data
      BY <1>1, <2>1
    <3>2. nextNode[NodeAt(r, 1)] = IF 1 <= 0 THEN (IF 1 = 1 THEN 0 ELSE NodeAt(r, 1 - 1))
                               ELSE IF 1 = data THEN 0 ELSE NodeAt(r, 1 + 1)
      BY <2>1, <3>1 DEF TurnedUpTo
    <3>3. head \in 1 .. data
      BY <1>1, <2>1, <3>1, NodesOnce
    <3> QED
      BY <2>1, <3>1, <3>2, <3>3
  <2>3. q' \in 0 .. data
    BY <1>1, <2>1, <2>2
  <2>4. CASE data = 1
    <3>1. q' = 0 /\ listAt' = "over" /\ nextNode' = nextNode
      BY <1>3, <2>1, <2>2, <2>4 DEF BeginReverse
    <3>3. reversals' \in 0 .. 2 /\ reversals' # 0 /\ reversals' = r + 1
      BY <1>1, <2>1
    <3>4. TurnedUpTo(reversals, 0)' /\ head' = NodeAt(reversals, 1)'
      <4>1. \A i \in 1 .. data : i = 1 /\ NodeAt(r, 1) = 1
        BY <2>1, <2>4 DEF NodeAt
      <4>2. NodeAt(r + 1, 1) = 1 /\ nextNode[1] = 0 /\ head = 1
        BY <2>1, <2>2, <2>4 DEF NodeAt
      <4>3. TurnedUpTo(reversals, 0)'
        BY <2>1, <2>4, <3>1, <3>3, <4>1, <4>2 DEF TurnedUpTo, NodeAt
      <4>4. head' = NodeAt(reversals, 1)'
        BY <2>1, <2>4, <3>3, <4>2 DEF NodeAt
      <4> QED
        BY <4>3, <4>4
    <3>5. nextNode' \in Seq(0 .. data) /\ Len(nextNode') = data
      BY <1>1, <2>1, <3>1
    <3> HIDE DEF r
    <3> QED
      BY <1>1, <2>1, <2>3, <3>1, <3>3, <3>4, <3>5 DEF ListInv
  <2>5. CASE data # 1
    <3>1. 2 \in 1 .. data /\ 1 \in 1 .. data - 1
      BY <1>1, <2>1, <2>5
    <3>2. q' = NodeAt(r, 2) /\ q' \in 1 .. data
      BY <1>1, <2>1, <2>2, <2>5, <3>1, NodesOnce
    <3>3. listAt' = "reverse" /\ nextNode' = [nextNode EXCEPT ![head] = 0]
      BY <1>3, <3>2 DEF BeginReverse
    <3>4. nextNode' \in Seq(0 .. data) /\ Len(nextNode') = data
          /\ \A i \in 1 .. data : nextNode'[i] = IF i = head THEN 0 ELSE nextNode[i]
      BY <1>1, <2>1, <2>2, <3>3, ExceptSeq
    <3>5. ASSUME NEW i \in 1 .. data
          PROVE  nextNode'[NodeAt(r, i)] = IF i <= 1 THEN (IF i = 1 THEN 0 ELSE NodeAt(r, i - 1))
                                       ELSE IF i = data THEN 0 ELSE NodeAt(r, i + 1)
      <4>1. NodeAt(r, i) \in 1 .. data /\ (NodeAt(r, i) = head <=> i = 1)
        BY <1>1, <2>1, <2>2, NodesOnce
      <4>2. nextNode[NodeAt(r, i)] = IF i <= 0 THEN (IF i = 1 THEN 0 ELSE NodeAt(r, i - 1))
                                 ELSE IF i = data THEN 0 ELSE NodeAt(r, i + 1)
        BY <2>1 DEF TurnedUpTo
      <4>3. ~(i <= 0) /\ (i <= 1 <=> i = 1)
        BY <1>1
      <4> QED
        BY <3>4, <4>1, <4>2, <4>3
    <3>6. reversals' \in 0 .. 2 /\ reversals' > 0 /\ reversals' - 1 = r
      BY <1>1, <2>1
    <3>7. TurnedUpTo(reversals - 1, 1)'
      BY <2>1, <3>5, <3>6 DEF TurnedUpTo, NodeAt
    <3>8. p' = NodeAt(reversals - 1, 1)' /\ q' = NodeAt(reversals - 1, 1 + 1)'
      BY <2>1, <3>2, <3>6 DEF NodeAt
    <3>9. Stands(reversals - 1, 1)'
      BY <3>7, <3>8 DEF Stands
    <3>10. \E i \in 1 .. data' - 1 : Stands(reversals - 1, i)'
      BY <2>1, <3>1, <3>9
    <3> HIDE DEF r
    <3> QED
      BY <1>1, <2>1, <2>3, <3>3, <3>4, <3>6, <3>10 DEF ListInv
  <2> QED
    BY <2>4, <2>5
<1>4. ListInv
  OBVIOUS
<1>5. ASSUME ReverseNode PROVE ListInv'
  <2> DEFINE r == reversals - 1
  <2>1. PICK k \in 1 .. data - 1 : Stands(r, k)
    BY <1>5 DEF ReverseNode, ListInv
  <2>2. /\ data' = data /\ head' = head /\ reversals' = reversals /\ listAt' = "reverse" /\ listAt = "reverse"
        /\ nextNode' = [nextNode EXCEPT ![q] = p] /\ p' = q /\ q' = nextNode[q] /\ nextNode[q] # 0
        /\ head \in 0 .. data /\ reversals > 0
    BY <1>5 DEF ReverseNode, ListInv
  <2> HIDE DEF r
  <2>3. /\ r \in Nat /\ k + 1 \in 1 .. data /\ q \in 1 .. data
        /\ nextNode[q] = IF k + 1 = data THEN 0 ELSE NodeAt(r, k + 2)
        /\ nextNode' \in Seq(0 .. data) /\ Len(nextNode') = data
        /\ TurnedIn(nextNode', r, k + 1)
    BY <1>4, <2>1, <2>2, TurnsOne DEF r
  <2>4. k + 1 # data /\ q' = NodeAt(r, k + 2) /\ k + 1 \in 1 .. data - 1 /\ k + 2 \in 1 .. data /\ k + 1 + 1 = k + 2
    BY <1>1, <2>2, <2>3
  <2>5. q' \in 1 .. data
    BY <1>1, <2>3, <2>4, NodesOnce
  <2>6. TurnedUpTo(r, k + 1)' /\ p' = NodeAt(r, k + 1)' /\ q' = NodeAt(r, k + 1 + 1)'
    <3>1. r' = r
      BY <2>2 DEF r
    <3>2. TurnedUpTo(r, k + 1)'
      BY <2>2, <2>3, <3>1 DEF TurnedUpTo, TurnedIn, NodeAt
    <3> QED
      BY <2>1, <2>2, <2>4, <3>1, <3>2 DEF NodeAt, Stands
  <2>7. \E i \in 1 .. data' - 1 : Stands(reversals - 1, i)'
    BY <2>2, <2>4, <2>6 DEF Stands, r
  <2>8. q \in 0 .. data /\ q' \in 0 .. data
    BY <1>1, <2>3, <2>5
  <2> QED
    BY <1>1, <2>2, <2>3, <2>7, <2>8 DEF ListInv
<1>6. ASSUME EndReverse PROVE ListInv'
  <2> DEFINE r == reversals - 1
  <2>1. PICK k \in 1 .. data - 1 : Stands(r, k)
    BY <1>6 DEF EndReverse, ListInv
  <2>2. /\ data' = data /\ head' = q /\ reversals' = reversals /\ listAt' = "over" /\ listAt = "reverse"
        /\ nextNode' = [nextNode EXCEPT ![q] = p] /\ p' = p /\ q' = q /\ nextNode[q] = 0
        /\ p \in 0 .. data /\ q \in 0 .. data /\ reversals > 0
    BY <1>6 DEF EndReverse, ListInv
  <2> HIDE DEF r
  <2>3. /\ r \in Nat /\ k + 1 \in 1 .. data /\ q = NodeAt(r, k + 1)
        /\ nextNode[q] = IF k + 1 = data THEN 0 ELSE NodeAt(r, k + 2)
        /\ nextNode' \in Seq(0 .. data) /\ Len(nextNode') = data
        /\ TurnedIn(nextNode', r, k + 1)
    BY <1>4, <2>1, <2>2, TurnsOne DEF r, Stands
  <2>4. k + 1 = data
    <3>1. k + 1 # data => k + 2 \in 1 .. data
      BY <1>1, <2>3
    <3>2. k + 1 # data => NodeAt(r, k + 2) \in 1 .. data
      BY <1>1, <2>3, <3>1, NodesOnce
    <3>3. 0 \notin 1 .. data
      BY <1>1
    <3> QED
      BY <2>2, <2>3, <3>2, <3>3
  <2>5. ASSUME NEW i \in 1 .. data
        PROVE  nextNode'[NodeAt(reversals, i)] = IF i = data THEN 0 ELSE NodeAt(reversals, i + 1)
    <3> DEFINE j == data + 1 - i
    <3>1. /\ j \in 1 .. data /\ NodeAt(reversals, i) = NodeAt(r, j) /\ (j = 1 <=> i = data) /\ j <= k + 1
          /\ i # data => NodeAt(reversals, i + 1) = NodeAt(r, j - 1)
      BY <1>1, <2>2, <2>4 DEF NodeAt, r
    <3> HIDE DEF j
    <3>2. nextNode'[NodeAt(r, j)] = IF j <= k + 1 THEN (IF j = 1 THEN 0 ELSE NodeAt(r, j - 1))
                                ELSE IF j = data THEN 0 ELSE NodeAt(r, j + 1)
      BY <2>3, <3>1 DEF TurnedIn
    <3> QED
      BY <3>1, <3>2
  <2>6. TurnedUpTo(reversals, 0)'
    <3>1. \A i \in 1 .. data : ~(i <= 0)
      BY <1>1
    <3> QED
      BY <2>2, <2>5, <3>1 DEF TurnedUpTo, NodeAt
  <2>7. head' = NodeAt(reversals, 1)' /\ data > 0
    BY <1>1, <2>2, <2>3, <2>4 DEF NodeAt, r
  <2> QED
    BY <1>1, <2>2, <2>3, <2>6, <2>7 DEF ListInv
<1>7. CASE UNCHANGED listVars
  BY <1>7 DEF listVars, ListInv, Stands, TurnedUpTo, NodeAt
<1> QED
  BY <1>2, <1>3, <1>5, <1>6, <1>7 DEF ListNext

(* With the invariant the list is turned as often as was asked for.          *)
LEMMA ListIsCorrect == ASSUME ListInv PROVE ListCorrect
<1>1. /\ data \in Nat /\ reversals \in 0 .. 2
      /\ Len(nextNode) \in Nat /\ nextNode \in [1 .. Len(nextNode) -> 0 .. data] /\ DOMAIN nextNode = 1 .. Len(nextNode)
  BY LenProperties DEF ListInv
<1>2. ListTypeOK
  BY <1>1 DEF ListTypeOK, ListInv
<1>3. HeadLeads
  <2> SUFFICES ASSUME listAt \in {"built", "over"} PROVE Leads(head, Order(reversals))
    BY DEF HeadLeads
  <2> DEFINE s == Order(reversals)
  <2>1. TurnedUpTo(reversals, 0) /\ head = NodeAt(reversals, 1) /\ data > 0
    BY DEF ListInv
  <2>2. DOMAIN s = 1 .. data /\ Len(s) = data /\ s # <<>> /\ \A i \in 1 .. data : s[i] = NodeAt(reversals, i)
    BY <1>1, <2>1 DEF Order, NodeAt
  <2> HIDE DEF s
  <2>3. \A i \in 1 .. data : nextNode[s[i]] = IF i = data THEN 0 ELSE s[i + 1]
    <3>1. \A i \in 1 .. data : ~(i <= 0) /\ (i # data => i + 1 \in 1 .. data)
      BY <1>1
    <3> QED
      BY <2>1, <2>2, <3>1 DEF TurnedUpTo
  <2>4. s[1] = head
    BY <1>1, <2>1, <2>2
  <2>5. Leads(head, s)
    BY <2>2, <2>3, <2>4 DEF Leads
  <2> QED
    BY <2>5 DEF s
<1>4. TwoPieces
  <2> SUFFICES ASSUME listAt = "reverse"
               PROVE  \E k \in 1 .. data - 1 :
                        /\ Leads(p, [i \in 1 .. k |-> Order(reversals - 1)[k + 1 - i]])
                        /\ Leads(q, [i \in 1 .. data - k |-> Order(reversals - 1)[k + i]])
    BY DEF TwoPieces
  <2> DEFINE r == reversals - 1
             order == Order(r)
  <2>1. PICK k \in 1 .. data - 1 : TurnedUpTo(r, k) /\ p = NodeAt(r, k) /\ q = NodeAt(r, k + 1)
    BY DEF ListInv, Stands
  <2>2. \A i \in 1 .. data : order[i] = NodeAt(r, i)
    BY <1>1 DEF Order, NodeAt
  <2> DEFINE s == [i \in 1 .. k |-> order[k + 1 - i]]
             t == [i \in 1 .. data - k |-> order[k + i]]
  <2> HIDE DEF order, r
  <2>3. Leads(p, s)
    <3>1. DOMAIN s = 1 .. k /\ Len(s) = k /\ s # <<>> /\ s[1] = order[k]
      BY <1>1
    <3>2. ASSUME NEW i \in 1 .. k PROVE nextNode[s[i]] = IF i = k THEN 0 ELSE s[i + 1]
      <4> DEFINE j == k + 1 - i
      <4>1. j \in 1 .. data /\ j <= k /\ s[i] = order[j] /\ (j = 1 <=> i = k)
        BY <1>1
      <4>2. i # k => s[i + 1] = order[j - 1] /\ j - 1 \in 1 .. data
        BY <1>1
      <4>3. nextNode[NodeAt(r, j)] = IF j <= k THEN (IF j = 1 THEN 0 ELSE NodeAt(r, j - 1))
                                 ELSE IF j = data THEN 0 ELSE NodeAt(r, j + 1)
        BY <2>1, <4>1 DEF TurnedUpTo
      <4> HIDE DEF j, s
      <4> QED
        BY <2>2, <4>1, <4>2, <4>3
    <3>3. s[1] = p
      BY <1>1, <2>1, <2>2, <3>1
    <3> HIDE DEF s
    <3> QED
      BY <3>1, <3>2, <3>3 DEF Leads
  <2>4. Leads(q, t)
    <3>1. DOMAIN t = 1 .. data - k /\ Len(t) = data - k /\ t # <<>> /\ t[1] = order[k + 1]
      BY <1>1
    <3>2. ASSUME NEW i \in 1 .. data - k PROVE nextNode[t[i]] = IF i = data - k THEN 0 ELSE t[i + 1]
      <4> DEFINE j == k + i
      <4>1. j \in 1 .. data /\ ~(j <= k) /\ t[i] = order[j] /\ (j = data <=> i = data - k)
        BY <1>1
      <4>2. i # data - k => t[i + 1] = order[j + 1] /\ j + 1 \in 1 .. data
        BY <1>1
      <4>3. nextNode[NodeAt(r, j)] = IF j <= k THEN (IF j = 1 THEN 0 ELSE NodeAt(r, j - 1))
                                 ELSE IF j = data THEN 0 ELSE NodeAt(r, j + 1)
        BY <2>1, <4>1 DEF TurnedUpTo
      <4> HIDE DEF j, t
      <4> QED
        BY <2>2, <4>1, <4>2, <4>3
    <3>3. t[1] = q
      BY <1>1, <2>1, <2>2, <3>1
    <3> HIDE DEF t
    <3> QED
      BY <3>1, <3>2, <3>3 DEF Leads
  <2> QED
    BY <2>3, <2>4 DEF order, r, s, t
<1> QED
  BY <1>2, <1>3, <1>4 DEF ListCorrect

(* reverseList() turns a list of any length round and loses none of its      *)
(* nodes on the way.                                                         *)
THEOREM ListsAreTurned == ListSpec => []ListCorrect
<1>1. ListSpec => []ListInv
  BY ListStarts, ListKept, PTL DEF ListSpec
<1> QED
  BY <1>1, ListIsCorrect, PTL

(* Whatever was pushed, inserted, erased or turned round, these containers   *)
(* are in order.                                                             *)
THEOREM OrderHolds == HeapSpec /\ SkipSpec /\ ListSpec => []OrderCorrect
<1>1. HeapCorrect /\ SkipCorrect /\ ListCorrect => OrderCorrect
  BY DEF OrderCorrect
<1> QED
  BY <1>1, HeapsKeepOrder, SkipListIsAMap, ListsAreTurned, PTL
==============================================================================
