------------------------ MODULE TopologicalOrderProofs ------------------------
(***************************************************************************)
(* For every number of projects, and whatever they depend on: the order is *)
(* topological, message generators come first, and a cycle is reported if  *)
(* there is one.                                                           *)
(***************************************************************************)
EXTENDS Integers, TopologicalOrder, FiniteSetTheorems, WellFoundedInduction, TLAPS

-----------------------------------------------------------------------------
(* Least elements.                                                         *)

LessThan == {ss \in Nat \X Nat : ss[1] < ss[2]}

\* A set of numbers has a least one, unless it is empty.
LEMMA LeastNumber ==
  ASSUME NEW T \in SUBSET Nat, T # {}
  PROVE  \E n \in T : \A m \in T : n <= m
<1>1. IsWellFoundedOn(LessThan, Nat)
  BY NatLessThanWellFounded DEF OpToRel, LessThan
<1>2. T \subseteq Nat
  OBVIOUS
<1>3. \E x \in T : \A y \in T : ~(<<y, x>> \in LessThan)
  BY <1>1, <1>2, WFMin, Zenon
<1>4. PICK x \in T : \A y \in T : ~(<<y, x>> \in LessThan)
  BY <1>3
<1>5. \A y \in T : x <= y
  <2> TAKE y \in T
  <2>1. <<y, x>> \notin LessThan
    BY <1>4
  <2> QED
    BY <2>1 DEF LessThan
<1> QED
  BY <1>5

\* Among subsets of a finite set, given by where they belong, there is one
\* that has no other below it.
THEOREM SmallestSubset ==
  ASSUME NEW S, IsFiniteSet(S), NEW I, I # {}, NEW f \in [I -> SUBSET S]
  PROVE  \E i \in I : \A j \in I : f[j] \subseteq f[i] => f[j] = f[i]
<1> DEFINE size(i) == Cardinality(f[i])
           T == {size(i) : i \in I}
<1>1. \A i \in I : IsFiniteSet(f[i]) /\ size(i) \in Nat
  BY FS_Subset, FS_CardinalityType
<1>2. T \in SUBSET Nat /\ T # {}
  BY <1>1
<1> HIDE DEF T
<1>3. PICK n \in T : \A m \in T : n <= m
  BY <1>2, LeastNumber
<1>4. PICK i \in I : n = size(i)
  BY <1>3 DEF T
<1>5. ASSUME NEW j \in I, f[j] \subseteq f[i] PROVE f[j] = f[i]
  <2>1. size(i) <= size(j)
    BY <1>3, <1>4 DEF T
  <2>2. /\ size(j) <= size(i)
        /\ size(i) = size(j) => f[i] = f[j]
    BY <1>1, <1>5, FS_Subset
  <2> HIDE DEF size
  <2> QED
    BY <1>1, <2>1, <2>2
<1> QED
  BY <1>5

-----------------------------------------------------------------------------
(* Closures.                                                               *)

\* C has what its members need of dep.
Closed(C, dep) == \A n \in C : dep[n] \cap Known \subseteq C

\* There is a least closed set, and Closure is that.
LEMMA ClosureIsLeast ==
  ASSUME NEW S \in SUBSET Known, NEW dep
  PROVE  /\ Closure(S, dep) \in SUBSET Known
         /\ S \subseteq Closure(S, dep) /\ Closed(Closure(S, dep), dep)
         /\ \A D \in SUBSET Known :
              S \subseteq D /\ Closed(D, dep) => Closure(S, dep) \subseteq D
<1> DEFINE Is(C) == /\ S \subseteq C /\ \A n \in C : dep[n] \cap Known \subseteq C
                    /\ \A D \in SUBSET C :
                         S \subseteq D /\ (\A n \in D : dep[n] \cap Known \subseteq D) => D = C
           All == {n \in Known : \A D \in SUBSET Known :
                                  S \subseteq D /\ Closed(D, dep) => n \in D}
<1>1. S \subseteq All /\ Closed(All, dep) /\ All \in SUBSET Known
  BY DEF Closed
<1>2. \A D \in SUBSET All : S \subseteq D /\ Closed(D, dep) => D = All
  OBVIOUS
<1>3. Is(All)
  BY <1>1, <1>2 DEF Closed
<1>4. \E C \in SUBSET Known : Is(C)
  BY <1>1, <1>3
<1>5. Closure(S, dep) = CHOOSE C \in SUBSET Known : Is(C)
  BY DEF Closure
<1> HIDE DEF Is
<1>6. Closure(S, dep) \in SUBSET Known /\ Is(Closure(S, dep))
  BY <1>4, <1>5
<1> DEFINE C == Closure(S, dep)
<1> HIDE DEF C
<1>7. ASSUME NEW D \in SUBSET Known, S \subseteq D, Closed(D, dep)
      PROVE  C \subseteq D
  <2>1. S \subseteq C \cap D /\ Closed(C \cap D, dep)
    BY <1>6, <1>7 DEF Is, Closed, C
  <2>2. C \cap D = C
    BY <1>6, <2>1 DEF Is, Closed, C
  <2> QED
    BY <2>2
<1> QED
  BY <1>6, <1>7 DEF Is, Closed, C

\* The projects of the workspace are as the assumption says.
InputInv ==
  /\ origin \in [Names -> Origins] /\ builddeps \in Deps /\ rundeps \in Deps
  /\ generators \subseteq Names

\* What a project needs is known, includes its build dependencies, and is
\* closed under run dependencies.
LEMMA NeedsFacts ==
  ASSUME NEW n \in Names
  PROVE  /\ Needs[n] \in SUBSET Known
         /\ builddeps[n] \cap Known \subseteq Needs[n] /\ Closed(Needs[n], rundeps)
         /\ \A D \in SUBSET Known :
              builddeps[n] \cap Known \subseteq D /\ Closed(D, rundeps) => Needs[n] \subseteq D
<1>1. Needs[n] = Closure(builddeps[n] \cap Known, rundeps)
  BY DEF Needs
<1> QED
  BY <1>1, ClosureIsLeast

\* Whoever is reached reaches no further.
LEMMA ReachFacts ==
  ASSUME NEW n \in Known
  PROVE  /\ Reach(n) \in SUBSET Known /\ Needs[n] \subseteq Reach(n)
         /\ \A m \in Reach(n) : Needs[m] \subseteq Reach(n) /\ Reach(m) \subseteq Reach(n)
         /\ \A D \in SUBSET Known :
              Needs[n] \subseteq D /\ (\A m \in D : Needs[m] \subseteq D) => Reach(n) \subseteq D
<1>1. \A k \in Known : Needs[k] \in SUBSET Known
  BY NeedsFacts DEF Known
<1>2. \A k \in Known :
        /\ Reach(k) \in SUBSET Known /\ Needs[k] \subseteq Reach(k)
        /\ Closed(Reach(k), Needs)
        /\ \A D \in SUBSET Known :
             Needs[k] \subseteq D /\ Closed(D, Needs) => Reach(k) \subseteq D
  BY <1>1, ClosureIsLeast DEF Reach
<1>3. \A D \in SUBSET Known : Closed(D, Needs) <=> \A m \in D : Needs[m] \subseteq D
  BY <1>1 DEF Closed
<1> QED
  BY <1>2, <1>3

\* Whoever is reached is needed by another that is, or by the one it starts at.
LEMMA ReachedFrom ==
  ASSUME NEW n \in Known, NEW m \in Reach(n)
  PROVE  \E k \in Reach(n) \cup {n} : m \in Needs[k]
<1> DEFINE D == {x \in Reach(n) : \E k \in Reach(n) \cup {n} : x \in Needs[k]}
<1>1. Needs[n] \subseteq D /\ (\A x \in D : Needs[x] \subseteq D) /\ D \in SUBSET Known
  BY ReachFacts
<1>2. Reach(n) \subseteq D
  BY <1>1, ReachFacts
<1> QED
  BY <1>2

-----------------------------------------------------------------------------
(* Cycles.                                                                 *)

LEMMA KnownFinite == Known \subseteq Names /\ Names \subseteq Nat /\ IsFiniteSet(Known)
<1>1. Known \in SUBSET Names
  BY DEF Known
<1> QED
  BY <1>1, WorkspacesAssumption, FS_Subset DEF WorkspacesAssumption

\* Who only needs what needs something in its turn gets to a cycle.
LEMMA ForwardToCycle ==
  ASSUME NEW P \in SUBSET Known, \A n \in P : Needs[n] \cap P # {}, NEW n \in P
  PROVE  Reach(n) \cap Cyclic # {}
<1> DEFINE I == Reach(n) \cap P
           f == [m \in I |-> Reach(m) \cap P]
<1>1. I # {} /\ I \subseteq Known
  BY ReachFacts
<1>2. f \in [I -> SUBSET P] /\ IsFiniteSet(P)
  BY KnownFinite, FS_Subset
<1> HIDE DEF I, f
<1>3. PICK m \in I : \A k \in I : f[k] \subseteq f[m] => f[k] = f[m]
  BY <1>1, <1>2, SmallestSubset
<1>4. m \in P /\ m \in Known /\ m \in Reach(n)
  BY <1>1 DEF I
<1>5. PICK k \in P : k \in Needs[m]
  BY <1>4
<1>6. k \in Reach(m) /\ Reach(k) \subseteq Reach(m) /\ Reach(m) \subseteq Reach(n)
  BY <1>4, <1>5, ReachFacts
<1>7. k \in I /\ k \in Known
  BY <1>6, <1>5 DEF I
<1>8. f[k] = f[m]
  BY <1>3, <1>6, <1>7 DEF f
<1>9. k \in Reach(k)
  BY <1>4, <1>5, <1>6, <1>7, <1>8 DEF f
<1> QED
  BY <1>6, <1>7, <1>9 DEF Cyclic

\* Who is only needed by what is needed in its turn comes from a cycle.
LEMMA BackwardToCycle ==
  ASSUME NEW P \in SUBSET Known, \A n \in P : \E m \in P : n \in Needs[m], NEW n \in P
  PROVE  \E m \in Cyclic : n \in Reach(m)
<1> DEFINE I == {m \in P : n \in Reach(m)}
           f == [m \in I |-> {k \in P : m \in Reach(k)}]
<1>1. I # {} /\ I \subseteq Known
  BY ReachFacts
<1>2. f \in [I -> SUBSET P] /\ IsFiniteSet(P)
  BY KnownFinite, FS_Subset
<1> HIDE DEF I, f
<1>3. PICK m \in I : \A k \in I : f[k] \subseteq f[m] => f[k] = f[m]
  BY <1>1, <1>2, SmallestSubset
<1>4. m \in P /\ m \in Known /\ n \in Reach(m)
  BY <1>1 DEF I
<1>5. PICK k \in P : m \in Needs[k]
  BY <1>4
<1>6. m \in Reach(k) /\ Reach(m) \subseteq Reach(k)
  BY <1>5, ReachFacts
<1>7. k \in I /\ k \in Known
  BY <1>4, <1>6 DEF I
<1>8. f[k] \subseteq f[m]
  <2> SUFFICES ASSUME NEW x \in P, k \in Reach(x) PROVE m \in Reach(x)
    BY <1>7 DEF f
  <2>1. Reach(k) \subseteq Reach(x)
    BY ReachFacts
  <2> QED
    BY <1>6, <2>1
<1>9. f[k] = f[m]
  BY <1>3, <1>7, <1>8
<1>10. k \in Reach(k)
  BY <1>5, <1>6, <1>7, <1>9 DEF f
<1> QED
  BY <1>4, <1>6, <1>7, <1>10 DEF Cyclic

\* Whoever lies between cycles is needed by another that does.
LEMMA BetweenIsNeeded ==
  ASSUME NEW n \in Between
  PROVE  \E m \in Between : n \in Needs[m]
<1>1. PICK c \in Cyclic : n \in Reach(c)
  BY DEF Between
<1>2. c \in Known /\ c \in Reach(c) /\ n \in Known
  BY DEF Cyclic, Between
<1>3. PICK m \in Reach(c) : n \in Needs[m]
  BY <1>1, <1>2, ReachedFrom
<1>4. m \in Known
  BY <1>2, ReachFacts
<1>5. Reach(n) \subseteq Reach(m)
  BY <1>3, <1>4, ReachFacts
<1>6. m \in Between
  BY <1>4, <1>5 DEF Between
<1> QED
  BY <1>3, <1>6

-----------------------------------------------------------------------------
(* The invariant: one part for each loop.                                  *)

TypeInv ==
  /\ InputInv
  /\ pc \in {"decorate", "mark", "sort", "sorted", "reduce", "cyclic", "returned"}
  /\ depends \in [Names -> SUBSET Known] /\ called \in [Names -> SUBSET Known]
  /\ marked \in SUBSET Known /\ follow \in SUBSET Known /\ projects \in SUBSET Known
  /\ ordered \in Seq(Known) /\ cycle \in SUBSET Known /\ at \in 0 .. Len(ordered)
  /\ list \in Seq(Names) /\ result \in {"none", "order", "AttributeError", "TypeError"}

\* What is there and what is yet to be called is needed, and is all that is.
DecorateInv ==
  pc = "decorate" => \A p \in Known :
    /\ depends[p] \cup called[p] \subseteq Needs[p]
    /\ builddeps[p] \cap Known \subseteq depends[p] \cup called[p]
    /\ \A n \in depends[p] : rundeps[n] \cap Known \subseteq depends[p] \cup called[p]

\* What is marked comes first, and what it needs is marked or to be followed.
MarkInv ==
  pc = "mark" =>
    /\ projects = Known /\ \A n \in Known : depends[n] = Needs[n]
    /\ generators \cap Known \subseteq marked /\ marked \subseteq First
    /\ follow \subseteq marked /\ \A n \in marked \ follow : Needs[n] \subseteq marked

Sorting == pc \notin {"decorate", "mark"}

\* The projects left depend on what they need of those left; the others are
\* ordered, each once and after all it needs.
SortInv ==
  /\ ~Sorting => ordered = <<>>
  /\ Sorting =>
       /\ marked = First
       /\ \A n \in projects : depends[n] = Needs[n] \cap projects
       /\ \A n \in Known : n \notin projects <=> \E i \in 1 .. Len(ordered) : ordered[i] = n
       /\ \A i, j \in 1 .. Len(ordered) : ordered[i] = ordered[j] => i = j
       /\ \A i \in 1 .. Len(ordered) : \A m \in Needs[ordered[i]] :
            \E j \in 1 .. i - 1 : ordered[j] = m

\* When one is ordered that is not marked, each of the marked ones left waits
\* for another, and will for ever.
MarkedInv ==
  Sorting => \A i \in 1 .. Len(ordered) : ordered[i] \notin marked =>
    /\ \A j \in 1 .. Len(ordered) : ordered[j] \in marked => j < i
    /\ \A m \in projects \cap marked : depends[m] \cap marked # {}

\* A cycle's entry is made of projects that wait, and keeps those between
\* cycles; in the end, each of them is needed by another.
CycleInv ==
  /\ pc \in {"decorate", "mark", "sort"} => cycle = {} /\ last_depended = {}
  /\ pc = "sorted" \/ result = "order" => projects = {} /\ cycle = {}
  /\ pc \in {"reduce", "cyclic"} \/ result \in {"AttributeError", "TypeError"} =>
       /\ projects # {} /\ Ready = {}
       /\ Between \subseteq cycle /\ cycle \subseteq projects
  /\ pc = "reduce" /\ last_depended # {} => cycle \subseteq last_depended
  /\ pc = "cyclic" \/ result = "AttributeError" => cycle \subseteq DependedBy(cycle)
  /\ result # "TypeError" /\ (result # "none" <=> pc = "returned")

\* The list has those of the workspace among the ones looked at, in order.
ListInv ==
  /\ pc \notin {"sorted", "returned"} => at = 0
  /\ result = "order" => at = Len(ordered)
  /\ \A i \in 1 .. Len(list) :
       InWorkspace(list[i]) /\ \E k \in 1 .. at : ordered[k] = list[i]
  /\ \A k \in 1 .. at : InWorkspace(ordered[k]) =>
       \E i \in 1 .. Len(list) : list[i] = ordered[k]
  /\ \A i, j \in 1 .. Len(list), k, l \in 1 .. at :
       i < j /\ ordered[k] = list[i] /\ ordered[l] = list[j] => k < l

Inv == /\ TypeInv /\ DecorateInv /\ MarkInv /\ SortInv /\ MarkedInv /\ CycleInv
       /\ ListInv

\* Nothing changes the projects, and so what they need.
LEMMA InputKept ==
  ASSUME UNCHANGED input
  PROVE  /\ Known' = Known /\ Needs' = Needs /\ First' = First /\ Between' = Between
         /\ InputInv' <=> InputInv
<1>1. Known' = Known
  BY DEF Known, input
<1>2. UNCHANGED <<origin, builddeps, rundeps, generators>>
  BY DEF input
<1>3. \A S, dep : Closure(S, dep)' = Closure(S, dep)
  BY <1>1 DEF Closure
<1>4. Needs' = Needs
  BY <1>1, <1>2, <1>3 DEF Needs
<1>5. First' = First
  BY <1>1, <1>2, <1>4 DEF First, Closure
<1>6. \A n : Reach(n)' = Reach(n)
  BY <1>1, <1>4 DEF Reach, Closure
<1>7. Cyclic' = Cyclic
  BY <1>1, <1>6 DEF Cyclic
<1>8. Between' = Between
  BY <1>1, <1>6, <1>7 DEF Between
<1> QED
  BY <1>1, <1>2, <1>4, <1>5, <1>8 DEF InputInv

LEMMA InvInit == Init => Inv
<1> SUFFICES ASSUME Init PROVE Inv
  OBVIOUS
<1> USE DEF Init
<1>1. InputInv
  BY WorkspacesAssumption DEF WorkspacesAssumption, InputInv
<1>2. TypeInv
  BY <1>1 DEF TypeInv
<1>3. DecorateInv
  BY NeedsFacts DEF DecorateInv, Known
<1>4. MarkInv /\ SortInv /\ MarkedInv /\ CycleInv /\ ListInv
  BY DEF MarkInv, SortInv, MarkedInv, CycleInv, ListInv, Sorting
<1> QED
  BY <1>2, <1>3, <1>4 DEF Inv

LEMMA AddStep ==
  ASSUME Inv, NEW p \in Names, NEW n \in Names, Add(p, n)
  PROVE  Inv'
<1> DEFINE fresh == (rundeps[n] \cap Known) \ (depends[p] \cup {n})
<1>1. /\ pc = "decorate" /\ n \in called[p] /\ n \in Known
      /\ depends' = [depends EXCEPT ![p] = @ \cup {n}]
      /\ called' = [called EXCEPT ![p] = (@ \ {n}) \cup fresh]
      /\ UNCHANGED <<input, pc, marking, projects, ordered, reduction, output>>
  BY DEF Add, Inv, TypeInv
<1>2. Known' = Known /\ Needs' = Needs /\ (InputInv' <=> InputInv) /\ Between' = Between
  BY <1>1, InputKept
<1>3. TypeInv'
  BY <1>1, <1>2 DEF Inv, TypeInv, marking, reduction, output
<1>4. DecorateInv'
  <2> SUFFICES ASSUME NEW q \in Known
               PROVE  /\ depends'[q] \cup called'[q] \subseteq Needs[q]
                      /\ builddeps[q] \cap Known \subseteq depends'[q] \cup called'[q]
                      /\ \A m \in depends'[q] :
                           rundeps[m] \cap Known \subseteq depends'[q] \cup called'[q]
    BY <1>1, <1>2 DEF DecorateInv, input
  <2>1. /\ depends[q] \cup called[q] \subseteq Needs[q]
        /\ builddeps[q] \cap Known \subseteq depends[q] \cup called[q]
        /\ \A m \in depends[q] : rundeps[m] \cap Known \subseteq depends[q] \cup called[q]
    BY <1>1 DEF Inv, DecorateInv
  <2>2. CASE q # p
    BY <1>1, <2>1, <2>2 DEF Inv, TypeInv
  <2>3. CASE q = p
    <3>1. depends'[q] = depends[q] \cup {n} /\ called'[q] = (called[q] \ {n}) \cup fresh
      BY <1>1, <2>3 DEF Inv, TypeInv
    <3>2. fresh \subseteq Needs[q]
      BY <1>1, <2>1, <2>3, NeedsFacts DEF Closed, Known
    <3> QED
      BY <1>1, <2>1, <2>3, <3>1, <3>2
  <2> QED
    BY <2>2, <2>3
<1>5. MarkInv' /\ SortInv' /\ MarkedInv' /\ ListInv'
  BY <1>1 DEF Inv, MarkInv, SortInv, MarkedInv, ListInv, Sorting, output, InWorkspace,
              input
<1>6. CycleInv'
  BY <1>1 DEF Inv, CycleInv, output, reduction
<1> QED
  BY <1>3, <1>4, <1>5, <1>6 DEF Inv

LEMMA DecoratedStep ==
  ASSUME Inv, Decorated
  PROVE  Inv'
<1>1. /\ pc = "decorate" /\ pc' = "mark" /\ projects' = Known
      /\ marked' = generators \cap Known /\ follow' = generators \cap Known
      /\ UNCHANGED <<input, depends, called, ordered, reduction, output>>
      /\ \A n \in Names : called[n] = {}
  BY DEF Decorated
<1>2. Known' = Known /\ Needs' = Needs /\ First' = First /\ (InputInv' <=> InputInv)
  BY <1>1, InputKept
<1>3. TypeInv'
  BY <1>1, <1>2 DEF Inv, TypeInv, reduction, output
<1>4. \A n \in Known : depends[n] = Needs[n]
  <2> SUFFICES ASSUME NEW n \in Known PROVE depends[n] = Needs[n]
    OBVIOUS
  <2>1. n \in Names /\ depends[n] \in SUBSET Known
    BY DEF Known, Inv, TypeInv
  <2>2. /\ depends[n] \subseteq Needs[n] /\ builddeps[n] \cap Known \subseteq depends[n]
        /\ \A m \in depends[n] : rundeps[m] \cap Known \subseteq depends[n]
    BY <1>1, <2>1 DEF Inv, DecorateInv
  <2>3. Needs[n] \subseteq depends[n]
    BY <2>1, <2>2, NeedsFacts DEF Closed
  <2> QED
    BY <2>2, <2>3
<1>5. generators \cap Known \subseteq First
  BY ClosureIsLeast DEF First
<1>6. MarkInv'
  BY <1>1, <1>2, <1>4, <1>5 DEF MarkInv, input
<1>7. DecorateInv' /\ SortInv' /\ MarkedInv' /\ ListInv'
  BY <1>1 DEF Inv, DecorateInv, SortInv, MarkedInv, ListInv, Sorting, output,
              InWorkspace, input
<1>8. CycleInv'
  BY <1>1 DEF Inv, CycleInv, output, reduction
<1> QED
  BY <1>3, <1>6, <1>7, <1>8 DEF Inv

LEMMA MarkStep ==
  ASSUME Inv, NEW n \in Names, Mark(n)
  PROVE  Inv'
<1>1. /\ pc = "mark" /\ n \in follow /\ n \in Known
      /\ marked' = marked \cup depends[n]
      /\ follow' = (follow \ {n}) \cup (depends[n] \ marked)
      /\ UNCHANGED <<input, pc, sorting>>
  BY DEF Mark, Inv, TypeInv
<1>2. Known' = Known /\ Needs' = Needs /\ First' = First /\ (InputInv' <=> InputInv)
  BY <1>1, InputKept
<1>3. TypeInv'
  BY <1>1, <1>2 DEF Inv, TypeInv, reduction, output, sorting
<1>4. /\ projects = Known /\ \A m \in Known : depends[m] = Needs[m]
      /\ generators \cap Known \subseteq marked /\ marked \subseteq First
      /\ follow \subseteq marked /\ \A m \in marked \ follow : Needs[m] \subseteq marked
  BY <1>1 DEF Inv, MarkInv
<1>5. depends[n] \subseteq First
  <2>1. Closed(First, Needs) /\ Needs[n] \in SUBSET Known
    BY <1>1, ClosureIsLeast, NeedsFacts DEF First
  <2> QED
    BY <1>1, <1>4, <2>1 DEF Closed
<1>6. MarkInv'
  BY <1>1, <1>2, <1>4, <1>5 DEF MarkInv, input, sorting
<1>7. DecorateInv' /\ SortInv' /\ MarkedInv' /\ ListInv'
  BY <1>1 DEF Inv, DecorateInv, SortInv, MarkedInv, ListInv, Sorting, output,
              InWorkspace, input, sorting
<1>8. CycleInv'
  BY <1>1 DEF Inv, CycleInv, output, reduction, sorting
<1> QED
  BY <1>3, <1>6, <1>7, <1>8 DEF Inv

LEMMA MarkedStep ==
  ASSUME Inv, Marked
  PROVE  Inv'
<1>1. /\ pc = "mark" /\ follow = {} /\ pc' = "sort"
      /\ UNCHANGED <<input, marking, sorting>>
  BY DEF Marked
<1>2. Known' = Known /\ Needs' = Needs /\ First' = First /\ (InputInv' <=> InputInv)
  BY <1>1, InputKept
<1>3. TypeInv'
  BY <1>1, <1>2 DEF Inv, TypeInv, reduction, output, sorting, marking
<1>4. /\ projects = Known /\ \A m \in Known : depends[m] = Needs[m]
      /\ generators \cap Known \subseteq marked /\ marked \subseteq First
      /\ \A m \in marked : Needs[m] \subseteq marked /\ marked \in SUBSET Known
      /\ ordered = <<>>
  BY <1>1 DEF Inv, MarkInv, TypeInv, SortInv, Sorting
<1>5. marked = First
  <2>1. Closed(marked, Needs)
    BY <1>4 DEF Closed
  <2>2. generators \cap Known \in SUBSET Known
    OBVIOUS
  <2>3. First \subseteq marked
    BY <1>4, <2>1, <2>2, ClosureIsLeast DEF First
  <2> QED
    BY <1>4, <2>3
<1>6. \A n \in Known : Needs[n] \subseteq Known
  BY NeedsFacts DEF Known
<1>7. SortInv' /\ MarkedInv'
  BY <1>1, <1>2, <1>4, <1>5, <1>6 DEF SortInv, MarkedInv, Sorting, marking, sorting
<1>8. MarkInv' /\ DecorateInv' /\ ListInv'
  BY <1>1 DEF Inv, DecorateInv, MarkInv, ListInv, output, InWorkspace, input, sorting
<1>9. CycleInv'
  BY <1>1 DEF Inv, CycleInv, output, reduction, sorting
<1> QED
  BY <1>3, <1>7, <1>8, <1>9 DEF Inv

\* The one chosen waits for nobody; if it is not marked, no marked one is ready.
LEMMA CandidateFacts ==
  ASSUME Inv, Ready # {}
  PROVE  LET name == Min(Candidates)
         IN  /\ name \in projects /\ name \in Known /\ depends[name] = {}
             /\ name \notin marked => \A m \in projects \cap marked : depends[m] # {}
<1>1. Candidates \in SUBSET Nat /\ Candidates # {}
  BY KnownFinite DEF Inv, TypeInv, Candidates, Ready
<1>2. \E n \in Candidates : \A m \in Candidates : n <= m
  BY <1>1, LeastNumber
<1>3. Min(Candidates) \in Candidates
  BY <1>2 DEF Min
<1> QED
  BY <1>3 DEF Candidates, Ready, Inv, TypeInv

LEMMA OrderStep ==
  ASSUME Inv, Order
  PROVE  Inv'
<1> DEFINE name == Min(Candidates)
<1> HIDE DEF name
<1>1. /\ pc = "sort" /\ Ready # {}
      /\ ordered' = Append(ordered, name) /\ projects' = projects \ {name}
      /\ depends' = [n \in Names |-> IF n \in projects \ {name}
                                     THEN depends[n] \ {name} ELSE depends[n]]
      /\ UNCHANGED <<input, pc, called, marking, reduction, output>>
  BY DEF Order, name
<1>2. /\ Known' = Known /\ Needs' = Needs /\ First' = First /\ Between' = Between
      /\ InputInv' <=> InputInv
  BY <1>1, InputKept
<1>3. /\ name \in projects /\ name \in Known /\ depends[name] = {}
      /\ name \notin marked => \A m \in projects \cap marked : depends[m] # {}
  BY <1>1, CandidateFacts DEF name
<1>4. /\ ordered \in Seq(Known) /\ Len(ordered) \in Nat
      /\ Len(ordered') = Len(ordered) + 1 /\ ordered'[Len(ordered) + 1] = name
      /\ \A i \in 1 .. Len(ordered) : ordered'[i] = ordered[i] /\ ordered[i] \in Known
      /\ ordered' \in Seq(Known)
  BY <1>1, <1>3 DEF Inv, TypeInv
<1>5. /\ projects \in SUBSET Known /\ Known \subseteq Names
      /\ depends \in [Names -> SUBSET Known]
  BY DEF Inv, TypeInv, Known
<1>6. at = 0 /\ at' = 0 /\ UNCHANGED <<marked, follow, cycle, last_depended, list, result>>
  BY <1>1 DEF Inv, ListInv, output, marking, reduction
<1>7. TypeInv'
  <2>1. depends' \in [Names -> SUBSET Known]
    BY <1>1, <1>5
  <2> QED
    BY <1>1, <1>2, <1>4, <1>6, <2>1 DEF Inv, TypeInv
<1>8. /\ marked = First
      /\ \A n \in projects : depends[n] = Needs[n] \cap projects
      /\ \A n \in Known : n \notin projects <=> \E i \in 1 .. Len(ordered) : ordered[i] = n
      /\ \A i, j \in 1 .. Len(ordered) : ordered[i] = ordered[j] => i = j
      /\ \A i \in 1 .. Len(ordered) : \A m \in Needs[ordered[i]] :
           \E j \in 1 .. i - 1 : ordered[j] = m
  BY <1>1 DEF Inv, SortInv, Sorting
<1>9. \A n \in projects' : depends'[n] = Needs[n] \cap projects'
  BY <1>1, <1>5, <1>8
<1>10. \A n \in Known :
         n \notin projects' <=> \E i \in 1 .. Len(ordered') : ordered'[i] = n
  <2> TAKE n \in Known
  <2>1. CASE n = name
    BY <1>1, <1>4, <2>1
  <2>2. CASE n # name
    <3>1. n \notin projects' <=> \E i \in 1 .. Len(ordered) : ordered[i] = n
      BY <1>1, <1>8, <2>2
    <3> QED
      BY <1>4, <2>2, <3>1
  <2> QED
    BY <2>1, <2>2
<1>11. \A i, j \in 1 .. Len(ordered') : ordered'[i] = ordered'[j] => i = j
  <2>1. \A i \in 1 .. Len(ordered) : ordered'[i] # name
    BY <1>3, <1>4, <1>8
  <2> QED
    BY <1>4, <1>8, <2>1
<1>12. \A i \in 1 .. Len(ordered') : \A m \in Needs[ordered'[i]] :
         \E j \in 1 .. i - 1 : ordered'[j] = m
  <2> TAKE i \in 1 .. Len(ordered')
  <2>1. CASE i \in 1 .. Len(ordered)
    BY <1>4, <1>8, <2>1
  <2>2. CASE i = Len(ordered) + 1
    <3> SUFFICES ASSUME NEW m \in Needs[name]
                 PROVE  \E j \in 1 .. Len(ordered) : ordered'[j] = m
      BY <1>4, <2>2
    <3>1. m \in Known
      BY <1>3, <1>5, NeedsFacts
    <3>2. m \notin projects
      BY <1>3, <1>8
    <3> QED
      BY <1>4, <1>8, <3>1, <3>2
  <2> QED
    BY <1>4, <2>1, <2>2
<1>13. SortInv'
  BY <1>1, <1>2, <1>6, <1>8, <1>9, <1>10, <1>11, <1>12 DEF SortInv, Sorting
<1>14. MarkedInv'
  <2>1. \A i \in 1 .. Len(ordered) : ordered[i] \notin marked =>
          /\ \A j \in 1 .. Len(ordered) : ordered[j] \in marked => j < i
          /\ \A m \in projects \cap marked : depends[m] \cap marked # {}
    BY <1>1 DEF Inv, MarkedInv, Sorting
  <2>2. CASE name \in marked
    <3>1. \A i \in 1 .. Len(ordered) : ordered[i] \in marked
      BY <1>3, <2>1, <2>2
    <3> QED
      BY <1>4, <1>6, <2>2, <3>1 DEF MarkedInv
  <2>3. CASE name \notin marked
    <3>1. \A m \in projects \cap marked : depends'[m] \cap marked # {}
      <4> TAKE m \in projects \cap marked
      <4>1. Needs[m] \subseteq marked
        <5>1. Closed(First, Needs) /\ Needs[m] \in SUBSET Known
          BY <1>5, ClosureIsLeast, NeedsFacts DEF First
        <5> QED
          BY <1>8, <5>1 DEF Closed
      <4>2. depends[m] # {} /\ depends[m] \subseteq marked
        BY <1>3, <1>8, <2>3, <4>1
      <4>3. depends'[m] = depends[m] \ {name}
        BY <1>1, <1>5, <2>3
      <4> QED
        BY <2>3, <4>2, <4>3
    <3>2. \A i, j \in 1 .. Len(ordered') :
            ordered'[i] \notin marked /\ ordered'[j] \in marked => j < i
      BY <1>4, <2>1, <2>3
    <3>3. projects' \cap marked \subseteq projects \cap marked
      BY <1>1
    <3> QED
      BY <1>6, <3>1, <3>2, <3>3 DEF MarkedInv
  <2> QED
    BY <2>2, <2>3
<1>15. DecorateInv' /\ MarkInv'
  BY <1>1 DEF DecorateInv, MarkInv
<1>16. CycleInv'
  BY <1>1, <1>6 DEF Inv, CycleInv
<1>17. ListInv'
  <2>1. list = <<>>
    <3>1. \A i \in 1 .. Len(list) : FALSE
      BY <1>6 DEF Inv, ListInv
    <3> QED
      BY <3>1 DEF Inv, TypeInv
  <2> QED
    BY <1>1, <1>6, <2>1 DEF Inv, ListInv, CycleInv
<1> QED
  BY <1>7, <1>13, <1>14, <1>15, <1>16, <1>17 DEF Inv

\* Whoever is ordered reaches no cycle.
LEMMA OrderedReachNoCycle ==
  ASSUME Inv, Sorting, NEW n \in Known \ projects
  PROVE  Reach(n) \cap Cyclic = {}
<1> DEFINE Before(i) == {ordered[j] : j \in 1 .. i - 1}
<1>1. /\ \A k \in Known : k \notin projects <=> \E i \in 1 .. Len(ordered) : ordered[i] = k
      /\ \A i, j \in 1 .. Len(ordered) : ordered[i] = ordered[j] => i = j
      /\ \A i \in 1 .. Len(ordered) : \A m \in Needs[ordered[i]] :
           \E j \in 1 .. i - 1 : ordered[j] = m
      /\ Len(ordered) \in Nat /\ \A i \in 1 .. Len(ordered) : ordered[i] \in Known
  BY DEF Inv, SortInv, TypeInv
<1>2. ASSUME NEW i \in 1 .. Len(ordered) PROVE Reach(ordered[i]) \subseteq Before(i)
  <2>1. Before(i) \in SUBSET Known /\ Needs[ordered[i]] \subseteq Before(i)
    <3>1. \A j \in 1 .. i - 1 : j \in 1 .. Len(ordered) /\ ordered[j] \in Known
      BY <1>1
    <3>2. \A m \in Needs[ordered[i]] : \E j \in 1 .. i - 1 : ordered[j] = m
      BY <1>1
    <3> QED
      BY <3>1, <3>2
  <2>2. \A m \in Before(i) : Needs[m] \subseteq Before(i)
    <3> SUFFICES ASSUME NEW j \in 1 .. i - 1, NEW m \in Needs[ordered[j]]
                 PROVE  m \in Before(i)
      OBVIOUS
    <3>1. PICK k \in 1 .. j - 1 : ordered[k] = m
      BY <1>1
    <3> QED
      BY <3>1
  <2>3. ordered[i] \in Known
    BY <1>1
  <2> QED
    BY <2>1, <2>2, <2>3, ReachFacts
<1>3. PICK i \in 1 .. Len(ordered) : ordered[i] = n
  BY <1>1
<1>4. ASSUME NEW m \in Reach(n) PROVE m \notin Reach(m)
  <2>1. PICK j \in 1 .. i - 1 : ordered[j] = m
    BY <1>2, <1>3
  <2>2. j \in 1 .. Len(ordered) /\ \A k \in 1 .. j - 1 : ordered[k] # ordered[j]
    BY <1>1, <2>1
  <2> QED
    BY <1>2, <2>1, <2>2
<1> QED
  BY <1>4 DEF Cyclic

\* While every project that is left waits for another, there is a cycle, and
\* whatever is between cycles is left.
LEMMA WaitingIsCyclic ==
  ASSUME Inv, Sorting, projects # {}, Ready = {}
  PROVE  /\ \A n \in projects : Reach(n) \cap Cyclic # {}
         /\ Between # {} /\ Cyclic # {} /\ Between \subseteq projects
<1>1. projects \in SUBSET Known /\ \A n \in projects : Needs[n] \cap projects # {}
  BY DEF Inv, TypeInv, SortInv, Ready
<1>2. \A n \in projects : Reach(n) \cap Cyclic # {}
  BY <1>1, ForwardToCycle
<1>3. PICK c : c \in Cyclic
  BY <1>2
<1>4. c \in Between
  BY <1>3 DEF Cyclic, Between
<1>5. Between \subseteq projects
  BY OrderedReachNoCycle DEF Between
<1> QED
  BY <1>2, <1>3, <1>4, <1>5

\* Without projects left there is no cycle.
LEMMA OrderedIsAcyclic ==
  ASSUME Inv, Sorting, projects = {}
  PROVE  Cyclic = {} /\ Between = {}
<1>1. \A n \in Known : Reach(n) \cap Cyclic = {}
  BY OrderedReachNoCycle
<1> QED
  BY <1>1 DEF Cyclic, Between

LEMMA SortedStep ==
  ASSUME Inv, Sorted
  PROVE  Inv'
<1>1. /\ pc = "sort" /\ projects = {} /\ pc' = "sorted"
      /\ UNCHANGED <<input, marking, sorting>>
  BY DEF Sorted
<1>2. /\ Known' = Known /\ Needs' = Needs /\ First' = First /\ Between' = Between
      /\ InputInv' <=> InputInv
  BY <1>1, InputKept
<1>3. TypeInv'
  BY <1>1, <1>2 DEF Inv, TypeInv, reduction, output, sorting, marking
<1>4. SortInv' /\ MarkedInv' /\ MarkInv' /\ DecorateInv'
  BY <1>1, <1>2 DEF Inv, SortInv, MarkedInv, MarkInv, DecorateInv, Sorting, marking,
                    sorting
<1>5. ListInv'
  BY <1>1 DEF Inv, ListInv, CycleInv, output, InWorkspace, input, sorting
<1>6. CycleInv'
  BY <1>1 DEF Inv, CycleInv, output, reduction, sorting
<1> QED
  BY <1>3, <1>4, <1>5, <1>6 DEF Inv

LEMMA CircularStep ==
  ASSUME Inv, Circular
  PROVE  Inv'
<1>1. /\ pc = "sort" /\ projects # {} /\ Ready = {} /\ pc' = "reduce"
      /\ cycle' = projects
      /\ UNCHANGED <<input, marking, depends, called, projects, ordered,
                     last_depended, output>>
  BY DEF Circular
<1>2. /\ Known' = Known /\ Needs' = Needs /\ First' = First /\ Between' = Between
      /\ InputInv' <=> InputInv
  BY <1>1, InputKept
<1>3. TypeInv'
  BY <1>1, <1>2 DEF Inv, TypeInv, output, marking
<1>4. SortInv' /\ MarkedInv' /\ MarkInv' /\ DecorateInv'
  BY <1>1, <1>2 DEF Inv, SortInv, MarkedInv, MarkInv, DecorateInv, Sorting, marking
<1>5. ListInv'
  BY <1>1 DEF Inv, ListInv, CycleInv, output, InWorkspace, input
<1>6. Between \subseteq projects
  BY <1>1, WaitingIsCyclic DEF Sorting
<1>7. Ready' = {}
  BY <1>1 DEF Ready
<1>8. CycleInv'
  BY <1>1, <1>2, <1>6, <1>7 DEF Inv, CycleInv, output
<1> QED
  BY <1>3, <1>4, <1>5, <1>8 DEF Inv

LEMMA ReduceStep ==
  ASSUME Inv, Reduce
  PROVE  Inv'
<1>1. /\ pc = "reduce" /\ cycle' = cycle \cap DependedBy(cycle)
      /\ last_depended' = DependedBy(cycle)
      /\ UNCHANGED <<input, marking, depends, called, projects, ordered, at, list>>
  BY DEF Reduce
<1>2. /\ Known' = Known /\ Needs' = Needs /\ First' = First /\ Between' = Between
      /\ InputInv' <=> InputInv
  BY <1>1, InputKept
<1>3. /\ projects # {} /\ Ready = {} /\ Between \subseteq cycle
      /\ cycle \subseteq projects /\ result = "none"
      /\ last_depended # {} => cycle \subseteq last_depended
      /\ projects \in SUBSET Known /\ \A n \in projects : depends[n] = Needs[n] \cap projects
  BY <1>1 DEF Inv, CycleInv, TypeInv, SortInv, Sorting
<1>4. Between \subseteq DependedBy(cycle)
  <2> SUFFICES ASSUME NEW n \in Between PROVE n \in DependedBy(cycle)
    OBVIOUS
  <2>1. PICK m \in Between : n \in Needs[m]
    BY BetweenIsNeeded
  <2>2. m \in cycle /\ n \in depends[m]
    BY <1>3, <2>1
  <2> QED
    BY <2>2 DEF DependedBy
<1>5. Between # {}
  BY <1>1, <1>3, WaitingIsCyclic DEF Sorting
<1>6. Between \subseteq cycle' /\ cycle' # {} /\ cycle' \subseteq projects
  BY <1>1, <1>3, <1>4, <1>5
<1>7. \/ /\ last_depended # {} /\ last_depended = last_depended'
         /\ pc' = "cyclic" /\ UNCHANGED result
      \/ UNCHANGED <<pc, result>>
  BY <1>6 DEF Reduce
<1>8. pc' \in {"reduce", "cyclic"} /\ result' = "none"
  BY <1>1, <1>3, <1>7
<1>9. TypeInv'
  BY <1>1, <1>2, <1>8 DEF Inv, TypeInv, marking
<1>10. SortInv' /\ MarkedInv' /\ MarkInv' /\ DecorateInv'
  BY <1>1, <1>2, <1>8 DEF Inv, SortInv, MarkedInv, MarkInv, DecorateInv, Sorting, marking
<1>11. ListInv'
  BY <1>1, <1>3, <1>8 DEF Inv, ListInv, InWorkspace, input
<1>12. Ready' = {}
  BY <1>1, <1>3 DEF Ready
<1>13. pc' = "cyclic" => cycle' \subseteq DependedBy(cycle)'
  <2> SUFFICES ASSUME pc' = "cyclic" PROVE cycle' \subseteq DependedBy(cycle)'
    OBVIOUS
  <2>1. last_depended # {} /\ last_depended = DependedBy(cycle)
    BY <1>1, <1>7
  <2>2. cycle' = cycle
    BY <1>1, <1>3, <2>1
  <2> QED
    BY <1>1, <2>2 DEF DependedBy
<1>14. CycleInv'
  BY <1>1, <1>2, <1>3, <1>6, <1>8, <1>12, <1>13 DEF CycleInv
<1> QED
  BY <1>9, <1>10, <1>11, <1>14 DEF Inv

LEMMA LookStep ==
  ASSUME Inv, Look
  PROVE  Inv'
<1> DEFINE name == ordered[at + 1]
<1>1. /\ pc = "sorted" /\ at < Len(ordered) /\ at' = at + 1
      /\ list' = IF InWorkspace(name) THEN Append(list, name) ELSE list
      /\ UNCHANGED <<unordered, pc, result>>
  BY DEF Look
<1>2. /\ Known' = Known /\ Needs' = Needs /\ First' = First /\ Between' = Between
      /\ InputInv' <=> InputInv
  BY <1>1, InputKept DEF unordered
<1>3. /\ ordered \in Seq(Known) /\ Len(ordered) \in Nat /\ at \in Nat
      /\ name \in Known /\ name \in Names /\ list \in Seq(Names) /\ Len(list) \in Nat
  BY <1>1 DEF Inv, TypeInv, Known
<1>4. UNCHANGED <<origin, ordered, projects, marking, reduction, depends, called>>
  BY <1>1 DEF unordered, input
<1>5. TypeInv'
  BY <1>1, <1>2, <1>3, <1>4 DEF Inv, TypeInv, marking, reduction
<1>6. SortInv' /\ MarkedInv' /\ MarkInv' /\ DecorateInv'
  BY <1>1, <1>2, <1>4 DEF Inv, SortInv, MarkedInv, MarkInv, DecorateInv, Sorting, marking
<1>7. CycleInv'
  BY <1>1, <1>4 DEF Inv, CycleInv, reduction
<1>8. /\ \A i \in 1 .. Len(list) :
           InWorkspace(list[i]) /\ \E k \in 1 .. at : ordered[k] = list[i]
      /\ \A k \in 1 .. at : InWorkspace(ordered[k]) =>
           \E i \in 1 .. Len(list) : list[i] = ordered[k]
      /\ \A i, j \in 1 .. Len(list), k, l \in 1 .. at :
           i < j /\ ordered[k] = list[i] /\ ordered[l] = list[j] => k < l
  BY DEF Inv, ListInv
<1>9. \A k, l \in 1 .. Len(ordered) : ordered[k] = ordered[l] => k = l
  BY <1>1 DEF Inv, SortInv, Sorting
<1>10. pc' = "sorted" /\ result' = "none" /\ ordered' = ordered
  BY <1>1, <1>4 DEF Inv, CycleInv
<1> HIDE DEF name
<1>11. ASSUME ~InWorkspace(name) PROVE ListInv'
  <2>1. list' = list
    BY <1>1, <1>11
  <2>2. \A k \in 1 .. at' : k \in 1 .. at \/ ordered[k] = name
    BY <1>1, <1>3 DEF name
  <2>3. \A i \in 1 .. Len(list) : list[i] # name
    BY <1>8, <1>11
  <2>4. \A i, j \in 1 .. Len(list), k, l \in 1 .. at' :
          i < j /\ ordered[k] = list[i] /\ ordered[l] = list[j] => k < l
    BY <1>8, <2>2, <2>3
  <2>5. \A k \in 1 .. at' : InWorkspace(ordered[k]) =>
           \E i \in 1 .. Len(list) : list[i] = ordered[k]
    BY <1>8, <1>11, <2>2
  <2>6. \A i \in 1 .. Len(list) :
           InWorkspace(list[i]) /\ \E k \in 1 .. at' : ordered[k] = list[i]
    BY <1>1, <1>3, <1>8
  <2> QED
    BY <1>4, <1>10, <2>1, <2>4, <2>5, <2>6 DEF ListInv, InWorkspace
<1>12. ASSUME InWorkspace(name) PROVE ListInv'
  <2>1. /\ list' = Append(list, name) /\ Len(list') = Len(list) + 1
        /\ list'[Len(list) + 1] = name
        /\ \A i \in 1 .. Len(list) : list'[i] = list[i]
        /\ ordered[at + 1] = name /\ at + 1 \in 1 .. Len(ordered)
    BY <1>1, <1>3, <1>12 DEF name
  <2>2. \A k \in 1 .. at' : k \in 1 .. at \/ k = at + 1
    BY <1>1, <1>3
  <2>3. \A i \in 1 .. Len(list') : i \in 1 .. Len(list) \/ i = Len(list) + 1
    BY <1>3, <2>1
  <2>4. \A k \in 1 .. at : ordered[k] # name
    BY <1>1, <1>3, <1>9, <2>1
  <2>5. \A i \in 1 .. Len(list') :
           InWorkspace(list'[i]) /\ \E k \in 1 .. at' : ordered[k] = list'[i]
    BY <1>1, <1>3, <1>8, <1>12, <2>1, <2>3
  <2>6. \A k \in 1 .. at' : InWorkspace(ordered[k]) =>
           \E i \in 1 .. Len(list') : list'[i] = ordered[k]
    BY <1>3, <1>8, <2>1, <2>2
  <2>7. \A h \in 1 .. Len(list) : list[h] # name
    BY <1>8, <2>4
  <2>8. ASSUME NEW i \in 1 .. Len(list'), NEW j \in 1 .. Len(list'),
               NEW k \in 1 .. at', NEW l \in 1 .. at',
               i < j, ordered[k] = list'[i], ordered[l] = list'[j]
        PROVE  k < l
    <3>1. i \in 1 .. Len(list)
      BY <1>3, <2>1, <2>8
    <3>2. k \in 1 .. at
      BY <2>1, <2>2, <2>8, <2>7, <3>1
    <3>3. CASE j \in 1 .. Len(list)
      <4>1. l \in 1 .. at
        BY <2>1, <2>2, <2>8, <2>7, <3>3
      <4> QED
        BY <1>8, <2>1, <2>8, <3>1, <3>2, <3>3, <4>1
    <3>4. CASE j = Len(list) + 1
      <4>1. l = at + 1
        BY <2>1, <2>2, <2>4, <2>8, <3>4
      <4> QED
        BY <1>3, <3>2, <4>1
    <3> QED
      BY <2>3, <3>3, <3>4
  <2> QED
    BY <1>4, <1>10, <2>5, <2>6, <2>8 DEF ListInv, InWorkspace
<1> QED
  BY <1>5, <1>6, <1>7, <1>11, <1>12 DEF Inv

LEMMA ReturnStep ==
  ASSUME Inv, Return
  PROVE  Inv'
<1>1. /\ pc' = "returned" /\ UNCHANGED <<unordered, at, list>>
      /\ \/ pc = "sorted" /\ at = Len(ordered) /\ result' = "order"
         \/ pc = "cyclic" /\ result' = "AttributeError"
  BY DEF Return
<1>2. /\ Known' = Known /\ Needs' = Needs /\ First' = First /\ Between' = Between
      /\ InputInv' <=> InputInv
  BY <1>1, InputKept DEF unordered
<1>3. UNCHANGED <<origin, ordered, projects, marking, reduction, depends, called>>
  BY <1>1 DEF unordered, input
<1>4. TypeInv'
  BY <1>1, <1>2, <1>3 DEF Inv, TypeInv, marking, reduction
<1>5. SortInv' /\ MarkedInv' /\ MarkInv' /\ DecorateInv'
  <2>1. Sorting /\ Sorting' /\ pc' \notin {"decorate", "mark"}
    BY <1>1 DEF Sorting
  <2>2. SortInv' /\ MarkedInv'
    BY <1>2, <1>3, <2>1 DEF Inv, SortInv, MarkedInv, marking
  <2> QED
    BY <2>1, <2>2 DEF MarkInv, DecorateInv
<1>6. CycleInv'
  BY <1>1, <1>2, <1>3 DEF Inv, CycleInv, reduction, Ready, DependedBy
<1>7. ListInv'
  BY <1>1, <1>3 DEF Inv, ListInv, InWorkspace
<1> QED
  BY <1>4, <1>5, <1>6, <1>7 DEF Inv

LEMMA InvKept == Inv /\ UNCHANGED vars => Inv'
<1> SUFFICES ASSUME Inv, UNCHANGED vars PROVE Inv'
  OBVIOUS
<1>1. UNCHANGED <<input, origin, pc, depends, called, marked, follow, projects, ordered,
                  cycle, last_depended, at, list, result>>
  BY DEF vars, input, marking, reduction, output
<1>2. /\ Known' = Known /\ Needs' = Needs /\ First' = First /\ Between' = Between
      /\ InputInv' <=> InputInv
  BY <1>1, InputKept
<1>3. TypeInv'
  BY <1>1, <1>2 DEF Inv, TypeInv
<1>4. SortInv' /\ MarkedInv'
  BY <1>1, <1>2 DEF Inv, SortInv, MarkedInv, Sorting
<1>5. MarkInv'
  BY <1>1, <1>2 DEF Inv, MarkInv, input
<1>6. ListInv'
  BY <1>1 DEF Inv, ListInv, InWorkspace
<1>7. CycleInv'
  BY <1>1, <1>2 DEF Inv, CycleInv, Ready, DependedBy
<1>8. DecorateInv'
  BY <1>1, <1>2 DEF Inv, DecorateInv, input
<1> QED
  BY <1>3, <1>7, <1>8, <1>4, <1>5, <1>6 DEF Inv

LEMMA InvStep == Inv /\ [Next]_vars => Inv'
<1> SUFFICES ASSUME Inv, [Next]_vars PROVE Inv'
  OBVIOUS
<1>1. CASE \E p, n \in Names : Add(p, n)
  BY <1>1, AddStep
<1>2. CASE \E n \in Names : Mark(n)
  BY <1>2, MarkStep
<1>3. CASE Decorated \/ Marked \/ Order \/ Sorted
  BY <1>3, DecoratedStep, MarkedStep, OrderStep, SortedStep
<1>4. CASE Circular \/ Reduce \/ Look \/ Return
  BY <1>4, CircularStep, ReduceStep, LookStep, ReturnStep
<1>5. CASE UNCHANGED vars
  BY <1>5, InvKept
<1> QED
  BY <1>1, <1>2, <1>3, <1>4, <1>5 DEF Next

LEMMA AlwaysInv == Spec => []Inv
BY InvInit, InvStep, PTL DEF Spec

-----------------------------------------------------------------------------
(* What follows from it.                                                   *)

\* CycleIsReal: an error is raised exactly if some project depends on itself,
\* and the entry names those that lie between two that do.
LEMMA InvCycleIsReal == Inv => CycleIsReal
<1> SUFFICES ASSUME Inv PROVE CycleIsReal
  OBVIOUS
<1>1. /\ pc = "returned" => Sorting /\ result \in {"order", "AttributeError"}
      /\ pc # "returned" => result = "none"
  BY DEF Inv, CycleInv, TypeInv, Sorting
<1>2. CASE pc = "sorted" \/ result = "order"
  <2>1. cycle = {} /\ Cyclic = {} /\ Between = {}
    BY <1>1, <1>2, OrderedIsAcyclic DEF Inv, CycleInv, Sorting
  <2> QED
    BY <1>1, <1>2, <2>1 DEF CycleIsReal
<1>3. CASE pc = "cyclic" \/ result = "AttributeError"
  <2>1. /\ projects # {} /\ Ready = {} /\ Between \subseteq cycle
        /\ cycle \subseteq projects /\ cycle \subseteq DependedBy(cycle)
        /\ projects \in SUBSET Known /\ Sorting
        /\ \A n \in projects : depends[n] = Needs[n] \cap projects
    BY <1>1, <1>3 DEF Inv, CycleInv, TypeInv, SortInv, Sorting
  <2>2. Cyclic # {} /\ \A n \in projects : Reach(n) \cap Cyclic # {}
    BY <2>1, WaitingIsCyclic
  <2>3. \A n \in cycle : \E m \in cycle : n \in Needs[m]
    BY <2>1 DEF DependedBy
  <2>4. \A n \in cycle : \E m \in Cyclic : n \in Reach(m)
    BY <2>1, <2>3, BackwardToCycle
  <2>5. cycle = Between
    BY <2>1, <2>2, <2>4 DEF Between
  <2> QED
    BY <1>1, <1>3, <2>2, <2>5 DEF CycleIsReal
<1> QED
  BY <1>1, <1>2, <1>3 DEF CycleIsReal

\* GeneratorsFirst: whatever the list has, a message generator or what one
\* needs comes before the rest.
LEMMA InvGeneratorsFirst == Inv => GeneratorsFirst
<1> SUFFICES ASSUME Inv, NEW i \in 1 .. Len(list), NEW j \in 1 .. Len(list),
                    list[i] \notin First, list[j] \in First
             PROVE  j < i
  BY DEF GeneratorsFirst
<1>1. /\ Len(list) \in Nat /\ at \in 0 .. Len(ordered) /\ Len(ordered) \in Nat
  BY DEF Inv, TypeInv
<1>2. /\ \A h \in 1 .. Len(list) : \E k \in 1 .. at : ordered[k] = list[h]
      /\ \A h, g \in 1 .. Len(list), k, l \in 1 .. at :
           h < g /\ ordered[k] = list[h] /\ ordered[l] = list[g] => k < l
  BY DEF Inv, ListInv
<1>3. PICK k \in 1 .. at, l \in 1 .. at : ordered[k] = list[i] /\ ordered[l] = list[j]
  BY <1>2
<1>4. k \in 1 .. Len(ordered) /\ l \in 1 .. Len(ordered)
  BY <1>1, <1>3
<1>5. Sorting
  <2>1. at # 0
    BY <1>1, <1>3
  <2> QED
    BY <2>1 DEF Inv, ListInv, Sorting
<1>6. l < k
  <2>1. ordered[k] \notin marked /\ ordered[l] \in marked
    BY <1>3, <1>5 DEF Inv, SortInv
  <2> QED
    BY <1>4, <1>5, <2>1 DEF Inv, SortInv, MarkedInv
<1>7. ~(i < j) /\ i # j
  BY <1>1, <1>2, <1>3, <1>4, <1>6
<1> QED
  BY <1>1, <1>7

\* OrderIsTopological: a list that is returned has every project of the
\* workspace once, and each after all it needs.
LEMMA InvOrderIsTopological == Inv => OrderIsTopological
<1> DEFINE Workspace == {n \in Names : InWorkspace(n)}
<1> SUFFICES ASSUME Inv, result = "order"
             PROVE  /\ Len(list) = Cardinality(Workspace)
                    /\ {list[i] : i \in 1 .. Len(list)} = Workspace
                    /\ \A n \in Workspace : \A m \in Needs[n] \cap Workspace :
                         Position(m) < Position(n)
  BY DEF OrderIsTopological
<1>1. /\ projects = {} /\ at = Len(ordered) /\ Sorting
      /\ Len(ordered) \in Nat /\ Len(list) \in Nat /\ list \in Seq(Names)
  BY DEF Inv, CycleInv, ListInv, TypeInv, Sorting
<1>2. /\ \A n \in Known : \E k \in 1 .. Len(ordered) : ordered[k] = n
      /\ \A k, l \in 1 .. Len(ordered) : ordered[k] = ordered[l] => k = l
      /\ \A k \in 1 .. Len(ordered) : \A m \in Needs[ordered[k]] :
           \E l \in 1 .. k - 1 : ordered[l] = m
  BY <1>1 DEF Inv, SortInv
<1>3. /\ \A i \in 1 .. Len(list) :
           InWorkspace(list[i]) /\ \E k \in 1 .. Len(ordered) : ordered[k] = list[i]
      /\ \A k \in 1 .. Len(ordered) : InWorkspace(ordered[k]) =>
           \E i \in 1 .. Len(list) : list[i] = ordered[k]
      /\ \A i, j \in 1 .. Len(list), k, l \in 1 .. Len(ordered) :
           i < j /\ ordered[k] = list[i] /\ ordered[l] = list[j] => k < l
  BY <1>1 DEF Inv, ListInv
<1>4. Workspace \subseteq Known /\ IsFiniteSet(Workspace)
  <2>1. Workspace \in SUBSET Known
    BY DEF InWorkspace, Known
  <2> QED
    BY <2>1, KnownFinite, FS_Subset
<1>5. {list[i] : i \in 1 .. Len(list)} = Workspace
  <2>1. \A i \in 1 .. Len(list) : list[i] \in Workspace
    BY <1>1, <1>3
  <2>2. \A n \in Workspace : \E i \in 1 .. Len(list) : list[i] = n
    BY <1>2, <1>3, <1>4
  <2> QED
    BY <2>1, <2>2
<1>6. \A i, j \in 1 .. Len(list) : list[i] = list[j] => i = j
  <2> SUFFICES ASSUME NEW i \in 1 .. Len(list), NEW j \in 1 .. Len(list),
                      list[i] = list[j], i < j
               PROVE  FALSE
    BY <1>1
  <2>1. PICK k \in 1 .. Len(ordered) : ordered[k] = list[i]
    BY <1>3
  <2>2. k < k
    BY <1>3, <2>1
  <2> QED
    BY <1>1, <2>2
<1> HIDE DEF Workspace
<1>7. Len(list) = Cardinality(Workspace)
  <2> DEFINE f == [i \in 1 .. Len(list) |-> list[i]]
  <2>1. f \in Bijection(1 .. Len(list), Workspace)
    BY <1>5, <1>6 DEF Bijection, Injection, Surjection, IsInjective
  <2>2. /\ IsFiniteSet(1 .. Len(list)) /\ Cardinality(1 .. Len(list)) = Len(list)
    <3>1. Len(list) \in Int /\ 1 \in Int /\ (1 > Len(list) => Len(list) = 0)
      BY <1>1
    <3> QED
      BY <3>1, FS_Interval
  <2>3. ExistsBijection(1 .. Len(list), Workspace)
    BY <2>1 DEF ExistsBijection
  <2> QED
    BY <1>4, <2>2, <2>3, FS_Bijection
<1>8. \A n \in Workspace : Position(n) \in 1 .. Len(list) /\ list[Position(n)] = n
  BY <1>5 DEF Position
<1>9. ASSUME NEW n \in Workspace, NEW m \in Needs[n] \cap Workspace
      PROVE  Position(m) < Position(n)
  <2>1. PICK k \in 1 .. Len(ordered) : ordered[k] = n
    BY <1>2, <1>4
  <2>2. PICK l \in 1 .. k - 1 : ordered[l] = m
    BY <1>2, <2>1
  <2>3. l \in 1 .. Len(ordered) /\ l < k /\ m # n
    BY <1>1, <1>2, <2>1, <2>2
  <2>4. ~(Position(n) < Position(m))
    BY <1>1, <1>3, <1>8, <2>1, <2>2, <2>3
  <2>5. Position(n) # Position(m)
    BY <1>8, <2>3
  <2>6. Position(n) \in Nat /\ Position(m) \in Nat
    BY <1>1, <1>8
  <2> QED
    BY <2>4, <2>5, <2>6
<1> QED
  BY <1>5, <1>7, <1>9

\* The entry for a cycle is made if there is one, and names those between.
THEOREM CyclesAreReported == Spec => []CycleIsReal
BY AlwaysInv, InvCycleIsReal, PTL

\* Message generators and what they need come first.
THEOREM GeneratorsComeFirst == Spec => []GeneratorsFirst
BY AlwaysInv, InvGeneratorsFirst, PTL

\* A list that is returned is an order of the workspace, each after its needs.
THEOREM OrderIsTopologicalAlways == Spec => []OrderIsTopological
BY AlwaysInv, InvOrderIsTopological, PTL
=============================================================================
