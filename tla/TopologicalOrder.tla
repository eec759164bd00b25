--------------------------- MODULE TopologicalOrder ---------------------------
(***************************************************************************)
(* topological_order_projects of alpine_pkg: the order in which the        *)
(* projects of a workspace are built.  A project follows its build         *)
(* dependencies and what these need, recursively, at run time; message     *)
(* generators and what they need come first.                               *)
(*                                                                         *)
(* Projects are their names, numbers for the sake of alphabetic order.     *)
(* builddeps stands for builddeps and buildtooldeps.  The warning about    *)
(* metaprojects and the error for two projects of one name are left out.   *)
(***************************************************************************)
EXTENDS Naturals, Sequences, FiniteSets, FiniteSetsExt

CONSTANTS
  Names,
  Workspaces    (* the projects a workspace may have                       *)

Origins == {"workspace", "underlay", "excluded"}  \* excluded by the lists
Deps    == [Names -> SUBSET Names]

ASSUME WorkspacesAssumption ==
  /\ Names \subseteq Nat /\ IsFiniteSet(Names)
  /\ Workspaces \subseteq [origin : [Names -> Origins], builddeps : Deps,
                           rundeps : Deps, generators : SUBSET Names]

VARIABLES
  origin, builddeps, rundeps, generators,  (* the projects; never changed   *)
  pc,
  depends,      (* depends_for_topological_order of each decorator          *)
  called,       (* the names that are yet to add themselves to it           *)
  marked,       (* those whose message_generator is set                     *)
  follow,       (* dependency_names_to_follow                               *)
  projects,     (* the names still to be ordered                            *)
  ordered,      (* ordered_projects, without the entry for a cycle          *)
  cycle,        (* the names of that entry, as they are reduced             *)
  last_depended,
  at,           (* how many of ordered_projects were looked at for the list *)
  list,         (* the list returned                                        *)
  result        (* what the caller gets                                     *)

input   == <<origin, builddeps, rundeps, generators>>
marking == <<marked, follow>>
reduction == <<cycle, last_depended>>
output  == <<at, list, result>>
vars    == <<input, pc, depends, called, marking, projects, ordered, reduction,
             output>>

Known == {n \in Names : origin[n] # "excluded"}

\* Dependencies on names that are not known are skipped.
Init ==
  /\ \E w \in Workspaces :
       /\ origin = w.origin /\ generators = w.generators
       /\ builddeps = w.builddeps /\ rundeps = w.rundeps
  /\ pc = "decorate" /\ depends = [n \in Names |-> {}]
  /\ called = [n \in Names |-> IF n \in Known THEN builddeps[n] \cap Known ELSE {}]
  /\ marked = {} /\ follow = {} /\ projects = {}
  /\ ordered = <<>> /\ cycle = {} /\ last_depended = {}
  /\ at = 0 /\ list = <<>> /\ result = "none"

-----------------------------------------------------------------------------
(* The decorators.                                                         *)

AddEarly(p, n) ==  \* mutant: a name to be called counts as one that is there
  /\ pc = "decorate" /\ n \in called[p]
  /\ \A q \in Names : called[q] # {} => p <= q
  /\ depends' = [depends EXCEPT ![p] = @ \cup {n} \cup (rundeps[n] \cap Known)]
  /\ called' = [called EXCEPT ![p] = @ \ {n}]
  /\ UNCHANGED <<input, pc, marking, projects, ordered, reduction, output>>

\* _add_recursive_rundeps of n for p, one project after the other: n adds its
\* name, and calls what it needs at run time and is not there.  The loops of
\* all levels of the recursion are one set, taken in any order.
Add(p, n) ==
  /\ pc = "decorate" /\ n \in called[p]
  /\ \A q \in Names : called[q] # {} => p <= q
  /\ depends' = [depends EXCEPT ![p] = @ \cup {n}]
  /\ called' = [called EXCEPT ![p] =
                  (@ \ {n}) \cup ((rundeps[n] \cap Known) \ (depends[p] \cup {n}))]
  /\ UNCHANGED <<input, pc, marking, projects, ordered, reduction, output>>

Decorated ==
  /\ pc = "decorate" /\ \A n \in Names : called[n] = {}
  /\ pc' = "mark" /\ projects' = Known
  /\ marked' = generators \cap Known /\ follow' = generators \cap Known
  /\ UNCHANGED <<input, depends, called, ordered, reduction, output>>

-----------------------------------------------------------------------------
(* _sort_decorated_projects.                                               *)

sorting == <<depends, called, projects, ordered, reduction, output>>

MarkAgain(n) ==  \* mutant: without the test against not_marked_project_names
  /\ pc = "mark" /\ n \in follow
  /\ marked' = marked \cup depends[n]
  /\ follow' = (follow \ {n}) \cup depends[n]
  /\ UNCHANGED <<input, pc, sorting>>

\* Whatever a marked project depends on is marked, and followed in its turn.
Mark(n) ==
  /\ pc = "mark" /\ n \in follow
  /\ marked' = marked \cup depends[n]
  /\ follow' = (follow \ {n}) \cup (depends[n] \ marked)
  /\ UNCHANGED <<input, pc, sorting>>

Marked ==
  /\ pc = "mark" /\ follow = {} /\ pc' = "sort"
  /\ UNCHANGED <<input, marking, sorting>>

\* The projects without dependencies, the marked ones if there are any.
Ready == {n \in projects : depends[n] = {}}

CandidatesAny == Ready  \* mutant: message generators are not preferred

Candidates == IF Ready \cap marked # {} THEN Ready \cap marked ELSE Ready

\* The alphabetically first candidate is next, and nobody waits for it then.
Order ==
  /\ pc = "sort" /\ Ready # {}
  /\ LET name == Min(Candidates) IN
     /\ ordered' = Append(ordered, name)
     /\ projects' = projects \ {name}
     /\ depends' = [n \in Names |-> IF n \in projects \ {name}
                                    THEN depends[n] \ {name} ELSE depends[n]]
  /\ UNCHANGED <<input, pc, called, marking, reduction, output>>

Sorted ==
  /\ pc = "sort" /\ projects = {} /\ pc' = "sorted"
  /\ UNCHANGED <<input, marking, sorting>>

\* Every project that is left waits for another.
Circular ==
  /\ pc = "sort" /\ projects # {} /\ Ready = {}
  /\ pc' = "reduce" /\ cycle' = projects
  /\ UNCHANGED <<input, marking, depends, called, projects, ordered,
                 last_depended, output>>

DependedBy(set) == UNION {depends[n] : n \in set}

ReduceOnce ==  \* mutant: one round only
  /\ pc = "reduce" /\ pc' = "cyclic"
  /\ cycle' = cycle \cap DependedBy(cycle) /\ UNCHANGED <<last_depended, result>>
  /\ UNCHANGED <<input, marking, depends, called, projects, ordered, at, list>>

\* A round of _reduce_cycle_set: drops whom none of the rest depends on.  It
\* ends when it finds the same dependencies as the round before; without any
\* names left it returns nothing, which sorted() does not accept.
Reduce ==
  /\ pc = "reduce" /\ cycle' = cycle \cap DependedBy(cycle)
  /\ last_depended' = DependedBy(cycle)
  /\ \/ last_depended # {} /\ last_depended = last_depended'
        /\ pc' = "cyclic" /\ UNCHANGED result
     \/ ~(last_depended # {} /\ last_depended = last_depended')
        /\ \/ cycle' # {} /\ UNCHANGED <<pc, result>>
           \/ cycle' = {} /\ pc' = "returned" /\ result' = "TypeError"
  /\ UNCHANGED <<input, marking, depends, called, projects, ordered, at, list>>

-----------------------------------------------------------------------------
(* topological_order_projects drops the projects of the underlay.          *)

InWorkspace(n) == origin[n] = "workspace"

unordered == <<input, depends, called, marking, projects, ordered, reduction>>

Look ==
  /\ pc = "sorted" /\ at < Len(ordered) /\ at' = at + 1
  /\ LET name == ordered[at + 1] IN
     list' = IF InWorkspace(name) THEN Append(list, name) ELSE list
  /\ UNCHANGED <<unordered, pc, result>>

\* A cycle's entry is a string and has no name.
Return ==
  /\ pc' = "returned" /\ UNCHANGED <<unordered, at, list>>
  /\ \/ pc = "sorted" /\ at = Len(ordered) /\ result' = "order"
     \/ pc = "cyclic" /\ result' = "AttributeError"

Next ==
  \/ \E p, n \in Names : Add(p, n)
  \/ \E n \in Names : Mark(n)
  \/ Decorated \/ Marked \/ Order \/ Sorted \/ Circular \/ Reduce \/ Look \/ Return

\* A sequential program goes on until it returns.
Spec == Init /\ [][Next]_vars /\ WF_vars(Next)

-----------------------------------------------------------------------------
(* Properties.                                                             *)

\* For reference: the least set with S and what its members need of dep.
Closure(S, dep) ==
  CHOOSE C \in SUBSET Known :
    /\ S \subseteq C /\ \A n \in C : dep[n] \cap Known \subseteq C
    /\ \A D \in SUBSET C :
         S \subseteq D /\ (\A n \in D : dep[n] \cap Known \subseteq D) => D = C

Needs  == [n \in Names |-> Closure(builddeps[n] \cap Known, rundeps)]
First  == Closure(generators \cap Known, Needs)

\* What n needs, and what that needs, and so on: n itself if it is on a cycle.
Reach(n) == Closure(Needs[n], Needs)
Cyclic   == {n \in Known : n \in Reach(n)}

\* Those that depend on themselves, or lie between two such.
Between ==
  {n \in Known : (\E m \in Cyclic : n \in Reach(m)) /\ Reach(n) \cap Cyclic # {}}

Position(n) == CHOOSE i \in 1 .. Len(list) : list[i] = n

\* The list has every project of the workspace once, and after all it needs.
OrderIsTopological ==
  result = "order" =>
    LET Workspace == {n \in Names : InWorkspace(n)} IN
    /\ Len(list) = Cardinality(Workspace)
    /\ {list[i] : i \in 1 .. Len(list)} = Workspace
    /\ \A n \in Workspace : \A m \in Needs[n] \cap Workspace :
         Position(m) < Position(n)

\* A project that is no message generator, and that none needs, comes after
\* all that are ("First returning projects which have message generators").
GeneratorsFirst ==
  \A i, j \in 1 .. Len(list) : list[i] \notin First /\ list[j] \in First => j < i

\* The entry for a cycle is made if there is one.  It names all that depend
\* on themselves, and others only if they lie between two such.
CycleIsReal ==
  /\ pc \in {"sorted", "cyclic", "returned"} =>
       cycle = Between
  /\ pc = "returned" => result = IF Cyclic = {} THEN "order" ELSE "AttributeError"

\* The marking and the sorting end, cycles or not.
Ends == <>(pc = "returned")
=============================================================================
