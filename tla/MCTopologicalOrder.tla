-------------------------- MODULE MCTopologicalOrder --------------------------
(***************************************************************************)
(* Workspaces for model checking TopologicalOrder: every way to spread a   *)
(* few dependencies over four projects.                                    *)
(***************************************************************************)
EXTENDS TopologicalOrder

Four == 1 .. 4

Pairs == {p \in Names \X Names : p[1] # p[2]}

\* The dependencies with n pairs of a project and one it depends on, at most.
AtMost(n) ==
  {[a \in Names |-> {p[2] : p \in {q \in E : q[1] = a}}] :
     E \in UNION {kSubset(k, Pairs) : k \in 0 .. n}}

Graphs == (AtMost(3) \X AtMost(1)) \cup (AtMost(2) \X AtMost(2))

\* Project 2 generates messages, or lies below the workspace, or is not listed.
Kinds ==
  LET All == [n \in Names |-> "workspace"] IN
  {<<All, {}>>, <<All, {2}>>, <<[All EXCEPT ![2] = "underlay"], {3}>>,
   <<[All EXCEPT ![2] = "excluded"], {3}>>}

SparseWorkspaces ==
  {[origin |-> k[1], generators |-> k[2], builddeps |-> g[1], rundeps |-> g[2]] :
     k \in Kinds, g \in Graphs}
=============================================================================
