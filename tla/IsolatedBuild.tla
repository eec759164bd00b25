---------------------------- MODULE IsolatedBuild ----------------------------
(***************************************************************************)
(* build_workspace_isolated of alpine: project after project is configured *)
(* with cmake and built with make, each in its own build directory.  cmake *)
(* is skipped where there is a Makefile, unless --force-cmake is given or  *)
(* the packages or cmake arguments differ from those stored by an earlier  *)
(* invocation.                                                             *)
(*                                                                         *)
(* What outlives an invocation are files.  An invocation may stop at any   *)
(* command, because that fails or is interrupted.  --install and DESTDIR,  *)
(* which use other directories in the same way, are left out, and so is an *)
(* empty workspace.                                                        *)
(***************************************************************************)
EXTENDS Naturals, Sequences

CONSTANTS
  Projects,
  Plain,        (* those of build_type "cmake"; the rest are "alpine"      *)
  Args,         (* arguments for cmake, all setting the same variables     *)
  Selections,   (* the projects one may ask for with their dependencies    *)
  Order,        (* Order[s]: topological_order_projects of those of s      *)
  None

ASSUME ProjectsAssumption ==
  /\ Plain \subseteq Projects /\ Selections \subseteq (SUBSET Projects) \ {{}}
  /\ Order \in [Selections -> Seq(Projects)]
  /\ \A s \in Selections : {Order[s][i] : i \in DOMAIN Order[s]} = s

\* A devel space: the one of all projects, or that of one.
Merged == "merged"
Spaces == Projects \cup {Merged}

Inputs        == [packages : Selections, cmake_args : Args]
Configuration == [cmake_args : Args, space : Spaces]

ASSUME NoneAssumption == None \notin Inputs \cup Configuration

\* How an invocation is called.  No build_packages means all of them.
Calls ==
  UNION {[packages : {s}, cmake_args : Args, merge : BOOLEAN,
          force_cmake : BOOLEAN, build_packages : SUBSET s,
          continue_from_pkg : BOOLEAN] : s \in Selections}

VARIABLES
  stored,       (* the last cmake input: alpine_make_isolated.cache        *)
  makefile,     (* the projects with a Makefile                            *)
  cache,        (* what cmake was last run with for a project: CMakeCache  *)
  env,          (* the devel spaces with an env.sh                         *)
  pc,           (* where the invocation is                                 *)
  call,         (* the arguments of the invocation, the last one if idle   *)
  force,        (* force_cmake, as it is decided                           *)
  building,     (* build_packages, as it changes                           *)
  todo,         (* the projects still ahead                                *)
  processed,    (* history: those this invocation has built                *)
  drifted,      (* history: the files no longer follow the stored input    *)
  failed        (* history: the projects whose last cmake failed           *)

files   == <<stored, makefile, cache, env>>
program == <<pc, call, force, building, todo, processed>>
history == <<drifted, failed>>
vars    == <<files, program, history>>

project   == Head(todo)
Space(p)  == IF call.merge THEN Merged ELSE p

\* The projects of the invocation, of which those before "project" are done.
Whitelisted == Order[call.packages]
Done        == Len(Whitelisted) - Len(todo)

\* The env.sh of the project before, which every command is run by, exists.
LastEnvThere == Done > 0 => Space(Whitelisted[Done]) \in env

Wanted(p) == [cmake_args |-> call.cmake_args, space |-> Space(p)]

\* A workspace that has not been built yet.
Init ==
  /\ stored = None /\ makefile = {} /\ env = {}
  /\ cache = [p \in Projects |-> None]
  /\ pc = "stopped" /\ call \in Calls
  /\ force = FALSE /\ building = {} /\ todo = <<>> /\ processed = {}
  /\ drifted = FALSE /\ failed = {}

-----------------------------------------------------------------------------
(* Before the loop.                                                        *)

Input(c) == [packages |-> c.packages, cmake_args |-> c.cmake_args]

ChangedPaths(c) ==  \* mutant: the arguments are not compared
  stored = None \/ stored.packages # c.packages

\* cmake_input_changed.
Changed(c) == stored = None \/ stored # Input(c)

\* The stored input does not go with what projects are configured with: the
\* devel space is switched, or arguments are used that will not be stored.
Drifts(c) ==
  /\ stored # None
  /\ c.merge # call.merge \/ (c.force_cmake /\ c.cmake_args # stored.cmake_args)

\* The input is compared with what is stored, and stored, unless cmake is
\* forced anyway.
Invoke(c) ==
  /\ pc \in {"done", "stopped"} /\ pc' = "loop"
  /\ call' = c /\ building' = c.build_packages /\ processed' = {}
  /\ todo' = Order[c.packages]
  /\ \/ c.force_cmake /\ force' = TRUE /\ UNCHANGED stored
     \/ ~c.force_cmake /\ force' = Changed(c) /\ stored' = Input(c)
  /\ drifted' = (drifted \/ Drifts(c))
  /\ UNCHANGED <<makefile, cache, env, failed>>

-----------------------------------------------------------------------------
(* build_package, for the project at the head of what is to do.            *)

Chosen == building = {} \/ project \in building

\* One that is not asked for: it is taken to be built.
Skip ==
  /\ pc = "loop" /\ todo # <<>> /\ ~Chosen
  /\ todo' = Tail(todo)
  /\ UNCHANGED <<files, pc, call, force, building, processed, history>>

\* One that is: cmake is invoked if there is no Makefile, or if it is forced.
Begin ==
  /\ pc = "loop" /\ todo # <<>> /\ Chosen
  /\ building' = IF call.continue_from_pkg THEN {} ELSE building
  /\ pc' = IF project \notin makefile \/ force THEN "cmake" ELSE "check"
  /\ UNCHANGED <<files, call, force, todo, processed, history>>

ConfigureBare ==  \* mutant: cmake is not given the arguments
  /\ pc = "cmake" /\ LastEnvThere /\ pc' = "make"
  /\ makefile' = makefile \cup {project}
  /\ env' = IF project \in Plain THEN env ELSE env \cup {Space(project)}
  /\ failed' = failed \ {project}
  /\ UNCHANGED <<stored, cache, call, force, building, todo, processed, drifted>>

\* cmake writes the Makefile, and with an alpine project its env.sh.
Configure ==
  /\ pc = "cmake" /\ LastEnvThere /\ pc' = "make"
  /\ cache' = [cache EXCEPT ![project] = Wanted(project)]
  /\ makefile' = makefile \cup {project}
  /\ env' = IF project \in Plain THEN env ELSE env \cup {Space(project)}
  /\ failed' = failed \ {project}
  /\ UNCHANGED <<stored, call, force, building, todo, processed, drifted>>

\* The files the invocation leaves behind are not those it has stored: it has
\* replaced the input, and not come to a project with an older Makefile.
Behind(made) ==
  force /\ ~call.force_cmake /\ (call.packages \ processed) \cap made # {}

ConfigureFailsKept ==  \* mutant: the Makefile is not removed
  /\ pc = "cmake" /\ LastEnvThere /\ pc' = "stopped"
  /\ cache' \in {cache, [cache EXCEPT ![project] = Wanted(project)]}
  /\ failed' = failed \cup {project}
  /\ drifted' = (drifted \/ Behind(makefile))
  /\ UNCHANGED <<stored, makefile, env, call, force, building, todo, processed>>

\* cmake fails; it may have cached its arguments.  The Makefile of an alpine
\* project is removed.
ConfigureFails ==
  /\ pc = "cmake" /\ LastEnvThere /\ pc' = "stopped"
  /\ cache' \in {cache, [cache EXCEPT ![project] = Wanted(project)]}
  /\ makefile' = IF project \in Plain THEN makefile ELSE makefile \ {project}
  /\ failed' = failed \cup {project}
  /\ drifted' = (drifted \/ Behind(makefile'))
  /\ UNCHANGED <<stored, env, call, force, building, todo, processed>>

\* make cmake_check_build_system uses the cached arguments.
Check ==
  /\ pc = "check" /\ LastEnvThere /\ pc' = "make"
  /\ UNCHANGED <<files, call, force, building, todo, processed, history>>

\* make succeeds; a plain project is installed and gets an env.sh, unless that is
\* the one it is run by; an alpine project must have one.
Make ==
  /\ pc = "make" /\ LastEnvThere /\ pc' = "loop"
  /\ \/ /\ project \in Plain
        /\ env' = IF call.merge /\ Done > 0 THEN env
                                          ELSE env \cup {Space(project)}
     \/ project \notin Plain /\ Space(project) \in env /\ UNCHANGED env
  /\ processed' = processed \cup {project} /\ todo' = Tail(todo)
  /\ UNCHANGED <<stored, makefile, cache, call, force, building, history>>

\* A command fails, an env.sh is missing, or the user interrupts.
Stop ==
  /\ pc \in {"loop", "cmake", "check", "make"} /\ todo # <<>> /\ pc' = "stopped"
  /\ drifted' = (drifted \/ Behind(makefile))
  /\ UNCHANGED <<files, call, force, building, todo, processed, failed>>

\* All projects are built; the devel space gets an env.sh that relays to that
\* of the last one.
Finish ==
  /\ pc = "loop" /\ todo = <<>> /\ pc' = "done"
  /\ env' = IF building = {} /\ ~call.merge THEN env \cup {Merged} ELSE env
  /\ drifted' = IF force /\ processed = call.packages /\ stored = Input(call)
                THEN FALSE ELSE drifted \/ Behind(makefile)
  /\ UNCHANGED <<stored, makefile, cache, call, force, building, todo, processed,
                 failed>>

\* The user deletes the build space.
Clean ==
  /\ pc \in {"done", "stopped"} /\ pc' = "stopped"
  /\ stored' = None /\ makefile' = {} /\ cache' = [p \in Projects |-> None]
  /\ drifted' = FALSE /\ failed' = {}
  /\ UNCHANGED <<env, call, force, building, todo, processed>>

Next ==
  \/ \E c \in Calls : Invoke(c)
  \/ Skip \/ Begin \/ Configure \/ ConfigureFails \/ Check \/ Make
  \/ Stop \/ Finish \/ Clean

Spec == Init /\ [][Next]_vars

-----------------------------------------------------------------------------
(* Properties.                                                             *)

\* Type correctness.
TypeOK ==
  /\ stored \in {None} \cup Inputs
  /\ makefile \subseteq Projects /\ env \subseteq Spaces
  /\ cache \in [Projects -> Configuration \cup {None}]
  /\ \A p \in makefile : cache[p] # None
  /\ pc \in {"loop", "cmake", "check", "make", "done", "stopped"}
  /\ call \in Calls /\ force \in BOOLEAN /\ drifted \in BOOLEAN
  /\ building \subseteq call.build_packages
  /\ todo \in Seq(Projects) /\ processed \subseteq call.packages
  /\ failed \subseteq Projects

AsAskedFor == \A p \in processed : cache[p] = Wanted(p)

\* An invocation that ends well has built with the arguments it was given: "The
\* packages or cmake arguments have changed, forcing cmake invocation".
BuildsWithArguments ==
  pc = "done" => \A p \in processed : cache[p].cmake_args = call.cmake_args

\* An invocation that ends well has built for the devel space and with the
\* arguments it was asked for if cmake was forced, whatever happened before; and
\* unless, since all projects were last configured together, an invocation
\* replaced the stored input and did not come to all Makefiles, or was forced
\* with arguments it did not store, or switched the devel space.
BuildsAsAskedUnlessDrifted == pc = "done" /\ (force \/ ~drifted) => AsAskedFor

\* An alpine project whose cmake failed is configured again before it is made
\* ("remove Makefile to force CMake invocation next time").
FailureIsRepeated == pc = "make" /\ project \in failed => project \in Plain
=============================================================================
