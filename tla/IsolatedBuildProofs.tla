------------------------- MODULE IsolatedBuildProofs -------------------------
(***************************************************************************)
(* For any projects, arguments, selections and orders, and any number of   *)
(* invocations and cleanings: one that ends well has built as it was asked *)
(* for, unless the files have drifted from the stored input, and an alpine *)
(* project whose cmake failed is configured again before it is made.       *)
(***************************************************************************)
EXTENDS IsolatedBuild, TLAPS

-----------------------------------------------------------------------------
(* The inductive invariant.                                                *)

\* p is configured as the stored input says, for the devel space of the call.
AsStored(p) == cache[p] = [cmake_args |-> stored.cmake_args, space |-> Space(p)]

Building == pc \in {"loop", "cmake", "check", "make"}

\* The project that is worked at is one of the call; it has a Makefile, once
\* cmake was run or skipped.
CallInv ==
  /\ todo \in Seq(call.packages)
  /\ pc \in {"cmake", "check", "make"} => todo # <<>>
  /\ pc \in {"check", "make"} => project \in makefile
  /\ Building \/ pc = "done" => processed \subseteq makefile
  /\ failed \cap makefile \subseteq Plain

\* When cmake is forced, what is built is configured as the call wants it.
ForceInv ==
  Building \/ pc = "done" =>
    /\ call.force_cmake => force
    /\ ~call.force_cmake => stored = Input(call)
    /\ force => AsAskedFor /\ pc # "check"
                /\ (pc = "make" => cache[project] = Wanted(project))

\* While nothing has drifted the call has the stored arguments; and unless it
\* has just replaced the input, the Makefiles of the stored packages agree.
StoredInv ==
  Building /\ ~drifted /\ stored # None =>
    /\ stored.cmake_args = call.cmake_args
    /\ call.force_cmake \/ ~force =>
         \A p \in makefile \cap stored.packages : AsStored(p)

\* Between invocations they agree whatever was done.
IdleInv ==
  pc \in {"done", "stopped"} /\ ~drifted /\ stored # None =>
    \A p \in makefile \cap stored.packages : AsStored(p)

Inv == TypeOK /\ CallInv /\ ForceInv /\ StoredInv /\ IdleInv

-----------------------------------------------------------------------------
(* Facts of calls and of what they are for.                                *)

LEMMA Orders ==
  ASSUME NEW s \in Selections
  PROVE  Order[s] \in Seq(s) /\ s \subseteq Projects
<1>1. Order[s] \in Seq(Projects) /\ {Order[s][i] : i \in DOMAIN Order[s]} = s
  BY ProjectsAssumption
<1>2. \A i \in 1 .. Len(Order[s]) : Order[s][i] \in s
  BY <1>1
<1>3. Order[s] \in Seq(s)
  BY <1>1, <1>2
<1>4. s \subseteq Projects
  BY ProjectsAssumption
<1> QED
  BY <1>3, <1>4

LEMMA CallFields ==
  ASSUME NEW c \in Calls
  PROVE  /\ c.packages \in Selections /\ c.cmake_args \in Args
         /\ c.merge \in BOOLEAN /\ c.force_cmake \in BOOLEAN
         /\ c.build_packages \subseteq c.packages
<1>1. PICK s \in Selections :
        c \in [packages : {s}, cmake_args : Args, merge : BOOLEAN,
               force_cmake : BOOLEAN, build_packages : SUBSET s,
               continue_from_pkg : BOOLEAN]
  BY DEF Calls
<1> QED
  BY <1>1

\* What a call stores, and what it configures a project with.
LEMMA InputOfCall ==
  ASSUME NEW c \in Calls
  PROVE  /\ Input(c) \in Inputs /\ Input(c) # None
         /\ Input(c).packages = c.packages /\ Input(c).cmake_args = c.cmake_args
<1>1. Input(c) \in Inputs
  BY CallFields DEF Input, Inputs
<1>2. Input(c) # None
  BY <1>1, NoneAssumption
<1> QED
  BY <1>1, <1>2 DEF Input

LEMMA WantedConfiguration ==
  ASSUME call \in Calls, NEW p \in Projects
  PROVE  Wanted(p) \in Configuration /\ Wanted(p) # None /\ Space(p) \in Spaces
<1>1. Space(p) \in Spaces
  BY DEF Space, Spaces
<1>2. Wanted(p) \in Configuration
  BY <1>1, CallFields DEF Wanted, Configuration
<1> QED
  BY <1>1, <1>2, NoneAssumption

\* The project an invocation is at.
LEMMA ProjectOfCall ==
  ASSUME TypeOK, CallInv, todo # <<>>
  PROVE  /\ project \in call.packages /\ project \in Projects
         /\ Tail(todo) \in Seq(call.packages) /\ Tail(todo) \in Seq(Projects)
<1>1. call.packages \subseteq Projects
  BY CallFields, Orders DEF TypeOK
<1>2. project \in call.packages /\ Tail(todo) \in Seq(call.packages)
  BY DEF CallInv, project
<1>3. Tail(todo) \in Seq(Projects)
  BY DEF TypeOK
<1> QED
  BY <1>1, <1>2, <1>3

-----------------------------------------------------------------------------
(* It holds at first, and types are kept.                                  *)

LEMMA Initially == Init => Inv
<1> SUFFICES ASSUME Init PROVE Inv
  OBVIOUS
<1>1. TypeOK
  <2>1. <<>> \in Seq(Projects)
    OBVIOUS
  <2>2. cache \in [Projects -> Configuration \cup {None}]
    BY DEF Init
  <2>3. makefile = {} /\ \A p \in makefile : cache[p] # None
    BY DEF Init
  <2> QED
    BY <2>1, <2>2, <2>3 DEF Init, TypeOK
<1>2. CallInv
  <2>1. <<>> \in Seq(call.packages)
    OBVIOUS
  <2> QED
    BY <2>1 DEF Init, CallInv, Building
<1>3. ForceInv /\ StoredInv /\ IdleInv
  BY DEF Init, ForceInv, StoredInv, IdleInv, Building
<1> QED
  BY <1>1, <1>2, <1>3 DEF Inv

\* A failing cmake has the cached arguments as they were, or for the call.
LEMMA CacheAfterFailure ==
  ASSUME TypeOK, CallInv, pc = "cmake",
         cache' \in {cache, [cache EXCEPT ![project] = Wanted(project)]}
  PROVE  /\ cache' \in [Projects -> Configuration \cup {None}]
         /\ \A p \in Projects :
              cache'[p] = cache[p] \/ (p = project /\ cache'[p] = Wanted(p))
<1>1. project \in Projects
  BY ProjectOfCall DEF CallInv
<1>2. Wanted(project) \in Configuration
  BY <1>1, WantedConfiguration DEF TypeOK
<1>3. cache \in [Projects -> Configuration \cup {None}]
  BY DEF TypeOK
<1> QED
  BY <1>1, <1>2, <1>3

LEMMA TypeStep ==
  ASSUME TypeOK, CallInv, [Next]_vars
  PROVE  TypeOK'
<1>1. ASSUME NEW c \in Calls, Invoke(c) PROVE TypeOK'
  <2>1. c.packages \in Selections /\ Order[c.packages] \in Seq(Projects)
    BY CallFields, ProjectsAssumption
  <2>2. Changed(c) \in BOOLEAN /\ Drifts(c) \in BOOLEAN
    BY DEF Changed, Drifts
  <2>3. stored' \in {None} \cup Inputs /\ force' \in BOOLEAN
    BY <1>1, <2>2, InputOfCall DEF Invoke, TypeOK
  <2>4. UNCHANGED <<makefile, cache, env, failed>>
    BY <1>1 DEF Invoke
  <2>5. /\ pc' = "loop" /\ call' = c /\ building' = c.build_packages
        /\ processed' = {} /\ todo' = Order[c.packages]
    BY <1>1 DEF Invoke
  <2>6. drifted' \in BOOLEAN
    BY <1>1, <2>2 DEF Invoke, TypeOK
  <2> QED
    BY <2>1, <2>3, <2>4, <2>5, <2>6 DEF TypeOK
<1>2. CASE Skip
  BY <1>2, ProjectOfCall DEF Skip, TypeOK, files, history
<1>3. CASE Begin
  BY <1>3 DEF Begin, TypeOK, files, history
<1>4. CASE Configure
  <2>1. project \in Projects
    BY <1>4, ProjectOfCall DEF Configure, CallInv
  <2>2. Wanted(project) \in Configuration /\ Wanted(project) # None
        /\ Space(project) \in Spaces
    BY <2>1, WantedConfiguration DEF TypeOK
  <2>3. /\ cache' \in [Projects -> Configuration \cup {None}]
        /\ \A p \in makefile' : cache'[p] # None
    BY <1>4, <2>1, <2>2 DEF Configure, TypeOK
  <2>4. /\ UNCHANGED <<stored, call, force, building, todo, processed, drifted>>
        /\ pc' = "make" /\ makefile' = makefile \cup {project}
        /\ env' = IF project \in Plain THEN env ELSE env \cup {Space(project)}
        /\ failed' = failed \ {project}
    BY <1>4 DEF Configure
  <2> QED
    BY <2>1, <2>2, <2>3, <2>4 DEF TypeOK
<1>5. CASE ConfigureFails
  <2>1. project \in Projects
    BY <1>5, ProjectOfCall DEF ConfigureFails, CallInv
  <2>2. Wanted(project) # None
    BY <2>1, WantedConfiguration DEF TypeOK
  <2>3. /\ cache' \in [Projects -> Configuration \cup {None}]
        /\ \A p \in Projects :
             cache'[p] = cache[p] \/ (p = project /\ cache'[p] = Wanted(p))
    BY <1>5, CacheAfterFailure DEF ConfigureFails
  <2>4. makefile' \subseteq makefile
    BY <1>5 DEF ConfigureFails
  <2>5. \A p \in makefile' : cache'[p] # None
    BY <2>2, <2>3, <2>4 DEF TypeOK
  <2>6. /\ UNCHANGED <<stored, env, call, force, building, todo, processed>>
        /\ pc' = "stopped" /\ failed' = failed \cup {project}
        /\ drifted' = (drifted \/ Behind(makefile'))
    BY <1>5 DEF ConfigureFails
  <2> QED
    BY <2>1, <2>3, <2>4, <2>5, <2>6 DEF TypeOK, Behind
<1>6. CASE Check
  BY <1>6 DEF Check, TypeOK, files, history
<1>7. CASE Make
  <2>1. /\ project \in call.packages /\ project \in Projects
        /\ Tail(todo) \in Seq(Projects)
    BY <1>7, ProjectOfCall DEF Make, CallInv
  <2>2. Space(project) \in Spaces
    BY <2>1, WantedConfiguration DEF TypeOK
  <2>3. env' \subseteq Spaces
    BY <1>7, <2>2 DEF Make, TypeOK
  <2>4. /\ UNCHANGED <<stored, makefile, cache, call, force, building, history>>
        /\ pc' = "loop" /\ processed' = processed \cup {project}
        /\ todo' = Tail(todo)
    BY <1>7 DEF Make
  <2> QED
    BY <2>1, <2>3, <2>4 DEF TypeOK, history
<1>8. CASE Stop
  BY <1>8 DEF Stop, TypeOK, files, Behind
<1>9. CASE Finish
  <2>1. env' \subseteq Spaces
    BY <1>9 DEF Finish, TypeOK, Spaces
  <2> QED
    BY <1>9, <2>1 DEF Finish, TypeOK, Behind
<1>10. CASE Clean
  BY <1>10 DEF Clean, TypeOK
<1>11. CASE UNCHANGED vars
  BY <1>11 DEF vars, files, program, history, TypeOK
<1> QED
  BY <1>1, <1>2, <1>3, <1>4, <1>5, <1>6, <1>7, <1>8, <1>9, <1>10, <1>11 DEF Next

-----------------------------------------------------------------------------
(* The files and the call agree step after step.                           *)

LEMMA CallStep ==
  ASSUME TypeOK, CallInv, ForceInv, [Next]_vars
  PROVE  CallInv'
<1>1. ASSUME NEW c \in Calls, Invoke(c) PROVE CallInv'
  <2>1. Order[c.packages] \in Seq(c.packages)
    BY CallFields, Orders
  <2> QED
    BY <1>1, <2>1 DEF Invoke, CallInv, Building
<1>2. CASE Skip
  BY <1>2, ProjectOfCall DEF Skip, CallInv, Building, files, history
<1>3. CASE Begin
  BY <1>3 DEF Begin, CallInv, Building, files, history, project
<1>4. CASE Configure
  BY <1>4 DEF Configure, CallInv, Building, project
<1>5. CASE ConfigureFails
  BY <1>5 DEF ConfigureFails, CallInv, Building
<1>6. CASE Check
  BY <1>6 DEF Check, CallInv, Building, files, history, project
<1>7. CASE Make
  BY <1>7, ProjectOfCall DEF Make, CallInv, Building, history
<1>8. CASE Stop
  BY <1>8 DEF Stop, CallInv, Building, files
<1>9. CASE Finish
  BY <1>9 DEF Finish, CallInv, Building
<1>10. CASE Clean
  BY <1>10 DEF Clean, CallInv, Building
<1>11. CASE UNCHANGED vars
  BY <1>11 DEF vars, files, program, history, CallInv, Building, project
<1> QED
  BY <1>1, <1>2, <1>3, <1>4, <1>5, <1>6, <1>7, <1>8, <1>9, <1>10, <1>11 DEF Next

LEMMA ForceStep ==
  ASSUME TypeOK, CallInv, ForceInv, [Next]_vars
  PROVE  ForceInv'
<1>1. ASSUME NEW c \in Calls, Invoke(c) PROVE ForceInv'
  <2>1. c.force_cmake \in BOOLEAN
    BY CallFields
  <2>2. stored' = Input(c) \/ c.force_cmake
    BY <1>1 DEF Invoke
  <2>3. call' = c /\ processed' = {} /\ pc' = "loop" /\ (c.force_cmake => force')
    BY <1>1 DEF Invoke
  <2> QED
    BY <2>1, <2>2, <2>3 DEF ForceInv, Building, AsAskedFor, Input
<1>2. CASE Skip
  BY <1>2 DEF Skip, ForceInv, Building, AsAskedFor, Wanted, Space, Input, files, history
<1>3. CASE Begin
  BY <1>3 DEF Begin, ForceInv, Building, AsAskedFor, Wanted, Space, Input, files,
              history, project
<1>4. CASE Configure
  <2>1. project \in Projects /\ cache \in [Projects -> Configuration \cup {None}]
    BY <1>4, ProjectOfCall DEF Configure, CallInv, TypeOK
  <2>2. /\ cache' = [cache EXCEPT ![project] = Wanted(project)]
        /\ UNCHANGED <<stored, call, force, todo, processed>>
        /\ pc = "cmake" /\ pc' = "make"
    BY <1>4 DEF Configure
  <2>3. project' = project /\ \A p : Wanted(p)' = Wanted(p)
    BY <2>2 DEF project, Wanted, Space
  <2>4. processed \subseteq Projects
    BY CallFields, Orders DEF TypeOK
  <2>5. AsAskedFor => AsAskedFor'
    BY <2>1, <2>2, <2>3, <2>4 DEF AsAskedFor
  <2>6. cache'[project'] = Wanted(project)'
    BY <2>1, <2>2, <2>3
  <2> QED
    BY <2>2, <2>5, <2>6 DEF ForceInv, Building, Input
<1>5. CASE ConfigureFails
  BY <1>5 DEF ConfigureFails, ForceInv, Building
<1>6. CASE Check
  BY <1>6 DEF Check, ForceInv, Building, Wanted, Space, Input, AsAskedFor, files,
              history, project
<1>7. CASE Make
  BY <1>7 DEF Make, ForceInv, Building, Wanted, Space, Input, AsAskedFor, history
<1>8. CASE Stop
  BY <1>8 DEF Stop, ForceInv, Building
<1>9. CASE Finish
  BY <1>9 DEF Finish, ForceInv, Building, Wanted, Space, Input, AsAskedFor
<1>10. CASE Clean
  BY <1>10 DEF Clean, ForceInv, Building
<1>11. CASE UNCHANGED vars
  BY <1>11 DEF vars, files, program, history, ForceInv, Building, Wanted, Space,
               Input, AsAskedFor, project
<1> QED
  BY <1>1, <1>2, <1>3, <1>4, <1>5, <1>6, <1>7, <1>8, <1>9, <1>10, <1>11 DEF Next

\* An invocation that leaves as it is what a project was configured with keeps
\* the Makefiles of the stored packages in agreement.
LEMMA SameFiles ==
  ASSUME UNCHANGED <<stored, makefile, cache, call, force, drifted>>,
         Building, Building', StoredInv
  PROVE  StoredInv'
BY DEF StoredInv, AsStored, Space

LEMMA StoredStep ==
  ASSUME Inv, [Next]_vars
  PROVE  StoredInv'
<1>1. ASSUME NEW c \in Calls, Invoke(c) PROVE StoredInv'
  <2> SUFFICES ASSUME ~drifted', stored' # None
               PROVE  /\ stored'.cmake_args = c.cmake_args
                      /\ c.force_cmake \/ ~force' =>
                           \A p \in makefile \cap stored'.packages : AsStored(p)'
    BY <1>1 DEF StoredInv, Invoke
  <2>1. ~drifted /\ ~Drifts(c) /\ pc \in {"done", "stopped"}
    BY <1>1 DEF Invoke
  <2>2. call' = c /\ UNCHANGED <<makefile, cache>>
    BY <1>1 DEF Invoke
  <2>3. stored # None => c.merge = call.merge
                         /\ (c.force_cmake => c.cmake_args = stored.cmake_args)
    BY <2>1 DEF Drifts
  <2>4. CASE stored # None /\ stored' = stored
    <3>1. \A p \in makefile \cap stored.packages : AsStored(p)
      BY <2>1, <2>4 DEF Inv, IdleInv
    <3>2. \A p : AsStored(p) => AsStored(p)'
      BY <2>2, <2>3, <2>4 DEF AsStored, Space
    <3>3. stored.cmake_args = c.cmake_args
      <4>1. c.force_cmake \/ stored' = Input(c)
        BY <1>1 DEF Invoke
      <4> QED
        BY <2>3, <2>4, <4>1, InputOfCall
    <3> QED
      BY <2>4, <3>1, <3>2, <3>3
  <2>5. CASE stored = None \/ stored' # stored
    <3>1. ~c.force_cmake /\ stored' = Input(c) /\ force' = Changed(c)
      BY <1>1, <2>5 DEF Invoke
    <3>2. force'
      BY <2>5, <3>1 DEF Changed
    <3> QED
      BY <3>1, <3>2, InputOfCall
  <2> QED
    BY <2>4, <2>5
<1>2. CASE Skip
  BY <1>2, SameFiles DEF Skip, Inv, Building, files, history
<1>3. CASE Begin
  BY <1>3, SameFiles DEF Begin, Inv, Building, files, history
<1>4. CASE Configure
  <2> SUFFICES ASSUME ~drifted, stored # None
               PROVE  /\ stored.cmake_args = call.cmake_args
                      /\ call.force_cmake \/ ~force =>
                           \A p \in makefile' \cap stored.packages : AsStored(p)'
    BY <1>4 DEF StoredInv, Configure
  <2>1. project \in Projects /\ cache \in [Projects -> Configuration \cup {None}]
    BY <1>4, ProjectOfCall DEF Configure, Inv, CallInv, TypeOK
  <2>2. /\ cache' = [cache EXCEPT ![project] = Wanted(project)]
        /\ UNCHANGED <<stored, call>> /\ makefile' = makefile \cup {project}
    BY <1>4 DEF Configure
  <2>3. stored.cmake_args = call.cmake_args
    BY <1>4 DEF Configure, Inv, StoredInv, Building
  <2>4. \A p \in {project} : AsStored(p)'
    BY <2>1, <2>2, <2>3 DEF AsStored, Wanted, Space
  <2>5. \A p \in Projects \ {project} : AsStored(p) => AsStored(p)'
    BY <2>1, <2>2 DEF AsStored, Space
  <2>6. call.force_cmake \/ ~force =>
          \A p \in makefile \cap stored.packages : AsStored(p)
    BY <1>4 DEF Configure, Inv, StoredInv, Building
  <2>7. makefile \subseteq Projects
    BY DEF Inv, TypeOK
  <2>8. ASSUME call.force_cmake \/ ~force,
               NEW p \in makefile' \cap stored.packages
        PROVE  AsStored(p)'
    BY <2>2, <2>4, <2>5, <2>6, <2>7, <2>8
  <2> QED
    BY <2>3, <2>8
<1>5. CASE Check
  BY <1>5, SameFiles DEF Check, Inv, Building, files, history
<1>6. CASE Make
  BY <1>6, SameFiles DEF Make, Inv, Building, history
<1>7. CASE ConfigureFails \/ Stop \/ Finish \/ Clean
  BY <1>7 DEF ConfigureFails, Stop, Finish, Clean, StoredInv, Building
<1>8. CASE UNCHANGED vars
  BY <1>8 DEF vars, files, program, history, Inv, StoredInv, Building, AsStored, Space
<1> QED
  BY <1>1, <1>2, <1>3, <1>4, <1>5, <1>6, <1>7, <1>8 DEF Next

\* An invocation that ends, and has not left behind Makefiles that are not as
\* it has stored, leaves those of the stored packages in agreement.
LEMMA NothingBehind ==
  ASSUME Inv, Building, ~drifted, stored # None,
         NEW made \in SUBSET makefile, ~Behind(made)
  PROVE  \A p \in made \cap stored.packages : AsStored(p)
<1>1. stored.cmake_args = call.cmake_args
  BY DEF Inv, StoredInv
<1>2. CASE call.force_cmake \/ ~force
  BY <1>2 DEF Inv, StoredInv
<1>3. CASE force /\ ~call.force_cmake
  <2>1. stored.packages = call.packages
    BY <1>3, InputOfCall DEF Inv, TypeOK, ForceInv
  <2>2. made \cap call.packages \subseteq processed
    BY <1>3 DEF Behind
  <2>3. AsAskedFor
    BY <1>3 DEF Inv, ForceInv
  <2>4. \A p \in processed : AsStored(p)
    BY <1>1, <2>3 DEF AsAskedFor, Wanted, AsStored
  <2> QED
    BY <2>1, <2>2, <2>4
<1> QED
  BY <1>2, <1>3

LEMMA IdleStep ==
  ASSUME Inv, [Next]_vars
  PROVE  IdleInv'
<1> USE DEF Building
<1>1. ASSUME NEW c \in Calls, Invoke(c) PROVE IdleInv'
  BY <1>1 DEF Invoke, IdleInv
<1>2. CASE Skip \/ Begin \/ Configure \/ Check \/ Make
  BY <1>2 DEF Skip, Begin, Configure, Check, Make, IdleInv
<1>3. CASE ConfigureFails
  <2> SUFFICES ASSUME ~drifted', stored' # None, NEW p \in makefile' \cap stored'.packages
               PROVE  AsStored(p)'
    BY DEF IdleInv
  <2>1. /\ UNCHANGED <<stored, call>> /\ pc = "cmake" /\ makefile' \subseteq makefile
        /\ ~drifted /\ ~Behind(makefile')
    BY <1>3 DEF ConfigureFails
  <2>2. AsStored(p)
    BY <2>1, NothingBehind
  <2>3. p \in Projects
    BY <2>1 DEF Inv, TypeOK
  <2>4. cache'[p] = cache[p] \/ cache'[p] = Wanted(p)
    BY <1>3, <2>1, <2>3, CacheAfterFailure DEF Inv, ConfigureFails
  <2>5. stored.cmake_args = call.cmake_args
    BY <2>1 DEF Inv, StoredInv
  <2> QED
    BY <2>1, <2>2, <2>4, <2>5 DEF AsStored, Wanted, Space
<1>4. CASE Stop
  <2> SUFFICES ASSUME ~drifted', stored' # None, NEW p \in makefile' \cap stored'.packages
               PROVE  AsStored(p)'
    BY DEF IdleInv
  <2>1. UNCHANGED <<stored, makefile, cache, call>> /\ ~drifted /\ ~Behind(makefile)
    BY <1>4 DEF Stop, files
  <2>2. AsStored(p)
    BY <1>4, <2>1, NothingBehind DEF Stop
  <2> QED
    BY <2>1, <2>2 DEF AsStored, Space
<1>5. CASE Finish
  <2> SUFFICES ASSUME ~drifted', stored' # None, NEW p \in makefile' \cap stored'.packages
               PROVE  AsStored(p)'
    BY DEF IdleInv
  <2>1. UNCHANGED <<stored, makefile, cache, call>> /\ pc = "loop"
    BY <1>5 DEF Finish
  <2>2. CASE force /\ processed = call.packages /\ stored = Input(call)
    <3>1. AsAskedFor
      BY <2>1, <2>2 DEF Inv, ForceInv
    <3>2. stored.packages = processed /\ stored.cmake_args = call.cmake_args
      BY <2>2, InputOfCall DEF Inv, TypeOK
    <3> QED
      BY <2>1, <3>1, <3>2 DEF AsAskedFor, Wanted, AsStored, Space
  <2>3. CASE ~(force /\ processed = call.packages /\ stored = Input(call))
    <3>1. ~drifted /\ ~Behind(makefile)
      BY <1>5, <2>3 DEF Finish
    <3>2. AsStored(p)
      BY <2>1, <3>1, NothingBehind
    <3> QED
      BY <2>1, <3>2 DEF AsStored, Space
  <2> QED
    BY <2>2, <2>3
<1>6. CASE Clean
  BY <1>6 DEF Clean, IdleInv
<1>7. CASE UNCHANGED vars
  BY <1>7 DEF vars, files, program, history, Inv, IdleInv, AsStored, Space
<1> QED
  BY <1>1, <1>2, <1>3, <1>4, <1>5, <1>6, <1>7 DEF Next

-----------------------------------------------------------------------------
(* The theorems.                                                           *)

THEOREM Invariance == Spec => []Inv
<1>1. Inv /\ [Next]_vars => Inv'
  BY TypeStep, CallStep, ForceStep, StoredStep, IdleStep DEF Inv
<1> QED
  BY <1>1, Initially, PTL DEF Spec

\* Type correctness: what is built, and for which configuration, is of the call.
THEOREM TypeCorrect == Spec => []TypeOK
<1>1. Inv => TypeOK
  BY DEF Inv
<1> QED
  BY <1>1, Invariance, PTL

\* build_workspace_isolated: an invocation that ends well has configured all it
\* has built as it was asked to, if it forced cmake; and if it did not, because
\* the input is the stored one, unless the files had drifted from that.
THEOREM BuiltAsAsked == Spec => []BuildsAsAskedUnlessDrifted
<1>1. Inv => BuildsAsAskedUnlessDrifted
  <2> SUFFICES ASSUME Inv, pc = "done", ~force, ~drifted PROVE AsAskedFor
    BY DEF Inv, ForceInv, BuildsAsAskedUnlessDrifted
  <2>1. stored = Input(call) /\ call \in Calls
    BY DEF Inv, ForceInv, TypeOK
  <2>2. /\ stored # None /\ stored.packages = call.packages
        /\ stored.cmake_args = call.cmake_args
    BY <2>1, InputOfCall
  <2>3. processed \subseteq makefile \cap stored.packages
    BY <2>2 DEF Inv, CallInv, TypeOK
  <2>4. \A p \in processed : AsStored(p)
    BY <2>2, <2>3 DEF Inv, IdleInv
  <2> QED
    BY <2>2, <2>4 DEF AsAskedFor, AsStored, Wanted
<1> QED
  BY <1>1, Invariance, PTL

\* cmake_build of an alpine project: what failed is configured again before it
\* is made, in whichever later invocation that is.
THEOREM FailuresAreRepeated == Spec => []FailureIsRepeated
<1>1. Inv => FailureIsRepeated
  BY DEF Inv, CallInv, FailureIsRepeated
<1> QED
  BY <1>1, Invariance, PTL
=============================================================================
