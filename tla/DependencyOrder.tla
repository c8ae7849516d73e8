-------------------------- MODULE DependencyOrder --------------------------
(***************************************************************************)
(* The DependencyManager of the runtime and the depth-first sort it uses   *)
(* (process/dependency_manager/dependency_manager.h, topological_sort.h;   *)
(* ServiceManager::resolve_start_order is the same sort over services_).   *)
(* The table of dependencies is an unordered_map: a sort meets its keys in *)
(* an order nobody chose.  dfs is recursive, so that a sort has a stack of *)
(* its active calls here, and one turn of a loop is one step.              *)
(***************************************************************************)
EXTENDS Naturals, Sequences

CONSTANTS
    Services,    \* names, of services and of what they depend on
    DepLists,    \* the lists of dependencies a name may have
    Tables       \* the tables set_dependencies is called with

ASSUME DependsAssumption ==
    /\ DepLists \subseteq Seq(Services)
    /\ \A table \in Tables : DOMAIN table \subseteq Services /\ table \in [DOMAIN table -> DepLists]

VARIABLES
    deps_,      \* the names added so far, each with its dependencies
    sorting,    \* "no", "yes", or "done" when it returns
    keysLeft,   \* the keys the loop of sort has still to come to
    visited,    \* visited
    dfsCalls,   \* the active calls of dfs, with the next dependency of each
    order       \* order

dependencyVars == <<deps_, sorting, keysLeft, visited, dfsCalls, order>>

Keys == DOMAIN deps_

DependencyInit ==
    /\ deps_ = [n \in {} |-> <<>>]
    /\ sorting = "no"
    /\ keysLeft = {} /\ visited = {}
    /\ dfsCalls = <<>> /\ order = <<>>

\* No sort is running, and the order an earlier one has returned is no longer kept.
ForgetOrder ==
    /\ sorting # "yes"
    /\ sorting' = "no"
    /\ keysLeft' = {} /\ visited' = {} /\ dfsCalls' = <<>> /\ order' = <<>>

SetDependencies(deps) == deps_' = deps /\ ForgetOrder

\* A name added again has its dependencies replaced.
AddDependency(name, deps) ==
    /\ deps_' = [n \in Keys \cup {name} |-> IF n = name THEN deps ELSE deps_[n]]
    /\ ForgetOrder

-----------------------------------------------------------------------------

\* sort, up to its loop over the keys.
Sort ==
    /\ sorting = "no"
    /\ sorting' = "yes"
    /\ keysLeft' = Keys
    /\ UNCHANGED <<deps_, visited, dfsCalls, order>>

\* Mutant of CallDfs: the name comes before what it depends on.
CallDfsBefore(name, calls) ==
    /\ visited' = visited \cup {name}
    /\ IF name \in visited \/ name \notin Keys
       THEN dfsCalls' = calls /\ UNCHANGED order
       ELSE /\ dfsCalls' = Append(calls, [name |-> name, next |-> 1])
            /\ order' = IF name \in {order[i] : i \in DOMAIN order} THEN order
                        ELSE Append(order, name)

\* dfs(name) up to its loop, called where calls are active; a name that is no key
\* is visited and left out.
CallDfs(name, calls) ==
    /\ visited' = visited \cup {name}
    /\ dfsCalls' = IF name \in visited \/ name \notin Keys THEN calls
                   ELSE Append(calls, [name |-> name, next |-> 1])
    /\ UNCHANGED order

NextKey == \E name \in keysLeft :
    /\ dfsCalls = <<>>
    /\ keysLeft' = keysLeft \ {name}
    /\ CallDfs(name, dfsCalls)
    /\ UNCHANGED <<deps_, sorting>>

TopCall == dfsCalls[Len(dfsCalls)]

NextDependency ==
    /\ dfsCalls # <<>>
    /\ TopCall.next <= Len(deps_[TopCall.name])
    /\ CallDfs(deps_[TopCall.name][TopCall.next],
               [dfsCalls EXCEPT ![Len(dfsCalls)].next = @ + 1])
    /\ UNCHANGED <<deps_, sorting, keysLeft>>

Finish ==
    /\ dfsCalls # <<>>
    /\ TopCall.next > Len(deps_[TopCall.name])
    /\ order' = Append(order, TopCall.name)
    /\ dfsCalls' = SubSeq(dfsCalls, 1, Len(dfsCalls) - 1)
    /\ UNCHANGED <<deps_, sorting, keysLeft, visited>>

SortReturns ==
    /\ sorting = "yes"
    /\ keysLeft = {} /\ dfsCalls = <<>>
    /\ sorting' = "done"
    /\ UNCHANGED <<deps_, keysLeft, visited, dfsCalls, order>>

ResolveStartOrder == order

ResolveStopOrder == [i \in DOMAIN order |-> order[Len(order) + 1 - i]]

DependencyNext ==
    \/ \E deps \in Tables : SetDependencies(deps)
    \/ \E name \in Services, deps \in DepLists : AddDependency(name, deps)
    \/ Sort \/ NextKey \/ NextDependency \/ Finish \/ SortReturns

DependencySpec == DependencyInit /\ [][DependencyNext]_dependencyVars

-----------------------------------------------------------------------------

DependencyTypeOK ==
    /\ Keys \subseteq Services
    /\ deps_ \in [Keys -> DepLists]
    /\ sorting \in {"no", "yes", "done"}
    /\ keysLeft \subseteq Keys
    /\ visited \subseteq Services
    /\ dfsCalls \in Seq([name : Services, next : Nat])
    /\ order \in Seq(Services)

DependsOn(n, m) == n \in Keys /\ \E k \in DOMAIN deps_[n] : deps_[n][k] = m

\* Nothing in the set depends on anything outside it.
ClosedUnder(set) == \A n \in set : \A m \in Services : DependsOn(n, m) => m \in set

\* n depends on m, and m does not depend on n, over whatever others.
Behind(n, m) ==
    /\ DependsOn(n, m)
    /\ \E set \in SUBSET Services : ClosedUnder(set) /\ m \in set /\ n \notin set

\* An order has every service once, cycles or not.  In a start order a service
\* comes after each of its dependencies that does not depend on it in turn, in
\* a stop order before: whichever order the map yields its keys in, and whatever
\* names are depended on that are no keys (sort, resolve_start_order,
\* resolve_stop_order).
OrderRespectsDeps ==
    sorting = "done" =>
        LET start == ResolveStartOrder
            stop  == ResolveStopOrder
        IN  /\ \A names \in {start, stop} :
                  /\ {names[i] : i \in DOMAIN names} = Keys
                  /\ \A i, j \in DOMAIN names : names[i] = names[j] => i = j
            /\ \A i, j \in DOMAIN order :
                  /\ Behind(start[i], start[j]) => j < i
                  /\ Behind(stop[i], stop[j]) => i < j

=============================================================================
