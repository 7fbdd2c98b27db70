--------------------------- MODULE PluginDiscovery ---------------------------
(***************************************************************************)
(* How plugins are found: PluginRegistry::discover reads the manifests of  *)
(* the search directories, resolves what they depend on, orders them with  *)
(* Kahn's algorithm and registers them in that order                       *)
(* (src/plugins/plugin_manifest.cpp, plugin_discovery.cpp).  A manifest is *)
(* its id, its capabilities and its dependencies; a step is one turn of    *)
(* one of the loops.  in_degree[v] is the set of the edges it counts.      *)
(***************************************************************************)
EXTENDS Naturals, Sequences

CONSTANTS Ids,            \* plugin ids
          Capabilities,   \* what manifests declare
          None,           \* a field of a dependency that is left out
          Layouts         \* what the directories may hold, in the order they are read

Dependency == [id : Ids \cup {None}, capability : Capabilities \cup {None},
               required : BOOLEAN]

\* Failed stands for what the parser reports; Duplicate and Unsatisfied are
\* FieldInvalid with the message that says why.
Statuses == {"Ok", "Failed", "Duplicate", "Unsatisfied"}
Plugin == [id : Ids, capabilities : SUBSET Capabilities,
           depends : Seq(Dependency), status : Statuses]
Parsed == {"Ok", "Failed"}
Edge == [from : Nat, to : Nat]

VARIABLES phase,       \* the part of discover() that runs
          found,       \* manifests that are still to be taken
          seen,        \* seen_ids
          plugins,     \* graph.plugins
          edges,       \* graph.edges
          skipped,     \* graph.skipped
          at,          \* index of the loop that runs
          dep,         \* index into the dependencies of plugins[at]
          waiting,     \* the edges in_degree counts, for each plugin
          queue,       \* plugins all of whose edges are counted down
          adjacent,    \* edges of the plugin taken last that are not
          order,       \* the result of topologicalSort
          manifests    \* PluginRegistry::manifests_

graph == <<plugins, edges, skipped>>
sort == <<waiting, queue, adjacent, order>>
vars == <<phase, found, seen, graph, at, dep, sort, manifests>>

-----------------------------------------------------------------------------
Init ==
    /\ phase = "idle" /\ found = <<>> /\ seen = {}
    /\ plugins = <<>> /\ edges = <<>> /\ skipped = {} /\ at = 1 /\ dep = 1
    /\ waiting = <<>> /\ queue = <<>> /\ adjacent = {} /\ order = <<>>
    /\ manifests = <<>>

\* clear(), and the directories with a plugin.json in them.
Discover ==
    /\ phase = "idle"
    /\ \E f \in Layouts \cap Seq(Plugin) :
         /\ \A i \in DOMAIN f : f[i].status \in Parsed
         /\ found' = f
    /\ phase' = "load" /\ seen' = {}
    /\ plugins' = <<>> /\ edges' = <<>> /\ skipped' = {} /\ at' = 1 /\ dep' = 1
    /\ waiting' = <<>> /\ queue' = <<>> /\ adjacent' = {} /\ order' = <<>>
    /\ manifests' = <<>>

Take ==
    /\ phase = "load" /\ found # <<>>
    /\ LET d == Head(found)
           twice == d.status = "Ok" /\ d.id \in seen
       IN  /\ plugins' = Append(plugins, IF twice THEN [d EXCEPT !.status = "Duplicate"] ELSE d)
           /\ seen' = IF d.status = "Ok" THEN seen \cup {d.id} ELSE seen
    /\ found' = Tail(found)
    /\ UNCHANGED <<phase, edges, skipped, at, dep, sort, manifests>>

MarkFailed ==
    /\ phase = "load" /\ found = <<>>
    /\ skipped' = {i \in DOMAIN plugins : plugins[i].status # "Ok"}
    /\ phase' = "graph" /\ at' = 1 /\ dep' = 1
    /\ UNCHANGED <<found, seen, plugins, edges, sort, manifests>>

-----------------------------------------------------------------------------
(* buildDependencyGraph. *)

ById(d) == {i \in DOMAIN plugins :
              /\ plugins[i].status = "Ok"
              /\ d.id # None /\ plugins[i].id = d.id}
ByCapability(d) == {i \in DOMAIN plugins :
              /\ plugins[i].status = "Ok"
              /\ d.capability # None /\ d.capability \in plugins[i].capabilities}
Candidates(d) == IF ById(d) # {} THEN ById(d) ELSE ByCapability(d)
IsFirst(i, S) == i \in S /\ \A j \in S : i <= j

\* The loop looks at the status of a plugin before its first dependency only:
\* a plugin that is given up is linked to the end.
Linking ==
    /\ phase = "graph" /\ at \in DOMAIN plugins
    /\ dep \in DOMAIN plugins[at].depends
    /\ dep = 1 => plugins[at].status = "Ok"

Wanted == plugins[at].depends[dep]

Link ==
    /\ Linking
    /\ \E to \in Candidates(Wanted) :
         /\ IsFirst(to, Candidates(Wanted))
         /\ edges' = Append(edges, [from |-> at, to |-> to])
    /\ dep' = dep + 1
    /\ UNCHANGED <<phase, found, seen, plugins, skipped, at, sort, manifests>>

GiveUp ==
    /\ Linking /\ Candidates(Wanted) = {} /\ Wanted.required
    /\ plugins' = [plugins EXCEPT ![at].status = "Unsatisfied"]
    /\ skipped' = skipped \cup {at}
    /\ dep' = dep + 1
    /\ UNCHANGED <<phase, found, seen, edges, at, sort, manifests>>

DoWithout ==
    /\ Linking /\ Candidates(Wanted) = {} /\ ~Wanted.required
    /\ dep' = dep + 1
    /\ UNCHANGED <<phase, found, seen, graph, at, sort, manifests>>

NextPlugin ==
    /\ phase = "graph" /\ at \in DOMAIN plugins /\ ~Linking
    /\ at' = at + 1 /\ dep' = 1
    /\ UNCHANGED <<phase, found, seen, graph, sort, manifests>>

-----------------------------------------------------------------------------
(* topologicalSort. *)

\* Edges of or to a skipped plugin are left out.
Counted == {e \in DOMAIN edges : edges[e].from \notin skipped /\ edges[e].to \notin skipped}
EdgesOf(i) == {e \in Counted : edges[e].from = i}
EdgesTo(i) == {e \in Counted : edges[e].to = i}

CountEdges ==
    /\ phase = "graph" /\ at \notin DOMAIN plugins
    /\ waiting' = [i \in DOMAIN plugins |-> EdgesOf(i)]
    /\ phase' = "fill" /\ at' = 1
    /\ UNCHANGED <<found, seen, graph, dep, queue, adjacent, order, manifests>>

Fill ==
    /\ phase = "fill" /\ at \in DOMAIN plugins
    /\ queue' = IF at \notin skipped /\ waiting[at] = {} THEN Append(queue, at) ELSE queue
    /\ at' = at + 1
    /\ UNCHANGED <<phase, found, seen, graph, dep, waiting, adjacent, order, manifests>>

StartSort ==
    /\ phase = "fill" /\ at \notin DOMAIN plugins
    /\ phase' = "sort"
    /\ UNCHANGED <<found, seen, graph, at, dep, sort, manifests>>

Pop ==
    /\ phase = "sort" /\ adjacent = {} /\ queue # <<>>
    /\ order' = Append(order, Head(queue))
    /\ adjacent' = EdgesTo(Head(queue))
    /\ queue' = Tail(queue)
    /\ UNCHANGED <<phase, found, seen, graph, at, dep, waiting, manifests>>

CountDown ==
    /\ phase = "sort"
    /\ \E e \in adjacent :
         LET v == edges[e].from
             left == waiting[v] \ {e}
         IN  /\ IsFirst(e, adjacent)
             /\ waiting' = [waiting EXCEPT ![v] = left]
             /\ queue' = IF left = {} THEN Append(queue, v) ELSE queue
             /\ adjacent' = adjacent \ {e}
    /\ UNCHANGED <<phase, found, seen, graph, at, dep, order, manifests>>

StartActivation ==
    /\ phase = "sort" /\ adjacent = {} /\ queue = <<>>
    /\ phase' = "activate" /\ at' = 1
    /\ UNCHANGED <<found, seen, graph, dep, sort, manifests>>

-----------------------------------------------------------------------------
(* activateInOrder and registerPlugin, with the guards of both. *)

Admitted(i) ==
    /\ i \notin skipped /\ plugins[i].status = "Ok"
    /\ \A m \in DOMAIN manifests : manifests[m].id # plugins[i].id

Activate ==
    /\ phase = "activate" /\ at \in DOMAIN order
    /\ manifests' = IF Admitted(order[at]) THEN Append(manifests, plugins[order[at]])
                                           ELSE manifests
    /\ at' = at + 1
    /\ UNCHANGED <<phase, found, seen, graph, dep, sort>>

Finish ==
    /\ phase = "activate" /\ at \notin DOMAIN order
    /\ phase' = "idle"
    /\ UNCHANGED <<found, seen, graph, at, dep, sort, manifests>>

Next == \/ Discover \/ Take \/ MarkFailed
        \/ Link \/ GiveUp \/ DoWithout \/ NextPlugin
        \/ CountEdges \/ Fill \/ StartSort \/ Pop \/ CountDown \/ StartActivation
        \/ Activate \/ Finish

Spec == Init /\ [][Next]_vars

-----------------------------------------------------------------------------
TypeOK ==
    /\ phase \in {"idle", "load", "graph", "fill", "sort", "activate"}
    /\ found \in Seq(Plugin) /\ seen \subseteq Ids
    /\ plugins \in Seq(Plugin) /\ edges \in Seq(Edge) /\ skipped \subseteq DOMAIN plugins
    /\ at \in Nat \ {0} /\ dep \in Nat \ {0}
    /\ waiting \in Seq(SUBSET Nat)
    /\ queue \in Seq(Nat) /\ adjacent \subseteq Nat /\ order \in Seq(Nat)
    /\ manifests \in Seq(Plugin)

Ordered(i) == \E k \in DOMAIN order : order[k] = i

(* Whatever a plugin in the order depends on stands before it, unless it is  *)
(* skipped: an adapter never starts ahead of the one it asks                 *)
(* (topologicalSort).                                                        *)
ProvidersComeFirst ==
    \A k \in DOMAIN order : \A e \in EdgesOf(order[k]) :
      \E p \in 1..(k - 1) : order[p] = edges[e].to

(* Only circles keep a plugin out: when the sort has ended, each that is     *)
(* neither skipped nor in the order waits for another of that kind.          *)
OnlyCirclesStay ==
    phase = "activate" =>
      \A i \in DOMAIN plugins :
        i \notin skipped /\ ~Ordered(i) =>
          \E e \in EdgesOf(i) : ~Ordered(edges[e].to)

(* The registry is the order: no guard of activateInOrder or registerPlugin  *)
(* ever turns a plugin of the order away, and none is registered twice.      *)
RegistryIsTheOrder ==
    phase = "activate" =>
      /\ Len(manifests) = at - 1
      /\ \A k \in DOMAIN manifests :
           /\ k \in DOMAIN order /\ manifests[k] = plugins[order[k]]
           /\ \A m \in DOMAIN manifests : manifests[m].id = manifests[k].id => m = k

Answers(i, d) ==
    \/ d.id # None /\ plugins[i].id = d.id
    \/ d.capability # None /\ d.capability \in plugins[i].capabilities

(* A plugin in the order has, for each dependency it requires, one that      *)
(* answers it and stands before it or was given up in its turn: an edge to a *)
(* plugin that is skipped later is left out, and the plugin loads all the    *)
(* same (buildDependencyGraph, topologicalSort).                             *)
RequiredIsThere ==
    \A k \in DOMAIN order : \A n \in DOMAIN plugins[order[k]].depends :
      LET d == plugins[order[k]].depends[n]
      IN  d.required =>
            \E i \in DOMAIN plugins :
              /\ Answers(i, d)
              /\ \/ plugins[i].status = "Unsatisfied"
                 \/ \E p \in 1..(k - 1) : order[p] = i
=============================================================================
