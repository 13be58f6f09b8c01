------------------------------- MODULE PluginHost -------------------------------
(***************************************************************************)
(* PluginHost (packages/core/src/plugins.ts): plugins are put in the order *)
(* of their dependencies, set up, started, and stopped in the reverse      *)
(* order, after a failure as well as at the end.  What a plugin itself     *)
(* does is that of packages/plugin-mcp/src/index.ts: set-up connects to a  *)
(* server, lists its tools and registers the allowed ones; stop aborts     *)
(* what is under way, ends the session and closes the client.  Any of its  *)
(* steps may fail.                                                         *)
(*                                                                         *)
(* An action goes from one point where the host or a plugin waits to the   *)
(* next.  Daemon says who opens and closes the host, and who uses it.      *)
(***************************************************************************)
EXTENDS Integers, Sequences, FiniteSets, SequencesExt

CONSTANTS
  Plugins,    \* plugin ids, as numbers: compareStrings is their order
  Ids,        \* ids a manifest may name, those of absent plugins included
  Manifests,  \* the dependencies each plugin may declare
  Checked,    \* plugins that have a health check
  Servers,    \* what the server of a plugin may list: sequences of tools
  Allowed,    \* the raw names on the allowlist
  Local,      \* the canonical name of a raw name
  Namespaces, \* the namespaces the plugins may name their tools in
  MaxTools,   \* maximumTools
  MaxSchema   \* maximumSchemaBytes

ASSUME PluginAssumption ==
  /\ Plugins \subseteq Ids /\ Ids \subseteq Nat /\ IsFiniteSet(Plugins)
  /\ Manifests \subseteq [Plugins -> SUBSET Ids]
  /\ Namespaces \subseteq [Plugins -> Ids]
  /\ Checked \subseteq Plugins
  /\ IsFiniteSet(Allowed)
  /\ MaxTools \in Nat \ {0} /\ MaxSchema \in Nat

VARIABLES
  deps,      \* the dependencies in the manifests
  namespace, \* the namespace a plugin uses: its own, or one that another's id begins with
  order,     \* the plugins in the order of their set-up
  host,      \* where initialize or close is, and the position in the order
  entry,     \* the state of a plugin's entry, "none" before it has one
  doing,     \* what the plugin's own code is waiting for
  conn,      \* plugins with an open session
  lifecycle, \* plugins whose lifecycle signal is aborted
  stops,     \* history: how often stop was called
  errors,    \* plugins whose stop has failed
  tools      \* registered tools, each with its owner

hostVars == <<deps, namespace, order, host, entry, doing, conn, lifecycle, stops, errors, tools>>

Positions == {"refused", "setup", "start", "rollback", "thrown", "open", "closing", "closed"}
Waits == {"nothing", "connecting", "listing", "starting", "terminating", "closing"}

-----------------------------------------------------------------------------
\* sort(compareStrings)
Sorted(ids) ==
  CHOOSE s \in [1 .. Cardinality(ids) -> ids] : \A i, j \in DOMAIN s : i < j => s[i] < s[j]

\* orderPlugins: layer by layer, those that wait for nobody left, by their ids.
OrderOf(d) ==
  LET layers[left \in SUBSET Plugins] ==
        LET free == {p \in left : d[p] \cap left = {}}
        IN IF free = {} THEN <<>> ELSE Sorted(free) \o layers[left \ free]
  IN layers[Plugins]

\* A plugin that names itself, an absent one, or a cycle.
Unorderable(d) ==
  \/ \E p \in Plugins : p \in d[p] \/ ~(d[p] \subseteq Plugins)
  \/ Len(OrderOf(d)) < Cardinality(Plugins)

HostInit ==
  /\ deps \in Manifests /\ namespace \in Namespaces
  /\ order = IF Unorderable(deps) THEN <<>> ELSE OrderOf(deps)
  /\ host = [at |-> IF Unorderable(deps) THEN "refused"
                     ELSE IF Plugins = {} THEN "open" ELSE "setup", next |-> 1]
  /\ entry = [p \in Plugins |-> "none"]
  /\ doing = [p \in Plugins |-> "nothing"]
  /\ conn = {} /\ lifecycle = {} /\ errors = {} /\ tools = {}
  /\ stops = [p \in Plugins |-> 0]

HostGoto(at, next) == host' = [at |-> at, next |-> next]
Waiting(p, for) == doing' = [doing EXCEPT ![p] = for]
Settled == \A p \in Plugins : doing[p] = "nothing"

\* (mutant: a plugin gets its entry only when its set-up is complete)
CompleteEntries == {p \in Plugins : entry[p] # "none" /\ (host.at = "setup" => order[host.next] # p)}

\* stopEntries, with all entries there are: the failing one is among them.
Entries == {p \in Plugins : entry[p] # "none"}
GiveUp == HostGoto("rollback", Cardinality(Entries))

-----------------------------------------------------------------------------
(* Set-up and start.                                                       *)

BeginSetup(p) ==
  /\ host.at = "setup" /\ Settled /\ order[host.next] = p
  /\ entry' = [entry EXCEPT ![p] = "stopped"]
  /\ Waiting(p, "connecting")
  /\ UNCHANGED <<deps, namespace, order, host, conn, lifecycle, stops, errors, tools>>

Connected(p) ==
  /\ doing[p] = "connecting"
  /\ conn' = conn \cup {p}
  /\ Waiting(p, "listing")
  /\ UNCHANGED <<deps, namespace, order, host, entry, lifecycle, stops, errors, tools>>

\* selectTools, over what the server lists; requireReadOnly is set, as by default.
Selectable(listed) ==
  LET named(n) == {i \in DOMAIN listed : listed[i].name = n}
      schema == [n \in Allowed |-> IF named(n) = {} THEN 0
                                   ELSE listed[CHOOSE i \in named(n) : TRUE].bytes]
  IN /\ Len(listed) <= MaxTools
     /\ \A i, j \in DOMAIN listed : listed[i].name = listed[j].name => i = j
     /\ \A n \in Allowed : \E i \in named(n) : listed[i].readOnly
     /\ FoldFunction(+, 0, schema) <= MaxSchema
     /\ \A n, m \in Allowed : Local[n] = Local[m] => n = m

Registrations(p) == {[owner |-> p, name |-> <<namespace[p], Local[n]>>] : n \in Allowed}

\* (mutant: names are looked for among those of this set-up only)
NoConflict(p) == FALSE

\* A name that another plugin has: one id can be the beginning of another.
Conflicts(p) == \E t \in Registrations(p), u \in tools : t.name = u.name

AfterSetup == IF host.next < Len(order) THEN HostGoto("setup", host.next + 1)
                                        ELSE HostGoto("start", 1)

\* The rest of set-up, and what the host does with the staged registrations.
Listed(p, listed) ==
  /\ doing[p] = "listing"
  /\ Waiting(p, "nothing")
  /\ \/ /\ Selectable(listed) /\ ~Conflicts(p)
        /\ tools' = tools \cup Registrations(p)
        /\ AfterSetup
     \/ /\ ~Selectable(listed) \/ Conflicts(p)
        /\ GiveUp
        /\ UNCHANGED tools
  /\ UNCHANGED <<deps, namespace, order, entry, conn, lifecycle, stops, errors>>

\* Connecting or listing is refused, or its time is over.
SetupFails(p) ==
  /\ doing[p] \in {"connecting", "listing"}
  /\ Waiting(p, "nothing")
  /\ GiveUp
  /\ UNCHANGED <<deps, namespace, order, entry, conn, lifecycle, stops, errors, tools>>

BeginStart(p) ==
  /\ host.at = "start" /\ Settled /\ order[host.next] = p
  /\ Waiting(p, "starting")
  /\ UNCHANGED <<deps, namespace, order, host, entry, conn, lifecycle, stops, errors, tools>>

Started(p) ==
  /\ doing[p] = "starting"
  /\ Waiting(p, "nothing")
  /\ entry' = [entry EXCEPT ![p] = "ready"]
  /\ IF host.next < Len(order) THEN HostGoto("start", host.next + 1)
                               ELSE HostGoto("open", host.next)
  /\ UNCHANGED <<deps, namespace, order, conn, lifecycle, stops, errors, tools>>

StartFails(p) ==
  /\ doing[p] = "starting"
  /\ Waiting(p, "nothing")
  /\ GiveUp
  /\ UNCHANGED <<deps, namespace, order, entry, conn, lifecycle, stops, errors, tools>>

-----------------------------------------------------------------------------
(* stopEntries, of a host that is given up or closed.                      *)

Stopping == host.at \in {"rollback", "closing"}

\* (mutant: entries are stopped in the order of their set-up)
FirstPosition == Cardinality(Entries) - host.next + 1

StopPosition == host.next

BeginStop(p) ==
  /\ Stopping /\ host.next > 0 /\ Settled /\ order[StopPosition] = p
  /\ entry' = [entry EXCEPT ![p] = "stopped"]
  /\ lifecycle' = lifecycle \cup {p}
  /\ stops' = [stops EXCEPT ![p] = @ + 1]
  /\ Waiting(p, "terminating")
  /\ UNCHANGED <<deps, namespace, order, host, conn, errors, tools>>

\* client.close: an error of terminateSession is kept and the client closed all the same.
Terminated(p, fails) ==
  /\ doing[p] = "terminating"
  /\ Waiting(p, "closing")
  /\ errors' = IF fails THEN errors \cup {p} ELSE errors
  /\ UNCHANGED <<deps, namespace, order, host, entry, conn, lifecycle, stops, tools>>

Stopped(p, fails) ==
  /\ doing[p] = "closing"
  /\ Waiting(p, "nothing")
  /\ errors' = IF fails THEN errors \cup {p} ELSE errors
  /\ conn' = IF fails THEN conn ELSE conn \ {p}
  /\ HostGoto(host.at, host.next - 1)
  /\ UNCHANGED <<deps, namespace, order, entry, lifecycle, stops, tools>>

EndStops ==
  /\ Stopping /\ host.next = 0 /\ Settled
  /\ HostGoto(IF host.at = "rollback" THEN "thrown" ELSE "closed", 0)
  /\ UNCHANGED <<deps, namespace, order, entry, doing, conn, lifecycle, stops, errors, tools>>

\* close, the first time; later calls wait for the same promise.
BeginClose ==
  /\ host.at = "open"
  /\ HostGoto("closing", Len(order))
  /\ UNCHANGED <<deps, namespace, order, entry, doing, conn, lifecycle, stops, errors, tools>>

HostStep ==
  \/ \E p \in Plugins : BeginSetup(p) \/ BeginStart(p) \/ BeginStop(p)
  \/ EndStops

PluginStep(p) ==
  \/ Connected(p) \/ SetupFails(p)
  \/ \E listed \in Servers : Listed(p, listed)
  \/ Started(p) \/ StartFails(p)
  \/ \E fails \in BOOLEAN : Terminated(p, fails) \/ Stopped(p, fails)

-----------------------------------------------------------------------------
HostTypeOK ==
  /\ deps \in Manifests /\ namespace \in Namespaces
  /\ order \in Seq(Plugins)
  /\ host \in [at : Positions, next : 0 .. Cardinality(Plugins) + 1]
  /\ entry \in [Plugins -> {"none", "stopped", "ready"}]
  /\ doing \in [Plugins -> Waits]
  /\ conn \subseteq Plugins /\ lifecycle \subseteq Plugins /\ errors \subseteq Plugins
  /\ stops \in [Plugins -> Nat]
  /\ tools \subseteq [owner : Plugins, name : UNION {{t.name : t \in Registrations(p)} : p \in Plugins}]

\* Whether a plugin may rely on its dependencies, and whether they are there for it.
Relies(p) == entry[p] = "ready" \/ doing[p] # "nothing"
Serves(p) == entry[p] # "none" /\ stops[p] = 0 /\ doing[p] = "nothing"

\* From its set-up to the end of its stop, every plugin a plugin depends on has been set
\* up and is not being stopped, and while it is starting or ready they are ready: set-up
\* and start follow the order of the dependencies, and cleanup its reverse, also when
\* it is a failure in the middle that is cleaned up (plugins.ts:135-141, 250-258).
DependenciesServe ==
  \A p \in Plugins : \A d \in deps[p] :
    /\ Relies(p) => Serves(d)
    /\ entry[p] = "ready" \/ doing[p] = "starting" => entry[d] = "ready"

\* A tool name has one owner, and no plugin is stopped twice.
HostInv ==
  /\ HostTypeOK
  /\ \A t, u \in tools : t.name = u.name => t.owner = u.owner
  /\ \A p \in Plugins : stops[p] <= 1
=============================================================================
