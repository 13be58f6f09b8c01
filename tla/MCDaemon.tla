-------------------------------- MODULE MCDaemon --------------------------------
(* Daemon with two plugins, one of which may need the other, or an absent one. *)
EXTENDS Daemon

Tool(name, readOnly) == [name |-> name, readOnly |-> readOnly, bytes |-> 1]

MCManifests == [Plugins -> SUBSET Ids]
MCServers ==
  {<<Tool("get", TRUE)>>, <<Tool("get", TRUE), Tool("put", FALSE)>>,
   <<>>, <<Tool("get", FALSE)>>, <<Tool("get", TRUE), Tool("get", TRUE)>>}
MCLocal == [n \in {"get"} |-> "get"]
MCNamespaces == {[p \in Plugins |-> p], [p \in Plugins |-> 1]}
=============================================================================
