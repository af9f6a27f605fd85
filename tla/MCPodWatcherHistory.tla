------------------------ MODULE MCPodWatcherHistory ------------------------
(***************************************************************************)
(* An instance of PodWatcherHistory, with the constants of MCPodWatcher.   *)
(***************************************************************************)
EXTENDS MCPodWatcher, PodWatcherHistory
=============================================================================
