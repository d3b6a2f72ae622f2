------------------------ MODULE MCSystemStateMachine ------------------------
(* Instance of SystemStateMachine for TLC.                                   *)
EXTENDS SystemStateMachine

CallbackThreads == Component \cup {"main"}

SomeCrash == {"channelSupervisor", "watchdog"}

=============================================================================
