-------------------------- MODULE MCSocketSessions --------------------------
(* An instance of SocketSessions: two replicas, two sockets, two sessions. *)
EXTENDS SocketSessions
CONSTANTS a, b
MCReplicas == {a, b}
=============================================================================
