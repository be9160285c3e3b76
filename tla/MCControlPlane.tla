--------------------------- MODULE MCControlPlane ---------------------------
(* Two administrators; two threads of one server, or a thread and an admin *)
(* command, which is a process of its own.                                 *)
EXTENDS ControlPlane

CONSTANTS thread1, thread2, shell

MCProcOf == [w \in {thread1, thread2, shell} |-> IF w = shell THEN "command" ELSE "server"]

MCCasts == {[workers |-> {thread1, thread2}, changes |-> 2],
            [workers |-> {thread1, shell}, changes |-> 3]}
=============================================================================
