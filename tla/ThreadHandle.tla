---------------------------- MODULE ThreadHandle ----------------------------
(***************************************************************************)
(* What the owner of the client thread has to respect: a thread is started *)
(* only when there is none, it returns by itself, and it is joined, once,  *)
(* before another one is started.  Assigning over a std::thread nobody     *)
(* joined, or two threads in one client, breaks this.                      *)
(***************************************************************************)
VARIABLE body

HandleInit == body = "none"

StartThread == body = "none" /\ body' = "running"

ReturnThread == body = "running" /\ body' = "returned"

JoinThread == body = "returned" /\ body' = "none"

HandleNext == StartThread \/ ReturnThread \/ JoinThread

HandleSpec == HandleInit /\ [][HandleNext]_body
=============================================================================
