---------------------------- MODULE SemaphoreMC ----------------------------
(***************************************************************************)
(* Instances of Semaphore for TLC: an urgent thread hi, two threads a and  *)
(* b of equal priority and idle.                                           *)
(***************************************************************************)
EXTENDS Semaphore

CONSTANTS idle, hi, a, b

MCThread == {idle, hi, a, b}
MCUser == {hi, a, b}
MCPrio == {3, 20, 255}
MCInitPrio == [t \in MCThread |-> CASE t = idle -> 255 [] t = hi -> 3 [] OTHER -> 20]
MCBoot == [p \in MCPrio |-> CASE p = 255 -> <<idle>> [] p = 3 -> <<hi>> [] OTHER -> <<a, b>>]
MCWait == {"sem"}
=============================================================================
