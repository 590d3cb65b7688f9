------------------------------ MODULE MutexMC ------------------------------
(***************************************************************************)
(* Instances of Mutex for TLC: three users of different priorities, a      *)
(* thread busy of middle priority that never blocks, and idle.             *)
(***************************************************************************)
EXTENDS Mutex

CONSTANTS idle, hi, mid, lo, m1, m2, null

MCThread == {idle, hi, mid, lo}
MCUser == {hi, mid, lo}
PairThread == {idle, hi, lo}
OneMutex == {m1}
TwoMutexes == {m1, m2}
MCPrio == {3, 10, 20, 255}
MCInitPrio == [t \in Thread |-> CASE t = idle -> 255 [] t = hi -> 3
                                    [] t = mid -> 10 [] OTHER -> 20]
MCBoot == [p \in MCPrio |-> CASE p = 255 -> <<idle>> [] p = 3 -> <<hi>>
                              [] p = 20 -> <<lo>>
                              [] OTHER -> IF mid \in Thread THEN <<mid>> ELSE <<>>]
AllPrio == [m \in Mutexes |-> "PRIO"]
=============================================================================
