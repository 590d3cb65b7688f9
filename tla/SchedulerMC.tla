---------------------------- MODULE SchedulerMC ----------------------------
(***************************************************************************)
(* Instances of Scheduler for TLC: four threads, priorities on both sides  *)
(* of a row boundary of the bitmap (7 and 8) and in the last row (255).    *)
(***************************************************************************)
EXTENDS Scheduler

CONSTANTS idle, main, a, b

MCThread == {idle, main, a, b}
MCPrio == {7, 8, 255}
MCWait == {"defunct"}

MCInitPrio == [t \in MCThread |-> CASE t = idle -> 255 [] t = main -> 8 [] OTHER -> 7]

\* main and idle run when the scheduler starts; main starts the others
MCBoot == [p \in MCPrio |-> CASE p = 255 -> <<idle>> [] p = 8 -> <<main>> [] OTHER -> <<>>]

NoCalls ==
  [starts |-> {}, resumes |-> {}, deletes |-> {}, reprios |-> {}, isrResumes |-> {},
   sleeps |-> {}, suspends |-> {}, exits |-> {}, locks |-> {}]

\* main starts, resumes, reprioritises and deletes b; a sleeps and ends
LifeCalls ==
  [NoCalls EXCEPT !.starts = {<<main, a>>, <<main, b>>}, !.resumes = {<<main, b>>},
                  !.deletes = {<<main, b>>}, !.reprios = {<<main, b>>, <<a, a>>},
                  !.sleeps = {main, a}, !.suspends = {b}, !.exits = {a}, !.locks = {main}]

\* Three threads share priority 7: a waits for an interrupt, b locks the
\* scheduler, main sleeps and ends
ShareInitPrio == [t \in MCThread |-> IF t = idle THEN 255 ELSE 7]
ShareBoot == [p \in MCPrio |-> CASE p = 255 -> <<idle>> [] p = 7 -> <<main, a, b>> [] OTHER -> <<>>]
ShareCalls ==
  [NoCalls EXCEPT !.isrResumes = {a}, !.suspends = {a}, !.sleeps = {main, b},
                  !.exits = {main, b}, !.locks = {b}]

\* a resumes the sleeping timer thread b, as rt_timer_start does
WakeSleeperCalls ==
  [NoCalls EXCEPT !.resumes = {<<a, b>>}, !.sleeps = {b}]
=============================================================================
