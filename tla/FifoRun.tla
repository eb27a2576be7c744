------------------------------- MODULE FifoRun -------------------------------
(***************************************************************************)
(* What a queue with one worker promises: the jobs it accepted run once    *)
(* each, in the order of their acceptance, all of them before the queue is *)
(* over, and nothing is accepted after that.  WorkQueue keeps it for all   *)
(* its jobs, DatabaseWorker for the critical ones and for the others.      *)
(***************************************************************************)
EXTENDS Naturals, Sequences

CONSTANT Jobs

VARIABLES accepted, ran, over

fifoVars == <<accepted, ran, over>>

FifoInit == accepted = <<>> /\ ran = <<>> /\ over = FALSE

Accept(j) ==
  /\ ~over
  /\ accepted' = Append(accepted, j)
  /\ UNCHANGED <<ran, over>>

RunNext ==
  /\ Len(ran) < Len(accepted)
  /\ ran' = Append(ran, accepted[Len(ran) + 1])
  /\ UNCHANGED <<accepted, over>>

End == ran = accepted /\ over' = TRUE /\ UNCHANGED <<accepted, ran>>

FifoNext == (\E j \in Jobs : Accept(j)) \/ RunNext \/ End

FifoSafety == FifoInit /\ [][FifoNext]_fifoVars
FifoSpec == FifoSafety /\ WF_fifoVars(RunNext)
=============================================================================
