---------------------------- MODULE MCInboundBus ----------------------------
(***************************************************************************)
(* InboundBus on a small instance.                                         *)
(***************************************************************************)
EXTENDS InboundBus, TLC

CONSTANTS m1, m2, w1

\* One body with two events.
MCBatch == w1 :> <<m1, m2>>
MCDeadLetters == <<m2>>

\* Nothing fails; work fails; workers die or are slow; everything.
MCFaultSets == {{}, {"work_error"}, {"work_error", "slow_work", "crash"}, AllFaults}

=============================================================================
