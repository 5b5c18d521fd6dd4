------------------------------- MODULE MCLoop -------------------------------
(***************************************************************************)
(* The safety loop with the parts that must make progress for it: restart  *)
(* sequence, breaker and acknowledgement.  They are checked side by side:  *)
(* the first step of a behaviour is in one of them, and only that one      *)
(* moves.                                                                  *)
(***************************************************************************)
EXTENDS SafetyCore, RestartFsm, CircuitBreaker, AlertAck

VARIABLE focus \* the part that moves

MCRequests == AllRequests

MCOrder == <<4, 1, 2, 5, 6, 3, 7, 8, 9, 10>>

MCSequenceRequests == AllSequenceRequests

\* Which alarms meet: the thermal ones, those of a task that hangs, a load that
\* fails or two critical plugs with a SAFE_OFF, and the escalation.
MCPlants == {
    {"ALM-015", "ALM-026", "ALM-028"},
    {"ALM-043", "ALM-060"},
    {"ALM-026", "ALM-056"},
    {"ALM-026", "ALM-065"},
    {"ALM-026", "ALM-046"}}

MCInit ==
    /\ focus \in {"core", "sequence", "breaker", "ack"}
    /\ CoreInit /\ SequenceInit /\ BreakerInit /\ AckInit
    /\ focus # "core" => mode = "NORMAL" /\ tick = 0
    /\ focus # "sequence" => sequenceMode = "NORMAL"
    /\ focus # "ack" => plant = {"ALM-043", "ALM-060"}

CoreMoves ==
    /\ focus = "core"
    /\ CoreNext
    /\ UNCHANGED <<sequenceVars, breakerVars, ackVars, focus>>

SequenceMoves ==
    /\ focus = "sequence"
    /\ SequenceNext
    /\ UNCHANGED <<coreVars, breakerVars, ackVars, focus>>

BreakerMoves ==
    /\ focus = "breaker"
    /\ BreakerNext
    /\ UNCHANGED <<coreVars, sequenceVars, ackVars, focus>>

AckMoves ==
    /\ focus = "ack"
    /\ AckNext
    /\ UNCHANGED <<coreVars, sequenceVars, breakerVars, focus>>

MCNext == CoreMoves \/ SequenceMoves \/ BreakerMoves \/ AckMoves

\* The fairness of each part, in the behaviours that are its own.
MCFairness ==
    /\ WF_sequenceVars(focus = "sequence" /\ SequenceTask)
    /\ WF_breakerVars(focus = "breaker" /\ SafetyReads)
    /\ WF_breakerVars(focus = "breaker" /\ SensorsTask)
    /\ WF_ackVars(focus = "ack" /\ UNCHANGED plant /\ RaiseCause)
    /\ WF_ackVars(focus = "ack" /\ UNCHANGED plant /\ Handler)
    /\ SF_ackVars(focus = "ack" /\ UNCHANGED plant /\ AckSource)

MCSpec ==
    /\ MCInit
    /\ [][MCNext]_<<coreVars, sequenceVars, breakerVars, ackVars, focus>>
    /\ MCFairness

\* What the parts keep of their types.
LoopTypeOK ==
    /\ focus = "core" => CoreTypeOK
    /\ focus = "sequence" => SequenceTypeOK
    /\ focus = "breaker" => BreakerTypeOK
    /\ focus = "ack" => AckTypeOK
=============================================================================
