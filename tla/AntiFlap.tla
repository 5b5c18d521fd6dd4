--------------------------------- MODULE AntiFlap ---------------------------------
(***************************************************************************)
(* The brake on the moves between NORMAL and DEGRADED                      *)
(* (global_state_antiflap_allow and _commit), as the evaluation of the     *)
(* safety controller uses it.  The evaluation counts DEGRADED among the    *)
(* recoveries, so a move down to it waits like one up from it.             *)
(*                                                                         *)
(* A move is refused within the cooldown of the last one the evaluation    *)
(* made, whichever it was; after it every attempt is counted, the refused  *)
(* ones too, in a window that the first attempt past its end opens anew.   *)
(* Other code changes the mode without asking and without telling.         *)
(***************************************************************************)
EXTENDS Integers

CONSTANTS
    FlapCooldown,   \* cooldown_reentrada_s
    FlapWindow,     \* janela_flap_s
    MaxTransitions, \* max_transicoes_flap
    MaxPause,       \* longest time between two evaluations
    FlapAgeCap      \* ages are not told apart above this one

\* An import accepts MaxTransitions = 0 also, and then nothing is allowed.
ASSUME AntiFlapAssumption ==
    /\ FlapCooldown \in Nat /\ FlapWindow \in Nat /\ MaxPause \in Nat
    /\ MaxTransitions \in Nat \ {0}
    /\ FlapAgeCap \in Nat
    /\ FlapAgeCap > FlapCooldown + MaxPause
    /\ FlapAgeCap > FlapWindow + MaxPause

VARIABLES
    flapMode,      \* NORMAL, DEGRADED, or SAFE_OFF and EMERGENCY (PROTECTED)
    transitionAge, \* now - s_last_transition_ms, or NotYet for 0
    flapAge,       \* now - s_flap_window_start_ms, or NotYet for 0
    attempts,      \* s_transition_count_in_window, up to one too many
    granted,       \* history: ages of the last moves that were allowed, the latest
                   \* first; FlapWindow is longer ago
    waiting        \* history: for how long the move has been refused

flapVars == <<flapMode, transitionAge, flapAge, attempts, granted, waiting>>

NotYet == -1

FlapModes == {"NORMAL", "DEGRADED", "PROTECTED"}

FlapAges == 0 .. FlapAgeCap

\* As many moves as two windows allow.
LastMoves == 1 .. 2 * MaxTransitions

FlapTypeOK ==
    /\ flapMode \in FlapModes
    /\ transitionAge \in FlapAges \cup {NotYet}
    /\ flapAge \in FlapAges \cup {NotYet}
    /\ attempts \in 0 .. MaxTransitions + 1
    /\ granted \in [LastMoves -> 0 .. FlapWindow]
    /\ waiting \in FlapAges \cup {NotYet}

FlapInit ==
    /\ flapMode \in FlapModes
    /\ transitionAge = NotYet
    /\ flapAge = NotYet
    /\ attempts = 0
    /\ granted = [i \in LastMoves |-> FlapWindow]
    /\ waiting = NotYet

---------------------------------------------------------------------------------
(* One evaluation, `pause' after the last one.                              *)

Paused(age, pause) ==
    IF age = NotYet THEN NotYet
    ELSE IF age + pause > FlapAgeCap THEN FlapAgeCap ELSE age + pause

\* The moves the window of any instant still sees, and one more.
Remembered(pause) ==
    [i \in LastMoves |->
        IF granted[i] + pause < FlapWindow THEN granted[i] + pause ELSE FlapWindow]

WithThisMove(pause) ==
    [i \in LastMoves |-> IF i = 1 THEN 0 ELSE Remembered(pause)[i - 1]]

CoolingDown(pause) ==
    /\ transitionAge # NotYet
    /\ Paused(transitionAge, pause) < FlapCooldown

Opens(pause) == flapAge = NotYet \/ Paused(flapAge, pause) > FlapWindow

Counted(pause) ==
    IF Opens(pause) THEN 1
    ELSE IF attempts > MaxTransitions THEN attempts ELSE attempts + 1

FlapAgeAfterSliding(pause) == 0

FlapAgeAfter(pause) == IF Opens(pause) THEN 0 ELSE Paused(flapAge, pause)

Refuse(pause) ==
    /\ waiting' = IF waiting = NotYet THEN 0 ELSE Paused(waiting, pause)
    /\ granted' = Remembered(pause)
    /\ transitionAge' = Paused(transitionAge, pause)
    /\ UNCHANGED flapMode

GrantWithNewWindow(wanted, pause) ==
    /\ Counted(pause) <= MaxTransitions
    /\ flapMode' = wanted
    /\ granted' = WithThisMove(pause)
    /\ waiting' = NotYet
    /\ transitionAge' = 0
    /\ flapAge' = 0
    /\ attempts' = 0

Grant(wanted, pause) ==
    /\ Counted(pause) <= MaxTransitions
    /\ flapMode' = wanted
    /\ granted' = WithThisMove(pause)
    /\ waiting' = NotYet
    /\ transitionAge' = 0
    /\ flapAge' = FlapAgeAfter(pause)
    /\ attempts' = Counted(pause)

\* A move between NORMAL and DEGRADED.
AttemptMove(wanted, pause) ==
    /\ flapMode \in {"NORMAL", "DEGRADED"} \ {wanted}
    /\ wanted # "PROTECTED"
    /\ \/ /\ CoolingDown(pause)
          /\ Refuse(pause)
          /\ flapAge' = Paused(flapAge, pause)
          /\ UNCHANGED attempts
       \/ ~CoolingDown(pause) /\ Grant(wanted, pause)
       \/ /\ ~CoolingDown(pause)
          /\ Counted(pause) > MaxTransitions
          /\ Refuse(pause)
          /\ flapAge' = FlapAgeAfter(pause)
          /\ attempts' = Counted(pause)

\* No move, or one that asks nobody: into SAFE_OFF or EMERGENCY, and from the
\* first of them to the second.
EvaluateFreely(wanted, pause) ==
    /\ \/ /\ wanted \in {flapMode, "PROTECTED"}
          /\ transitionAge' \in (IF wanted = "PROTECTED" THEN {0} ELSE {})
                                \cup (IF wanted = flapMode THEN {Paused(transitionAge, pause)}
                                      ELSE {})
          /\ flapMode' = wanted
       \/ /\ flapMode = "PROTECTED" /\ wanted # "PROTECTED"
          /\ transitionAge' = Paused(transitionAge, pause)
          /\ UNCHANGED flapMode
    /\ flapAge' = Paused(flapAge, pause)
    /\ granted' = Remembered(pause)
    /\ waiting' = NotYet
    /\ UNCHANGED attempts

Evaluate(pause) ==
    \E wanted \in FlapModes :
        AttemptMove(wanted, pause) \/ EvaluateFreely(wanted, pause)

\* The end of a restart, a hung task, monitor mode: the mode alone.
OtherMove ==
    /\ flapMode' \in FlapModes \ {flapMode}
    /\ waiting' = NotYet
    /\ UNCHANGED <<transitionAge, flapAge, attempts, granted>>

FlapNext == (\E pause \in 0 .. MaxPause : Evaluate(pause)) \/ OtherMove

FlapSpec == FlapInit /\ [][FlapNext]_flapVars

---------------------------------------------------------------------------------
(***************************************************************************)
(* The window of the brake stands still, so an interval of its length may  *)
(* see more moves than the limit, but never twice as many, wherever it     *)
(* lies and however attempts and refusals fall into it.                    *)
(***************************************************************************)
FlapLimit == granted[2 * MaxTransitions] = FlapWindow

(***************************************************************************)
(* Refused attempts are counted and use up the window, but they do not     *)
(* move it: a move that goes on being wanted is not put off for longer     *)
(* than the cooldown or the window, whichever is longer.                   *)
(***************************************************************************)
Patience == waiting <= FlapCooldown \/ waiting <= FlapWindow
=================================================================================
