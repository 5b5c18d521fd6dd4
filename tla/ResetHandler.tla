------------------------------ MODULE ResetHandler ------------------------------
(***************************************************************************)
(* The factory reset (services/reset_handler.c) and those who call it: the *)
(* web server, the screen, and the safety task, which in each iteration    *)
(* ticks the machine and then reads the UP key (reset_handler_check of     *)
(* app_main.c).  While a reset is pending the safety task does little else. *)
(*                                                                         *)
(* Nothing locks the machine.  Every call reads the state (the tick then the *)
(* deadline also) and decides, stores a state, then a deadline; calls of   *)
(* other tasks may come between.                                           *)
(* The tick that finds the countdown over even writes to the SD card       *)
(* between deciding and storing.                                           *)
(*                                                                         *)
(* The deadline is kept as the time left; none is left of a deadline 0.    *)
(***************************************************************************)
EXTENDS Integers

CONSTANTS
    Window,    \* HW_RESTART_CONFIRM_WINDOW_S
    Countdown, \* HW_RESTART_COUNTDOWN_DEFAULT_S
    Hold       \* HW_RESET_HOLD_MS

ASSUME ResetAssumption ==
    /\ Window \in Nat \ {0}
    /\ Countdown \in Nat \ {0}
    /\ Hold \in Nat \ {0}

VARIABLES
    resetState, \* s_reset.state
    timeLeft,   \* s_reset.deadline_ms - now, not below 0
    resetCall,  \* where each task is in its call
    turn,       \* what the safety task calls next
    wasHeld,    \* s_was_up_held
    heldFor,    \* now - s_up_held_start_ms, told apart up to Hold
    agreed,     \* history: what the operator has said to this reset
    kept,       \* history: UP, held, began this reset and has not been let go
    counted,    \* history: time since the countdown began
    torn        \* history: calls have overlapped since the reset was begun

resetVars == <<resetState, timeLeft, resetCall, turn, wasHeld, heldFor,
               agreed, kept, counted, torn>>

Askers == {"web", "ui"}
Callers == Askers \cup {"safety"}

ResetStates == {"IDLE", "CONFIRM1", "CONFIRM2", "COUNTDOWN", "ERASING"}

Longest == IF Window > Countdown THEN Window ELSE Countdown

NoCall == [step |-> "none"]

\* About to enter a function, about to read the deadline for the state that the
\* tick has read, about to store what was decided.
Entering(op) == [step |-> "enter", op |-> op]
Ticking(state) == [step |-> "ticking", state |-> state]
Storing(step, state, due) == [step |-> step, state |-> state, due |-> due]

ResetCalls ==
    {NoCall}
    \cup {Entering(op) : op \in {"start", "confirm", "abort"}}
    \cup {Ticking(state) : state \in {"CONFIRM1", "COUNTDOWN"}}
    \cup {Storing(step, state, due) :
            step \in {"state", "deadline"}, state \in ResetStates, due \in 0 .. Longest}

ResetTypeOK ==
    /\ resetState \in ResetStates
    /\ timeLeft \in 0 .. Longest
    /\ resetCall \in [Callers -> ResetCalls]
    /\ turn \in {"tick", "check"}
    /\ wasHeld \in BOOLEAN
    /\ heldFor \in 0 .. Hold
    /\ agreed \in {"none", "started", "held", "confirmed"}
    /\ kept \in BOOLEAN
    /\ counted \in 0 .. Countdown
    /\ torn \in BOOLEAN

ResetInit ==
    /\ resetState = "IDLE"
    /\ timeLeft = 0
    /\ resetCall = [c \in Callers |-> NoCall]
    /\ turn = "tick"
    /\ wasHeld = FALSE
    /\ heldFor = Hold
    /\ agreed = "none"
    /\ kept = FALSE
    /\ counted = 0
    /\ torn = FALSE

---------------------------------------------------------------------------------
(* The stores that end a call, and what they say of the reset.             *)

\* No other task has read the machine and has yet to store what follows.
Alone(c) ==
    \A d \in Callers \ {c} : resetCall[d].step \notin {"ticking", "state", "deadline"}

\* The operator takes back what was agreed with an abort, time with the end of
\* the window; neither settles a call that another one overlaps.  The press that
\* began a reset is no word for it when it is read once more.
AgreedWith(c, state) ==
    CASE state = "IDLE" /\ Alone(c) -> "none"
      [] state = "CONFIRM1" /\ (Alone(c) \/ agreed = "none") -> "started"
      [] state = "CONFIRM2" /\ agreed # "none" ->
            IF c = "safety" /\ kept /\ agreed # "confirmed" THEN "held" ELSE "confirmed"
      [] OTHER -> agreed

StoreState(c) ==
    LET call == resetCall[c] IN
    /\ call.step = "state"
    /\ resetState' = call.state
    /\ resetCall' = [resetCall EXCEPT ![c] = IF call.state = "ERASING" THEN NoCall
                                             ELSE [call EXCEPT !.step = "deadline"]]
    /\ agreed' = AgreedWith(c, call.state)
    /\ kept' = IF call.state = "CONFIRM1" THEN c = "safety" ELSE kept
    /\ torn' = IF Alone(c) THEN torn /\ call.state # "CONFIRM1" ELSE TRUE
    /\ counted' = IF call.state = "COUNTDOWN" THEN 0 ELSE counted
    /\ UNCHANGED <<timeLeft, turn, wasHeld, heldFor>>

StoreDeadline(c) ==
    /\ resetCall[c].step = "deadline"
    /\ timeLeft' = resetCall[c].due
    /\ resetCall' = [resetCall EXCEPT ![c] = NoCall]
    /\ torn' = (torn \/ ~Alone(c))
    /\ UNCHANGED <<resetState, turn, wasHeld, heldFor, agreed, kept, counted>>

---------------------------------------------------------------------------------
(* Requests.                                                               *)

\* reset_handler_start reads the state; begun already, it is a confirmation.
StartCall ==
    CASE resetState = "IDLE" -> Storing("state", "CONFIRM1", Window)
      [] resetState = "CONFIRM1" -> Entering("confirm")
      [] OTHER -> NoCall

\* In whatever state the machine is.
ConfirmUnchecked == Storing("state", "CONFIRM2", Window)

ConfirmCall ==
    IF resetState = "CONFIRM1" THEN Storing("state", "CONFIRM2", Window) ELSE NoCall

AbortCall ==
    IF resetState # "IDLE" THEN Storing("state", "IDLE", 0) ELSE NoCall

Enter(c) ==
    /\ resetCall[c].step = "enter"
    /\ resetCall' =
         [resetCall EXCEPT ![c] = CASE @.op = "start" -> StartCall
                                    [] @.op = "confirm" -> ConfirmCall
                                    [] @.op = "abort" -> AbortCall]
    /\ UNCHANGED <<resetState, timeLeft, turn, wasHeld, heldFor, agreed, kept, counted, torn>>

Ask(c, op) ==
    /\ resetCall[c] = NoCall
    /\ resetCall' = [resetCall EXCEPT ![c] = Entering(op)]
    /\ UNCHANGED <<resetState, timeLeft, turn, wasHeld, heldFor, agreed, kept, counted, torn>>

\* "factory", "confirm" and "abort" of the web interface.
WebRequest ==
    \/ Ask("web", IF resetState = "CONFIRM1" THEN "confirm" ELSE "start")
    \/ Ask("web", "confirm")
    \/ Ask("web", "abort")

ScreenRequest ==
    \/ resetState = "CONFIRM1" /\ Ask("ui", "confirm")
    \/ resetState = "IDLE" /\ Ask("ui", "start")

---------------------------------------------------------------------------------
(* The safety task.                                                        *)

ResetTick ==
    /\ turn = "tick"
    /\ resetCall["safety"] = NoCall
    /\ turn' = "check"
    /\ resetCall' =
         [resetCall EXCEPT !["safety"] =
            CASE resetState \in {"CONFIRM1", "COUNTDOWN"} -> Ticking(resetState)
              [] resetState = "CONFIRM2" -> Storing("state", "COUNTDOWN", Countdown)
              [] OTHER -> NoCall]
    /\ resetState # "ERASING"
    /\ UNCHANGED <<resetState, timeLeft, wasHeld, heldFor, agreed, kept, counted, torn>>

\* The deadline is read after the state.
ReadDeadline ==
    /\ resetCall["safety"].step = "ticking"
    /\ resetCall' =
         [resetCall EXCEPT !["safety"] =
            IF timeLeft # 0 THEN NoCall
            ELSE Storing("state", IF @.state = "CONFIRM1" THEN "IDLE" ELSE "ERASING", 0)]
    /\ UNCHANGED <<resetState, timeLeft, turn, wasHeld, heldFor, agreed, kept, counted, torn>>

\* Everything is off, the settings are gone, and the unit starts anew.
Erase ==
    /\ turn = "tick"
    /\ resetCall["safety"] = NoCall
    /\ resetState = "ERASING"
    /\ resetState' = "IDLE" /\ timeLeft' = 0
    /\ resetCall' = [c \in Callers |-> NoCall]
    /\ turn' = "tick"
    /\ wasHeld' = FALSE /\ heldFor' = Hold
    /\ agreed' = "none" /\ kept' = FALSE /\ counted' = 0 /\ torn' = FALSE

\* What reset_handler_check makes of the UP key: the call it leads to, or none,
\* whether the key counts as held from now on, and since when.
KeyHeld(call, held, since) ==
    /\ resetCall' = [resetCall EXCEPT !["safety"] = call]
    /\ wasHeld' = held
    /\ heldFor' = since

CheckKey ==
    /\ turn = "check"
    /\ resetCall["safety"] = NoCall
    /\ turn' = "tick"
    /\ \E upPressed \in BOOLEAN :
         /\ CASE resetState = "CONFIRM1" ->
                   KeyHeld(IF upPressed /\ ~wasHeld THEN Entering("confirm") ELSE NoCall,
                           upPressed, heldFor)
              [] resetState = "IDLE" /\ upPressed ->
                   IF ~wasHeld THEN KeyHeld(NoCall, TRUE, 0)
                   ELSE IF heldFor = Hold THEN KeyHeld(Entering("start"), FALSE, Hold)
                   ELSE KeyHeld(NoCall, TRUE, heldFor)
              [] OTHER ->
                   KeyHeld(NoCall, upPressed /\ wasHeld, IF upPressed THEN heldFor ELSE Hold)
         /\ kept' = (kept /\ upPressed)
    /\ UNCHANGED <<resetState, timeLeft, agreed, counted, torn>>

---------------------------------------------------------------------------------

Lessened(n) == IF n > 0 THEN n - 1 ELSE 0
Increased(n, cap) == IF n < cap THEN n + 1 ELSE cap

\* Time passes between two iterations; the deadlines that calls are about to
\* store have been reckoned before.
ResetTimePasses ==
    /\ turn = "tick"
    /\ resetCall["safety"] = NoCall
    /\ timeLeft' = Lessened(timeLeft)
    /\ resetCall' = [c \in Callers |->
                       IF resetCall[c].step \in {"state", "deadline"}
                       THEN [resetCall[c] EXCEPT !.due = Lessened(@)] ELSE resetCall[c]]
    /\ heldFor' = Increased(heldFor, Hold)
    /\ counted' = Increased(counted, Countdown)
    /\ UNCHANGED <<resetState, turn, wasHeld, agreed, kept, torn>>

ResetNext ==
    \/ \E c \in Callers : Enter(c) \/ StoreState(c) \/ StoreDeadline(c)
    \/ WebRequest \/ ScreenRequest
    \/ ResetTick \/ ReadDeadline \/ Erase \/ CheckKey
    \/ ResetTimePasses

ResetSpec == ResetInit /\ [][ResetNext]_resetVars

---------------------------------------------------------------------------------
(***************************************************************************)
(* The settings are erased only when, since the last abort or timeout that *)
(* no other call overlapped, a reset was started and confirmed; and unless *)
(* calls overlapped since it was started, the countdown in which it can be *)
(* aborted has had its whole length.  (An overlapped abort can be answered *)
(* with success and be overwritten.)                                       *)
(*                                                                         *)
(* One case is excused: a reset that the UP key begins is confirmed by the *)
(* next reading of the same press, as reset_handler_check forgets that the *)
(* key is held, although the screen then asks for it to be let go and      *)
(* pressed again.  `held' stands for that, and for nothing else.           *)
(***************************************************************************)
ErasesOnlyAgreed ==
    resetState = "ERASING" =>
        /\ agreed \in {"held", "confirmed"}
        /\ torn \/ counted >= Countdown
=================================================================================
