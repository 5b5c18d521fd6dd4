------------------------------ MODULE MCControllers ------------------------------
(***************************************************************************)
(* The controllers and the relay route, which have no state in common in   *)
(* the model, checked side by side: the first step of a behaviour is in    *)
(* one of them, and only that one moves.                                   *)
(***************************************************************************)
EXTENDS RelayGate, AtoFsm, ElectricFsm, FeedMode, PlugManager, ConfigStore, AntiFlap,
        HeartbeatGuard, ResetHandler, TLC

VARIABLE focus \* the part that moves

MCAtoConfigs ==
    {[enabled |-> TRUE, low |-> 2, overflow |-> 3, timeout |-> 4],
     [enabled |-> TRUE, low |-> 3, overflow |-> 3, timeout |-> 5],
     [enabled |-> FALSE, low |-> 2, overflow |-> 3, timeout |-> 4]}

MCLimit ==
    [c \in Lasting |->
        CASE c = "SHORT" -> 1 [] c = "TOTAL_CURRENT" -> 3 [] OTHER -> 2]

MCThreshold == [t \in GuardTasks |-> IF t \in CriticalTasks THEN 2 ELSE 1]

MCFeedParams == {[duration |-> 1, cooldown |-> 1], [duration |-> 2, cooldown |-> 0]}

\* What a setting is does not matter, only which of them.
MCSymmetry == Permutations(Values)

Controllers == {"relay", "ato", "electric", "feed", "plug", "config", "flap", "guard", "reset"}

MCInit ==
    /\ focus \in Controllers
    /\ RelayInit /\ AtoInit /\ ElectricInit /\ FeedInit /\ PlugInit /\ ConfigInit
    /\ FlapInit /\ GuardInit /\ ResetInit
    /\ focus # "relay" => expander
    /\ focus # "ato" => atoConfig = CHOOSE c \in AtoConfigs : TRUE
    /\ focus # "feed" => /\ feedParams = CHOOSE p \in FeedParams : TRUE
                         /\ feedMode = "NORMAL"
    /\ focus # "plug" => /\ plugType = CHOOSE t \in PlugTypes : TRUE
                         /\ ~monitorOnly
    /\ focus # "flap" => flapMode = "NORMAL"

RelayMoves ==
    /\ focus = "relay"
    /\ RelayNext
    /\ UNCHANGED <<atoVars, electricVars, feedVars, plugVars, configVars,
                   flapVars, guardVars, resetVars, focus>>

AtoMoves ==
    /\ focus = "ato"
    /\ AtoNext
    /\ UNCHANGED <<relayVars, electricVars, feedVars, plugVars, configVars,
                   flapVars, guardVars, resetVars, focus>>

ElectricMoves ==
    /\ focus = "electric"
    /\ ElectricNext
    /\ UNCHANGED <<relayVars, atoVars, feedVars, plugVars, configVars,
                   flapVars, guardVars, resetVars, focus>>

FeedMoves ==
    /\ focus = "feed"
    /\ FeedNext
    /\ UNCHANGED <<relayVars, atoVars, electricVars, plugVars, configVars,
                   flapVars, guardVars, resetVars, focus>>

PlugMoves ==
    /\ focus = "plug"
    /\ PlugNext
    /\ UNCHANGED <<relayVars, atoVars, electricVars, feedVars, configVars,
                   flapVars, guardVars, resetVars, focus>>

ConfigMoves ==
    /\ focus = "config"
    /\ ConfigNext
    /\ UNCHANGED <<relayVars, atoVars, electricVars, feedVars, plugVars,
                   flapVars, guardVars, resetVars, focus>>

FlapMoves ==
    /\ focus = "flap"
    /\ FlapNext
    /\ UNCHANGED <<relayVars, atoVars, electricVars, feedVars, plugVars,
                   configVars, guardVars, resetVars, focus>>

GuardMoves ==
    /\ focus = "guard"
    /\ GuardNext
    /\ UNCHANGED <<relayVars, atoVars, electricVars, feedVars, plugVars,
                   configVars, flapVars, resetVars, focus>>

ResetMoves ==
    /\ focus = "reset"
    /\ ResetNext
    /\ UNCHANGED <<relayVars, atoVars, electricVars, feedVars, plugVars,
                   configVars, flapVars, guardVars, focus>>

MCNext ==
    \/ RelayMoves
    \/ AtoMoves
    \/ ElectricMoves
    \/ FeedMoves
    \/ PlugMoves
    \/ ConfigMoves
    \/ FlapMoves
    \/ GuardMoves
    \/ ResetMoves

MCSpec ==
    MCInit /\ [][MCNext]_<<relayVars, atoVars, electricVars, feedVars, plugVars,
                          configVars, flapVars, guardVars, resetVars, focus>>

\* What the parts keep of their types.
ControllersTypeOK ==
    /\ focus = "relay" => RelayTypeOK
    /\ focus = "ato" => AtoTypeOK
    /\ focus = "electric" => ElectricTypeOK
    /\ focus = "feed" => FeedTypeOK
    /\ focus = "plug" => PlugTypeOK
    /\ focus = "config" => ConfigTypeOK
    /\ focus = "flap" => FlapTypeOK
    /\ focus = "guard" => GuardTypeOK
    /\ focus = "reset" => ResetTypeOK
=================================================================================
