--------------------------- MODULE RelayGateProofs ---------------------------
(***************************************************************************)
(* RelayGate for any set of relays, tasks and failed writes, with calls    *)
(* that overlap: typing, and what the interlock of heater and cooler, the  *)
(* table and the driver's word are worth until two calls cross and again   *)
(* after an all_off that ran by itself.                                    *)
(***************************************************************************)
EXTENDS RelayGate, TLAPS

USE DEF Goto, Return, records, calls, relayVars

\* Only relays behind the expander go through the computation of a mask.
LoadsExpanded == \A t \in Tasks : place[t] = "load" => switching[t].relay \in Expanded

TypeInv == RelayTypeOK /\ LoadsExpanded

\* Typing needs LoadsExpanded: a mask with the bit of a heater is ill-typed.
LEMMA TypeInvInductive == RelaySpec => []TypeInv
<1>1. RelayInit => TypeInv
  BY FaultsAssumption
  DEF RelayInit, TypeInv, RelayTypeOK, LoadsExpanded, RelayLocations, Relays, Direct, NoRequest
<1>2. TypeInv /\ [RelayNext]_relayVars => TypeInv'
  <2> SUFFICES ASSUME TypeInv, [RelayNext]_relayVars PROVE TypeInv'
    OBVIOUS
  <2> USE FaultsAssumption
      DEF TypeInv, RelayTypeOK, LoadsExpanded, RelayLocations, BeginsCall, BeginsSweep, EndsSweep
  <2>1. ASSUME NEW t \in Tasks, NEW r \in Relays, NEW on \in BOOLEAN, GrantSet(t, r, on)
        PROVE  TypeInv'
    BY <2>1 DEF GrantSet, Relays
  <2>2. ASSUME NEW t \in Tasks, Deny(t) PROVE TypeInv'
    BY <2>2 DEF Deny
  <2>3. ASSUME NEW t \in Tasks, LoadMask(t) PROVE TypeInv'
    <3>1. switching[t].relay \in Expanded
      BY <2>3 DEF LoadMask
    <3>2. WithRelay(driver \cap Expanded, switching[t].relay, switching[t].on) \in SUBSET Expanded
      BY <3>1 DEF WithRelay
    <3>3. QED
      BY <2>3, <3>2 DEF LoadMask
  <2>4. ASSUME NEW t \in Tasks, StoreDriver(t) PROVE TypeInv'
    BY <2>4 DEF StoreDriver, WithRelay, Relays
  <2>5. ASSUME NEW t \in Tasks, DriveDirect(t) PROVE TypeInv'
    BY <2>5 DEF DriveDirect, WithRelay
  <2>6. ASSUME NEW t \in Tasks, DriveExpander(t) PROVE TypeInv'
    <3>1. NoRequest \in [relay : Relays, on : BOOLEAN]
      BY DEF NoRequest, Relays, Direct
    <3>2. QED
      BY <2>6, <3>1 DEF DriveExpander, ExpanderWritten, ExpanderFault, Relays
  <2>7. ASSUME NEW t \in Tasks, Conclude(t) PROVE TypeInv'
    <3>1. NoRequest \in [relay : Relays, on : BOOLEAN]
      BY DEF NoRequest, Relays, Direct
    <3>2. QED
      BY <2>7, <3>1 DEF Conclude, WithRelay
  <2>8. ASSUME NEW t \in Tasks, SweepDriver(t) PROVE TypeInv'
    BY <2>8 DEF SweepDriver
  <2>9. ASSUME NEW t \in Tasks, SweepDirect(t) PROVE TypeInv'
    BY <2>9 DEF SweepDirect
  <2>10. ASSUME NEW t \in Tasks, SweepExpander(t) PROVE TypeInv'
    BY <2>10 DEF SweepExpander, CountSweep, AfterSweep, ExpanderWritten, ExpanderFault, Relays
  <2>11. ASSUME NEW t \in Tasks, SweepConclude(t) PROVE TypeInv'
    BY <2>11 DEF SweepConclude, CountSweep, AfterSweep
  <2>12. CASE EnterSafeOff
    BY <2>12 DEF EnterSafeOff, Tasks
  <2>13. CASE LeaveSafeOff
    BY <2>13 DEF LeaveSafeOff
  <2>14. CASE UNCHANGED relayVars
    BY <2>14
  <2>15. QED
    BY <2>1, <2>2, <2>3, <2>4, <2>5, <2>6, <2>7, <2>8, <2>9, <2>10, <2>11, <2>12, <2>13,
       <2>14 DEF RelayNext, Request, Call
<1>3. QED
  BY <1>1, <1>2, PTL DEF RelaySpec

\* Type correctness; whether calls overlap does not matter.
THEOREM RelayTypeCorrect == RelaySpec => []RelayTypeOK
BY TypeInvInductive, PTL DEF TypeInv

-----------------------------------------------------------------------------
(* The interlock reads the table, which a call updates last.  So the       *)
(* invariant accounts for the call under way: what it has energised and    *)
(* not yet recorded, and what it was granted and has not yet energised.    *)
(* None of it holds once two calls have crossed; an all_off by itself      *)
(* restores it when it reaches the expander, for heater and cooler are off *)
(* then and no call is under way.                                          *)

\* Only one task is in a call.
Exclusive == \A t, u \in Tasks : InCall(t) /\ InCall(u) => t = u

Energises(t, r) == switching[t].relay = r /\ switching[t].on

\* An energised heater or cooler is in the table, or a call is about to enter it.
Covered ==
    \A r \in Direct \cap energised :
        \/ r \in table
        \/ \E t \in Tasks : place[t] \in {"note", "conclude"} /\ Energises(t, r)

\* What was checked when a call was granted still holds until it is recorded.
Granted ==
    \A t \in Tasks : \A r \in Direct :
        place[t] \in {"load", "drive", "note", "conclude"} /\ Energises(t, r) => ~Interlocked(r)

\* A heater or cooler leaves the table only after it went off.
Released ==
    \A t \in Tasks : \A r \in Direct \cap energised :
        place[t] \in {"note", "conclude"} /\ switching[t].relay = r => switching[t].on

\* The table is emptied only after heater and cooler went off.
Swept ==
    \A t \in Tasks :
        place[t] \in {"sweepExpander", "sweepConclude"} => Direct \cap energised = {}

CallInv == Covered /\ Granted /\ Released /\ NeverBoth

\* An all_off that mends is under way, and only that.
Mending == \E t \in Tasks : place[t] \in {"sweepDirect", "sweepExpander"}

CrossInv ==
    /\ overlap # "yes" => Exclusive /\ Swept
    /\ overlap = "mending" => Mending
    /\ overlap = "no" => CallInv

InterlockInv == TypeInv /\ CrossInv

LEMMA InterlockInductive == RelaySpec => []InterlockInv
<1>1. RelayInit => CrossInv
  BY DEF RelayInit, CrossInv, CallInv, Released, Exclusive, Covered, Granted, Swept, Energises,
         Interlocked, Direct, InCall, NeverBoth, NoRequest
<1>2. InterlockInv /\ [RelayNext]_relayVars => CrossInv'
  <2> SUFFICES ASSUME InterlockInv, [RelayNext]_relayVars PROVE CrossInv'
    OBVIOUS
  <2> USE DEF InterlockInv, CrossInv, CallInv, TypeInv, RelayTypeOK, Exclusive, Covered, Granted,
          Released, Swept, Mending, Energises, Interlocked, NeverBoth, InCall, RelayLocations
  <2>1. ASSUME NEW t \in Tasks, NEW r \in Relays, NEW on \in BOOLEAN, GrantSet(t, r, on)
        PROVE  CrossInv'
    <3>1. CASE \E u \in Tasks \ {t} : InCall(u)
      BY <2>1, <3>1 DEF GrantSet, BeginsCall
    <3>2. CASE \A u \in Tasks \ {t} : ~InCall(u)
      <4>1. overlap' = overlap /\ overlap # "mending"
        BY <2>1, <3>2 DEF GrantSet, BeginsCall
      <4>2. QED
        BY <2>1, <3>2, <4>1 DEF GrantSet
    <3>3. QED
      BY <3>1, <3>2
  <2>2. ASSUME NEW t \in Tasks, Deny(t) PROVE CrossInv'
    BY <2>2 DEF Deny
  <2>3. ASSUME NEW t \in Tasks, LoadMask(t) PROVE CrossInv'
    BY <2>3, RelaysAssumption DEF LoadMask, LoadsExpanded
  <2>4. ASSUME NEW t \in Tasks, StoreDriver(t) PROVE CrossInv'
    BY <2>4 DEF StoreDriver
  <2>5. ASSUME NEW t \in Tasks, DriveDirect(t) PROVE CrossInv'
    <3>1. /\ place[t] = "drive"
          /\ place' = [place EXCEPT ![t] = "note"]
          /\ energised' = WithRelay(energised, switching[t].relay, switching[t].on)
          /\ UNCHANGED <<table, switching, overlap>>
      BY <2>5 DEF DriveDirect
    <3>2. overlap # "yes" => Exclusive' /\ Swept'
      BY <3>1
    <3>3. overlap = "mending" => Mending'
      BY <3>1
    <3>4. ASSUME overlap = "no" PROVE Covered' /\ Granted' /\ Released'
      BY <3>1, <3>4 DEF WithRelay
    <3>5. ASSUME overlap = "no" PROVE NeverBoth'
      <4> SUFFICES ASSUME "P01" \in energised', "P02" \in energised' PROVE FALSE
        BY DEF Direct
      <4>1. switching[t].on
        BY <3>1, <3>5 DEF WithRelay, Direct
      <4>2. \A u \in Tasks : place[u] \notin {"note", "conclude"}
        BY <3>1, <3>5
      <4>3. Direct \cap energised \subseteq table
        BY <3>5, <4>2
      <4>4. CASE switching[t].relay = "P01"
        BY <3>1, <3>5, <4>1, <4>3, <4>4 DEF WithRelay, Direct
      <4>5. CASE switching[t].relay = "P02"
        BY <3>1, <3>5, <4>1, <4>3, <4>5 DEF WithRelay, Direct
      <4>6. CASE switching[t].relay \notin Direct
        BY <3>1, <3>5, <4>6 DEF WithRelay, Direct
      <4>7. QED
        BY <4>4, <4>5, <4>6 DEF Direct
    <3>6. QED
      BY <3>1, <3>2, <3>3, <3>4, <3>5
  <2>6. ASSUME NEW t \in Tasks, DriveExpander(t) PROVE CrossInv'
    <3>1. Direct \cap energised' = Direct \cap energised
      BY <2>6, RelaysAssumption DEF DriveExpander, ExpanderWritten, ExpanderFault
    <3>2. switching[t].relay \notin Direct /\ UNCHANGED <<table, overlap>>
      BY <2>6, RelaysAssumption DEF DriveExpander
    <3>3. /\ place[t] = "drive"
          /\ place' \in {[place EXCEPT ![t] = "conclude"], [place EXCEPT ![t] = "idle"]}
          /\ place'[t] = "conclude" => switching' = switching
      BY <2>6 DEF DriveExpander
    <3>4. \A u \in Tasks \ {t} : place'[u] = place[u] /\ switching'[u] = switching[u]
      BY <2>6 DEF DriveExpander
    <3>5. overlap # "yes" => Exclusive' /\ Swept'
      BY <3>1, <3>2, <3>3, <3>4
    <3>6. overlap = "mending" => Mending'
      BY <3>3, <3>4
    <3>7. ASSUME overlap = "no" PROVE CallInv'
      <4>1. Covered'
        BY <3>1, <3>2, <3>3, <3>4, <3>7
      <4>2. Granted'
        BY <3>2, <3>3, <3>4, <3>7
      <4>3. Released'
        BY <3>1, <3>2, <3>3, <3>4, <3>7
      <4>4. NeverBoth'
        BY <3>1, <3>7
      <4>5. QED
        BY <4>1, <4>2, <4>3, <4>4
    <3>8. QED
      BY <3>2, <3>5, <3>6, <3>7
  <2>7. ASSUME NEW t \in Tasks, Conclude(t) PROVE CrossInv'
    <3>1. /\ place[t] = "conclude"
          /\ place' = [place EXCEPT ![t] = "idle"]
          /\ table' = WithRelay(table, switching[t].relay, switching[t].on)
          /\ UNCHANGED <<energised, overlap>>
      BY <2>7 DEF Conclude
    <3>2. overlap # "yes" => \A u \in Tasks : ~InCall(u)'
      BY <3>1
    <3>3. overlap # "mending"
      BY <3>1
    <3>4. overlap = "no" => Covered'
      <4> SUFFICES ASSUME overlap = "no", NEW r \in Direct \cap energised PROVE r \in table'
        BY <3>1
      <4>1. CASE switching[t].relay = r
        BY <3>1, <4>1 DEF WithRelay
      <4>2. CASE switching[t].relay # r
        <5>1. \A u \in Tasks : ~ (place[u] \in {"note", "conclude"} /\ Energises(u, r))
          BY <3>1, <4>2
        <5>2. QED
          BY <3>1, <4>2, <5>1 DEF WithRelay
      <4>3. QED
        BY <4>1, <4>2
    <3>5. QED
      BY <3>1, <3>2, <3>3, <3>4
  <2>8. ASSUME NEW t \in Tasks, SweepDriver(t) PROVE CrossInv'
    <3>1. CASE \E u \in Tasks \ {t} : InCall(u)
      BY <2>8, <3>1 DEF SweepDriver, BeginsSweep
    <3>2. CASE \A u \in Tasks \ {t} : ~InCall(u)
      <4>1. /\ place' = [place EXCEPT ![t] = "sweepDirect"]
            /\ place[t] = "sweep"
            /\ UNCHANGED <<energised, table, switching>>
            /\ overlap' = IF overlap = "yes" THEN "mending" ELSE overlap
        BY <2>8, <3>2 DEF SweepDriver, BeginsSweep
      <4>2. overlap # "mending"
        BY <3>2, <4>1
      <4>3. QED
        BY <3>2, <4>1, <4>2
    <3>3. QED
      BY <3>1, <3>2
  <2>9. ASSUME NEW t \in Tasks, SweepDirect(t) PROVE CrossInv'
    BY <2>9 DEF SweepDirect
  <2>10. ASSUME NEW t \in Tasks, SweepExpander(t) PROVE CrossInv'
    <3>1. Direct \cap energised' = Direct \cap energised
      BY <2>10, RelaysAssumption DEF SweepExpander, ExpanderWritten, ExpanderFault
    <3>2. /\ place[t] = "sweepExpander"
          /\ place'[t] \in {"sweepConclude", "sweep", "idle"}
          /\ \A u \in Tasks \ {t} : place'[u] = place[u]
          /\ UNCHANGED <<table, switching>>
          /\ overlap' = IF overlap = "mending" THEN "no" ELSE overlap
      BY <2>10 DEF SweepExpander, AfterSweep, EndsSweep
    <3>3. overlap # "yes" => /\ Direct \cap energised' = {}
                             /\ \A u \in Tasks \ {t} : ~InCall(u)
      BY <3>1, <3>2
    <3>4. overlap # "yes" => Exclusive' /\ Swept' /\ CallInv'
      BY <3>2, <3>3 DEF Direct
    <3>5. QED
      BY <3>2, <3>4
  <2>11. ASSUME NEW t \in Tasks, SweepConclude(t) PROVE CrossInv'
    <3>1. /\ place[t] = "sweepConclude"
          /\ place'[t] \in {"sweep", "idle"}
          /\ \A u \in Tasks \ {t} : place'[u] = place[u]
          /\ table' = {}
          /\ UNCHANGED <<energised, switching, overlap>>
      BY <2>11 DEF SweepConclude, AfterSweep
    <3>2. overlap # "yes" => /\ Direct \cap energised = {}
                             /\ \A u \in Tasks \ {t} : ~InCall(u)
      BY <3>1
    <3>3. overlap # "mending"
      BY <3>1
    <3>4. QED
      BY <3>1, <3>2, <3>3 DEF Direct
  <2>12. CASE EnterSafeOff
    BY <2>12 DEF EnterSafeOff, Tasks
  <2>13. CASE LeaveSafeOff
    BY <2>13 DEF LeaveSafeOff
  <2>14. CASE UNCHANGED relayVars
    BY <2>14
  <2>15. QED
    BY <2>1, <2>2, <2>3, <2>4, <2>5, <2>6, <2>7, <2>8, <2>9, <2>10, <2>11, <2>12, <2>13,
       <2>14 DEF RelayNext, Request, Call
<1>3. QED
  BY <1>1, <1>2, TypeInvInductive, PTL DEF RelaySpec, InterlockInv

\* Heater and cooler are energised together only where two calls have crossed and no
\* all_off has run by itself since, whatever writes failed (RB-EST-003).
THEOREM InterlockHolds == RelaySpec => []Interlock
BY InterlockInductive, PTL DEF InterlockInv, CrossInv, CallInv, Interlock

\* Nor does the table take an energised heater or cooler for off otherwise.
THEOREM TableCovers == RelaySpec => []TableCoversDirect
<1>1. InterlockInv => TableCoversDirect
  BY DEF InterlockInv, CrossInv, CallInv, Covered, TableCoversDirect, AllIdle
<1>2. QED
  BY <1>1, InterlockInductive, PTL

-----------------------------------------------------------------------------
(* The driver's state is written before the contacts on one path and after *)
(* them on the others, so the invariant says by how much the two differ at *)
(* each point of a call.                                                   *)

\* Without an expander nothing behind it is on, and no call gets as far.
ExpanderUsed ==
    ~expander => /\ energised \subseteq Direct
                 /\ \A t \in Tasks : place[t] \in {"load", "note", "drive"}
                                          => switching[t].relay \in Direct

\* How the driver's state relates to the contacts while t is in its call.
InStep(t) ==
    /\ place[t] \in {"load", "conclude"} => driver = energised
    /\ place[t] = "drive" /\ switching[t].relay \in Direct => driver = energised
    /\ place[t] = "drive" /\ switching[t].relay \in Expanded
            => driver = (energised \cap Direct) \union mask[t]
    /\ place[t] = "note" /\ switching[t].relay \in Direct
            => energised = WithRelay(driver, switching[t].relay, switching[t].on)
    /\ place[t] = "note" /\ switching[t].relay \in Expanded => driver = energised
    /\ place[t] \in {"sweepDirect", "sweepExpander", "sweepConclude"} => driver = {}
    /\ place[t] = "sweepConclude" => energised = {}

HonestCalls ==
    /\ faults = 0 /\ overlap = "no" => /\ (\A t \in Tasks : ~InCall(t)) => driver = energised
                                       /\ \A t \in Tasks : InStep(t)
    /\ faults = 0 /\ overlap = "mending" => driver = {}

HonestInv == InterlockInv /\ ExpanderUsed /\ HonestCalls

LEMMA HonestInductive == RelaySpec => []HonestInv
<1>1. RelayInit => ExpanderUsed /\ HonestCalls
  BY DEF RelayInit, ExpanderUsed, HonestCalls, InStep, NoRequest
<1>2. HonestInv /\ [RelayNext]_relayVars => ExpanderUsed'
  <2> SUFFICES ASSUME HonestInv, [RelayNext]_relayVars PROVE ExpanderUsed'
    OBVIOUS
  <2> USE RelaysAssumption
      DEF HonestInv, InterlockInv, TypeInv, RelayTypeOK, LoadsExpanded, ExpanderUsed,
          RelayLocations,
          NoRequest, Direct
  <2>1. ASSUME NEW t \in Tasks, NEW r \in Relays, NEW on \in BOOLEAN, GrantSet(t, r, on)
        PROVE  ExpanderUsed'
    BY <2>1 DEF GrantSet, Relays
  <2>2. ASSUME NEW t \in Tasks, Deny(t) PROVE ExpanderUsed'
    BY <2>2 DEF Deny
  <2>3. ASSUME NEW t \in Tasks, LoadMask(t) \/ StoreDriver(t) \/ Conclude(t) PROVE ExpanderUsed'
    BY <2>3 DEF LoadMask, StoreDriver, Conclude
  <2>4. ASSUME NEW t \in Tasks, DriveDirect(t) PROVE ExpanderUsed'
    BY <2>4 DEF DriveDirect, WithRelay
  <2>5. ASSUME NEW t \in Tasks, DriveExpander(t) PROVE ExpanderUsed'
    BY <2>5 DEF DriveExpander, ExpanderWritten, ExpanderFault
  <2>6. ASSUME NEW t \in Tasks, SweepDriver(t) \/ SweepDirect(t) PROVE ExpanderUsed'
    BY <2>6 DEF SweepDriver, SweepDirect
  <2>7. ASSUME NEW t \in Tasks, SweepExpander(t) PROVE ExpanderUsed'
    BY <2>7 DEF SweepExpander, AfterSweep, ExpanderWritten, ExpanderFault
  <2>8. ASSUME NEW t \in Tasks, SweepConclude(t) PROVE ExpanderUsed'
    BY <2>8 DEF SweepConclude, AfterSweep
  <2>9. CASE EnterSafeOff \/ LeaveSafeOff \/ UNCHANGED relayVars
    BY <2>9 DEF EnterSafeOff, LeaveSafeOff, Tasks
  <2>10. QED
    BY <2>1, <2>2, <2>3, <2>4, <2>5, <2>6, <2>7, <2>8, <2>9 DEF RelayNext, Request, Call
<1>3. HonestInv /\ [RelayNext]_relayVars => HonestCalls'
  <2> SUFFICES ASSUME HonestInv, [RelayNext]_relayVars, faults' = 0 PROVE HonestCalls'
    BY DEF HonestCalls
  <2> DEFINE Quiet == \A u \in Tasks : ~InCall(u)
             Goal == /\ overlap' = "no" => /\ Quiet' => (driver = energised)'
                                           /\ \A u \in Tasks : InStep(u)'
                     /\ overlap' = "mending" => driver' = {}
  <2> USE RelaysAssumption, FaultsAssumption
      DEF HonestInv, InterlockInv, CrossInv, TypeInv, RelayTypeOK, LoadsExpanded, Exclusive, Swept,
          Mending, ExpanderUsed, HonestCalls, InStep, InCall, RelayLocations
  <2>1. ASSUME NEW t \in Tasks, NEW r \in Relays, NEW on \in BOOLEAN, GrantSet(t, r, on)
        PROVE  Goal
    <3>1. CASE \E u \in Tasks \ {t} : InCall(u)
      BY <2>1, <3>1 DEF GrantSet, BeginsCall
    <3>2. CASE \A u \in Tasks \ {t} : ~InCall(u)
      BY <2>1, <3>2 DEF GrantSet, BeginsCall
    <3>3. QED
      BY <3>1, <3>2
  <2>2. ASSUME NEW t \in Tasks, Deny(t) PROVE Goal
    BY <2>2 DEF Deny
  <2>3. ASSUME NEW t \in Tasks, LoadMask(t) PROVE Goal
    BY <2>3 DEF LoadMask
  <2>4. ASSUME NEW t \in Tasks, StoreDriver(t) PROVE Goal
    BY <2>4 DEF StoreDriver, WithRelay, Relays
  <2>5. ASSUME NEW t \in Tasks, DriveDirect(t) PROVE Goal
    BY <2>5 DEF DriveDirect, WithRelay
  <2>6. ASSUME NEW t \in Tasks, DriveExpander(t) PROVE Goal
    <3>1. ~ExpanderFault
      BY DEF ExpanderFault
    <3>2. /\ place[t] = "drive" /\ switching[t].relay \in Expanded
          /\ place' = [place EXCEPT ![t] = "conclude"]
          /\ ExpanderWritten(mask[t])
          /\ UNCHANGED <<driver, switching, mask, overlap>>
      BY <2>6, <3>1 DEF DriveExpander
    <3>3. overlap # "yes" => \A u \in Tasks \ {t} : ~InCall(u) /\ place'[u] = place[u]
      BY <3>2
    <3>4. overlap = "no" => (driver = energised)'
      <4>1. overlap = "no" => driver = (energised \cap Direct) \union mask[t]
        BY <3>2 DEF ExpanderWritten
      <4>2. QED
        BY <3>2, <4>1 DEF ExpanderWritten
    <3>5. place'[t] = "conclude"
      BY <3>2
    <3>6. overlap # "mending"
      BY <3>2
    <3>7. QED
      BY <3>2, <3>3, <3>4, <3>5, <3>6
  <2>7. ASSUME NEW t \in Tasks, Conclude(t) PROVE Goal
    <3>1. /\ place[t] = "conclude"
          /\ place' = [place EXCEPT ![t] = "idle"]
          /\ UNCHANGED <<driver, energised, overlap, faults>>
      BY <2>7 DEF Conclude
    <3>2. overlap # "yes" => \A u \in Tasks : place'[u] \in {"idle", "sweep"}
      BY <3>1
    <3>3. overlap = "no" => driver = energised
      BY <3>1
    <3>4. overlap # "mending"
      BY <3>1
    <3>5. QED
      BY <3>1, <3>2, <3>3, <3>4
  <2>8. ASSUME NEW t \in Tasks, SweepDriver(t) PROVE Goal
    <3>1. CASE \E u \in Tasks \ {t} : InCall(u)
      BY <2>8, <3>1 DEF SweepDriver, BeginsSweep
    <3>2. CASE \A u \in Tasks \ {t} : ~InCall(u)
      BY <2>8, <3>2 DEF SweepDriver, BeginsSweep
    <3>3. QED
      BY <3>1, <3>2
  <2>9. ASSUME NEW t \in Tasks, SweepDirect(t) PROVE Goal
    BY <2>9 DEF SweepDirect
  <2>10. ASSUME NEW t \in Tasks, SweepExpander(t) PROVE Goal
    <3>1. ~ExpanderFault
      BY DEF ExpanderFault
    <3>2. /\ place[t] = "sweepExpander" /\ place'[t] \in {"sweepConclude", "idle", "sweep"}
          /\ overlap' = IF overlap = "mending" THEN "no" ELSE overlap
      BY <2>10 DEF SweepExpander, AfterSweep, EndsSweep
    <3>3. overlap # "yes" => \A u \in Tasks \ {t} : ~InCall(u) /\ place'[u] = place[u]
      BY <2>10, <3>2 DEF SweepExpander
    <3>4. overlap # "yes" => driver' = {} /\ energised' = {}
      <4>1. overlap # "yes" => driver = {} /\ Direct \cap energised = {}
        BY <2>10, <3>1, <3>2 DEF SweepExpander, ExpanderWritten
      <4>2. CASE expander
        BY <2>10, <3>1, <4>1, <4>2 DEF SweepExpander, ExpanderWritten
      <4>3. CASE ~expander
        BY <2>10, <4>1, <4>3 DEF SweepExpander
      <4>4. QED
        BY <4>2, <4>3
    <3>5. QED
      BY <3>2, <3>3, <3>4
  <2>11. ASSUME NEW t \in Tasks, SweepConclude(t) PROVE Goal
    <3>1. /\ place[t] = "sweepConclude" /\ place'[t] \in {"idle", "sweep"}
          /\ overlap' = overlap
      BY <2>11 DEF SweepConclude, AfterSweep
    <3>2. overlap # "yes" => \A u \in Tasks \ {t} : ~InCall(u) /\ place'[u] = place[u]
      BY <2>11, <3>1 DEF SweepConclude
    <3>3. overlap = "no" => driver' = {} /\ energised' = {}
      BY <2>11, <3>1 DEF SweepConclude
    <3>4. overlap # "mending"
      BY <3>1
    <3>5. QED
      BY <3>1, <3>2, <3>3, <3>4
  <2>12. CASE EnterSafeOff
    BY <2>12 DEF EnterSafeOff, Tasks
  <2>13. CASE LeaveSafeOff
    BY <2>13 DEF LeaveSafeOff
  <2>14. CASE UNCHANGED relayVars
    BY <2>14
  <2>15. Goal
    BY <2>1, <2>2, <2>3, <2>4, <2>5, <2>6, <2>7, <2>8, <2>9, <2>10, <2>11, <2>12, <2>13,
       <2>14 DEF RelayNext, Request, Call
  <2>16. QED
    BY <2>15 DEF HonestCalls
<1>4. QED
  BY <1>1, <1>2, <1>3, InterlockInductive, PTL DEF RelaySpec, HonestInv

\* Before the first failed write the driver's state is the truth whenever no call is
\* under way, until calls cross, and again after an all_off that ran by itself.
THEOREM DriverTellsTruth == RelaySpec => []DriverHonest
<1>1. HonestInv => DriverHonest
  BY DEF HonestInv, HonestCalls, DriverHonest, AllIdle, InCall
<1>2. QED
  BY <1>1, HonestInductive, PTL
-----------------------------------------------------------------------------
(* Power is cut by the first of the two sweeps that has no other call      *)
(* beside it, and nothing is granted before the mode is left.              *)

Dark == energised \cap Direct = {} /\ (faults = 0 => energised = {})

\* No relay_set is under way.
NoneSwitching == \A t \in Tasks : place[t] \notin {"load", "drive", "note", "conclude"}

\* The first sweep of a SAFE_OFF is still to end.
SweepsFirst ==
    /\ sweeps = 2
    /\ place["safety"] \in {"sweep", "sweepDirect", "sweepExpander", "sweepConclude"}

CutInv ==
    /\ \A t \in Tasks : place[t] = "sweepConclude" /\ overlap # "yes" => energised = {}
    /\ relayMode = "SAFE_OFF" /\ overlap = "no" => SweepsFirst \/ (Dark /\ NoneSwitching)

PowerInv == HonestInv /\ CutInv

LEMMA PowerInductive == RelaySpec => []PowerInv
<1>1. RelayInit => CutInv
  BY DEF RelayInit, CutInv
<1>2. PowerInv /\ [RelayNext]_relayVars => CutInv'
  <2> SUFFICES ASSUME PowerInv, [RelayNext]_relayVars PROVE CutInv'
    OBVIOUS
  <2> USE RelaysAssumption, FaultsAssumption
      DEF PowerInv, CutInv, Dark, NoneSwitching, SweepsFirst, HonestInv, InterlockInv, CrossInv,
          TypeInv, RelayTypeOK, Exclusive, Swept, ExpanderUsed, InCall, RelayLocations
  <2>1. ASSUME NEW t \in Tasks, NEW r \in Relays, NEW on \in BOOLEAN, GrantSet(t, r, on)
        PROVE  CutInv'
    <3>1. /\ place'[t] # "sweepConclude" /\ relayMode' = "NORMAL"
          /\ \A u \in Tasks \ {t} : place'[u] = place[u]
          /\ energised' = energised
          /\ overlap' # "yes" => overlap # "yes"
      BY <2>1 DEF GrantSet, BeginsCall
    <3>2. QED
      BY <3>1
  <2>2. ASSUME NEW t \in Tasks, Deny(t) PROVE CutInv'
    BY <2>2 DEF Deny
  <2>3. ASSUME NEW t \in Tasks, LoadMask(t) PROVE CutInv'
    BY <2>3 DEF LoadMask
  <2>4. ASSUME NEW t \in Tasks, StoreDriver(t) PROVE CutInv'
    BY <2>4 DEF StoreDriver
  <2>5. ASSUME NEW t \in Tasks, DriveDirect(t) PROVE CutInv'
    BY <2>5 DEF DriveDirect
  <2>6. ASSUME NEW t \in Tasks, DriveExpander(t) PROVE CutInv'
    <3>1. /\ place[t] = "drive" /\ place'[t] \in {"conclude", "idle"}
          /\ \A u \in Tasks \ {t} : place'[u] = place[u]
          /\ UNCHANGED <<relayMode, sweeps, overlap>>
      BY <2>6 DEF DriveExpander
    <3>2. overlap # "yes" => \A u \in Tasks \ {t} : ~InCall(u)
      BY <3>1
    <3>3. relayMode = "SAFE_OFF" /\ overlap = "no" => SweepsFirst'
      <4>1. "safety" \in Tasks
        BY DEF Tasks
      <4>2. QED
        BY <3>1, <4>1
    <3>4. QED
      BY <3>1, <3>2, <3>3
  <2>7. ASSUME NEW t \in Tasks, Conclude(t) PROVE CutInv'
    BY <2>7 DEF Conclude
  <2>8. ASSUME NEW t \in Tasks, SweepDriver(t) PROVE CutInv'
    <3>1. /\ place' = [place EXCEPT ![t] = "sweepDirect"]
          /\ place[t] = "sweep"
          /\ UNCHANGED <<relayMode, energised, sweeps, faults>>
      BY <2>8 DEF SweepDriver
    <3>2. CASE \E u \in Tasks \ {t} : InCall(u)
      BY <2>8, <3>1, <3>2 DEF SweepDriver, BeginsSweep
    <3>3. CASE \A u \in Tasks \ {t} : ~InCall(u)
      <4>1. overlap' = IF overlap = "yes" THEN "mending" ELSE overlap
        BY <2>8, <3>3 DEF SweepDriver, BeginsSweep
      <4>2. QED
        BY <3>1, <3>3, <4>1
    <3>4. QED
      BY <3>2, <3>3
  <2>9. ASSUME NEW t \in Tasks, SweepDirect(t) PROVE CutInv'
    BY <2>9 DEF SweepDirect
  <2>10. ASSUME NEW t \in Tasks, SweepExpander(t) PROVE CutInv'
    <3>1. /\ place[t] = "sweepExpander"
          /\ overlap' = IF overlap = "mending" THEN "no" ELSE overlap
          /\ \A u \in Tasks \ {t} : place'[u] = place[u]
          /\ UNCHANGED relayMode
      BY <2>10 DEF SweepExpander, EndsSweep
    <3>2. CASE overlap = "yes"
      BY <3>1, <3>2
    <3>3. CASE overlap # "yes"
      <4>1. \A u \in Tasks \ {t} : place'[u] \in {"idle", "sweep"}
        BY <3>1, <3>3
      <4>2. \/ place'[t] = "sweepConclude" /\ energised' = {} /\ UNCHANGED sweeps
            \/ place'[t] \in {"idle", "sweep"} /\ Dark'
        BY <2>10, <3>1, <3>3
        DEF SweepExpander, AfterSweep, ExpanderWritten, ExpanderFault, CountSweep
      <4>3. QED
        BY <4>1, <4>2
    <3>4. QED
      BY <3>2, <3>3
  <2>11. ASSUME NEW t \in Tasks, SweepConclude(t) PROVE CutInv'
    <3>1. /\ place[t] = "sweepConclude" /\ place'[t] \in {"idle", "sweep"}
          /\ \A u \in Tasks \ {t} : place'[u] = place[u]
          /\ UNCHANGED <<relayMode, energised, overlap, faults>>
      BY <2>11 DEF SweepConclude, AfterSweep
    <3>2. overlap # "yes" => NoneSwitching' /\ Dark'
      BY <3>1
    <3>3. QED
      BY <3>1, <3>2
  <2>12. CASE EnterSafeOff
    <3>1. "safety" \in Tasks
      BY DEF Tasks
    <3>2. /\ place' = [place EXCEPT !["safety"] = "sweep"]
          /\ sweeps' = 2
          /\ UNCHANGED <<energised, overlap>>
      BY <2>12 DEF EnterSafeOff
    <3>3. SweepsFirst'
      BY <3>1, <3>2
    <3>4. QED
      BY <3>2, <3>3
  <2>13. CASE LeaveSafeOff
    BY <2>13 DEF LeaveSafeOff
  <2>14. CASE UNCHANGED relayVars
    BY <2>14
  <2>15. QED
    BY <2>1, <2>2, <2>3, <2>4, <2>5, <2>6, <2>7, <2>8, <2>9, <2>10, <2>11, <2>12, <2>13,
       <2>14 DEF RelayNext, Request, Call
<1>3. QED
  BY <1>1, <1>2, HonestInductive, PTL DEF RelaySpec, PowerInv

\* In SAFE_OFF and EMERGENCY heater and cooler are off once the sweeps are over,
\* whatever writes failed, and every relay is if none did, until two calls cross.
THEOREM SafeOffIsDark == RelaySpec => []PowerIsCut
<1>1. PowerInv => PowerIsCut
  BY DEF PowerInv, CutInv, Dark, SweepsFirst, PowerIsCut, AllIdle, Tasks
<1>2. QED
  BY <1>1, PowerInductive, PTL
=============================================================================
