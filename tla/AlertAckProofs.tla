------------------------------- MODULE AlertAckProofs -------------------------------
(***************************************************************************)
(* AlertAck for any set of alarms, plugs and groups of them, and tables of *)
(* any size: typing, that the two tables agree, and that a critical alarm  *)
(* takes two requests, whatever the tasks do between the steps of the      *)
(* handler.                                                                *)
(***************************************************************************)
EXTENDS AlertAck, TLAPS

-----------------------------------------------------------------------------------
(* Instances and occurrences.                                               *)

\* An instance is an alarm and a plug; only the alarms of plugs have plugs.
LEMMA InstanceParts ==
    /\ \A i \in Instances : /\ i = <<i[1], i[2]>>
                            /\ i[1] \in Alarms
                            /\ i[2] \in Plugs \cup {NoPlug}
                            /\ i[1] \notin {"ALM-056", "ALM-065"} => i[2] = NoPlug
    /\ \A alm \in Alarms : <<alm, NoPlug>> \in Instances
    /\ \A alm \in {"ALM-056", "ALM-065"} \cap Alarms : \A p \in Plugs : <<alm, p>> \in Instances
    /\ NoSlot \notin Plugs \cup {NoPlug}
<1>1. \A i \in Instances : /\ i = <<i[1], i[2]>>
                           /\ i[1] \in Alarms
                           /\ i[2] \in Plugs \cup {NoPlug}
                           /\ i[1] \notin {"ALM-056", "ALM-065"} => i[2] = NoPlug
  BY DEF Instances, PlugAlarms, NoPlug
<1>2. /\ \A alm \in Alarms : <<alm, NoPlug>> \in Instances
      /\ \A alm \in {"ALM-056", "ALM-065"} \cap Alarms : \A p \in Plugs : <<alm, p>> \in Instances
  BY DEF Instances, PlugAlarms
<1>3. NoSlot \notin Plugs \cup {NoPlug}
  BY AlarmsAssumption DEF NoSlot, NoPlug
<1>4. QED
  BY <1>1, <1>2, <1>3

\* A free slot is not an occurrence, and a request changes of an occurrence
\* only how often it was acted upon and, perhaps, that it is acknowledged.
LEMMA OccurrenceFacts ==
    /\ Free \notin Occurrences
    /\ Free.severity # "CRITICAL"
    /\ \A o \in Occurrences :
         /\ Acted(o) \in Occurrences
         /\ Acted(o).severity = o.severity /\ Acted(o).required = o.required
         /\ Acted(o).acked = o.acked
         /\ Acted(o).acts \in 1 .. 2
         /\ o.acts \in 1 .. 2 => Acted(o).acts = 2
         /\ Acked(o) \in Occurrences
         /\ Acked(o).severity = o.severity /\ Acked(o).required = o.required
         /\ Acked(o).acked
         /\ Acked(o).acts = Acted(o).acts
<1>1. Free \notin Occurrences /\ Free.severity # "CRITICAL"
  BY DEF Free, Occurrences, None
<1>2. ASSUME NEW o \in Occurrences
      PROVE  /\ Acted(o) \in Occurrences
             /\ Acted(o).severity = o.severity /\ Acted(o).required = o.required
             /\ Acted(o).acked = o.acked
             /\ Acted(o).acts \in 1 .. 2
             /\ o.acts \in 1 .. 2 => Acted(o).acts = 2
  BY DEF Acted, Occurrences
<1>3. ASSUME NEW o \in Occurrences
      PROVE  /\ Acked(o) \in Occurrences
             /\ Acked(o).severity = o.severity /\ Acked(o).required = o.required
             /\ Acked(o).acked
             /\ Acked(o).acts = Acted(o).acts
  BY <1>2 DEF Acked, Occurrences
<1>4. QED
  BY <1>1, <1>2, <1>3

-----------------------------------------------------------------------------------
(* What the two tables keep.  `LoadNeverCritical' is why a load's alarm may *)
(* be withdrawn plug by plug although it may be asked for by its number:    *)
(* it is HIGH and leaves no stage.  `FirstCounted' is what a first request  *)
(* leaves behind for the second to complete, and `RequestStands' what the   *)
(* handler may still count on when it goes on with an alarm that nobody     *)
(* withdrew since it was looked up.                                         *)

TableTypeOK ==
    /\ slots \in [Instances -> Occurrences \cup {Free}]
    /\ head \in [Alarms -> Plugs \cup {NoPlug, NoSlot}]
    /\ stage \in [Instances -> Stages]

HeadIsActive ==
    \A alm \in Alarms :
      IF IsActive(alm)
      THEN <<alm, head[alm]>> \in Instances /\ Active(<<alm, head[alm]>>)
      ELSE \A i \in Instances : i[1] = alm => ~Active(i)

LoadNeverCritical ==
    \A i \in Instances :
      i[1] = "ALM-056" => slots[i].severity # "CRITICAL" /\ stage[i] = "NONE"

FirstCounted ==
    \A i \in Instances :
      i[1] \notin {"ALM-056", "ALM-065"} \cup crossed /\ stage[i] = "FIRST"
        => slots[i].acts \in 1 .. 2

RequestStands ==
    LET key == request.key IN
    /\ request.pc = "staging" => key[1] # "ALM-056"
    /\ request.pc \in InRequest /\ key[1] \notin crossed => Active(Named(key[1], key[2]))
    /\ request.pc = "marking" /\ key[1] \notin {"ALM-056", "ALM-065"} \cup crossed
         => slots[key].severity # "CRITICAL" \/ slots[key].acts \in 1 .. 2

TableInv ==
    /\ TableTypeOK
    /\ HeadIsActive
    /\ LoadNeverCritical
    /\ StageFollowsAlarm
    /\ FirstCounted
    /\ DoubleAck
    /\ RequestStands

\* Steps of others leave all of it alone.
LEMMA TableUntouched ==
    ASSUME TableInv, UNCHANGED <<alarmTable, crossed>>,
           \/ UNCHANGED request
           \/ request.pc \notin InRequest /\ request'.pc \notin InRequest
    PROVE  TableInv'
<1>1. UNCHANGED <<slots, head, stage, crossed>>
  BY DEF alarmTable
<1>2. CASE UNCHANGED request
  BY <1>1, <1>2 DEF TableInv, TableTypeOK, HeadIsActive, LoadNeverCritical, StageFollowsAlarm,
                    FirstCounted, DoubleAck, RequestStands, Active, IsActive, Named
<1>3. CASE request.pc \notin InRequest /\ request'.pc \notin InRequest
  <2>1. /\ TableTypeOK' /\ HeadIsActive' /\ LoadNeverCritical' /\ FirstCounted' /\ DoubleAck'
    BY <1>1 DEF TableInv, TableTypeOK, HeadIsActive, LoadNeverCritical, FirstCounted, DoubleAck,
                Active, IsActive
  <2>2. StageFollowsAlarm' /\ RequestStands'
    BY <1>1, <1>3 DEF TableInv, StageFollowsAlarm, RequestStands, Active, InRequest
  <2>3. QED
    BY <2>1, <2>2 DEF TableInv
<1>4. QED
  BY <1>2, <1>3

\* A lookup yields an instance of the alarm, the very one when it has a plug,
\* and the only one when the alarm has no plugs (find_slot, find_slot_for_plug).
LEMMA NamedFacts ==
    ASSUME TableTypeOK, HeadIsActive, NEW i \in Instances
    PROVE  LET named == Named(i[1], i[2])
           IN  /\ named \in Instances
               /\ named[1] = i[1]
               /\ i[2] # NoPlug => named = i
               /\ i[1] \notin {"ALM-056", "ALM-065"} => named = i
<1> DEFINE named == Named(i[1], i[2])
<1>1. i = <<i[1], i[2]>> /\ i[1] \in Alarms
  BY InstanceParts
<1>2. CASE i[2] = NoPlug /\ IsActive(i[1])
  <2>1. named = <<i[1], head[i[1]]>>
    BY <1>2 DEF Named
  <2>2. named \in Instances
    BY <1>1, <1>2, <2>1 DEF HeadIsActive
  <2>3. named[1] = i[1]
    BY <2>1
  <2>4. i[1] \notin {"ALM-056", "ALM-065"} => named = i
    BY <1>1, <1>2, <2>2, <2>3, InstanceParts
  <2>5. QED
    BY <1>2, <2>2, <2>3, <2>4
<1>3. CASE ~(i[2] = NoPlug /\ IsActive(i[1]))
  <2>1. named = i
    BY <1>1, <1>3 DEF Named
  <2>2. QED
    BY <2>1
<1>4. QED
  BY <1>2, <1>3

\* What it finds stays findable as long as no slot of the alarm is freed.
LEMMA NamedStands ==
    ASSUME TableTypeOK, HeadIsActive, HeadIsActive', NEW i \in Instances,
           Active(Named(i[1], i[2])),
           \A j \in Instances : j[1] = i[1] /\ Active(j) => Active(j)'
    PROVE  Active(Named(i[1], i[2]))'
<1> DEFINE named == Named(i[1], i[2])
<1>1. i = <<i[1], i[2]>> /\ i[1] \in Alarms
  BY InstanceParts
<1>2. named \in Instances /\ named[1] = i[1] /\ slots'[named] # Free
  BY NamedFacts DEF Active
<1>3. IsActive(i[1])'
  BY <1>1, <1>2 DEF HeadIsActive, Active
<1>4. Active(<<i[1], head[i[1]]>>)'
  BY <1>1, <1>3 DEF HeadIsActive
<1>5. CASE i[2] = NoPlug
  BY <1>3, <1>4, <1>5 DEF Named
<1>6. CASE i[2] # NoPlug
  BY <1>1, <1>2, <1>6 DEF Named, Active
<1>7. QED
  BY <1>5, <1>6

\* alert_manager_raise_full keeps the table in order, for any alarm, severity
\* and plug that the alarm may have; a load's alarm is never critical.
LEMMA RaiseKeeps ==
    ASSUME TableInv, RequestOK, UNCHANGED <<request, crossed>>,
           NEW alm \in Alarms, NEW plug \in Plugs \cup {NoPlug}, <<alm, plug>> \in Instances,
           NEW severity \in {"WARNING", "HIGH", "CRITICAL"}, NEW required \in BOOLEAN,
           alm = "ALM-056" => severity # "CRITICAL",
           Raise(alm, plug, severity, required)
    PROVE  TableInv'
<1> DEFINE i == <<alm, plug>>
           fresh == [severity |-> severity, required |-> required, acked |-> FALSE, acts |-> 0]
<1>1. CASE UNCHANGED alarmTable
  BY <1>1, TableUntouched
<1>2. CASE ~UNCHANGED alarmTable
  <2>1. /\ ~Active(i) /\ ~(plug = NoPlug /\ IsActive(alm))
        /\ slots' = [slots EXCEPT ![i] = fresh]
        /\ \E first \in {plug, head[alm]} \ {NoSlot} : head' = [head EXCEPT ![alm] = first]
        /\ stage' = stage
    BY <1>2 DEF Raise
  <2>2. fresh \in Occurrences /\ fresh # Free /\ fresh.severity = severity /\ ~fresh.acked
    BY DEF Occurrences, Free, None
  <2> HIDE DEF fresh
  <2>3. PICK first \in {plug, head[alm]} \ {NoSlot} : head' = [head EXCEPT ![alm] = first]
    BY <2>1
  <2>4. TableTypeOK'
    BY <2>1, <2>2, <2>3 DEF TableInv, TableTypeOK
  <2>5. /\ slots'[i] = fresh
        /\ \A j \in Instances : j # i => slots'[j] = slots[j]
    BY <2>1 DEF TableInv, TableTypeOK
  <2>6. Active(i)' /\ \A j \in Instances : Active(j) => Active(j)' /\ slots'[j] = slots[j]
    BY <2>1, <2>2, <2>5 DEF Active
  <2>7. HeadIsActive'
    <3> SUFFICES ASSUME NEW a \in Alarms
                 PROVE  IF head'[a] # NoSlot
                        THEN <<a, head'[a]>> \in Instances /\ slots'[<<a, head'[a]>>] # Free
                        ELSE \A j \in Instances : j[1] = a => slots'[j] = Free
      BY DEF HeadIsActive, IsActive, Active
    <3>1. CASE a = alm
      <4>1. head'[a] = first
        BY <2>3, <3>1 DEF TableInv, TableTypeOK
      <4>2. <<a, first>> \in Instances /\ slots'[<<a, first>>] # Free
        <5>1. CASE first = plug
          BY <5>1, <3>1, <2>6 DEF Active
        <5>2. CASE first = head[alm] /\ head[alm] # NoSlot
          BY <5>2, <3>1, <2>6 DEF TableInv, HeadIsActive, IsActive, Active
        <5>3. QED
          BY <5>1, <5>2, <2>3
      <4>3. QED
        BY <4>1, <4>2, <2>3
    <3>2. CASE a # alm
      <4>1. head'[a] = head[a]
        BY <2>3, <3>2 DEF TableInv, TableTypeOK
      <4>2. \A j \in Instances : j[1] = a => slots'[j] = slots[j]
        BY <2>5, <3>2
      <4>3. QED
        BY <4>1, <4>2 DEF TableInv, HeadIsActive, IsActive, Active
    <3>3. QED
      BY <3>1, <3>2
  <2>8. LoadNeverCritical'
    <3> SUFFICES ASSUME NEW j \in Instances, j[1] = "ALM-056"
                 PROVE  slots'[j].severity # "CRITICAL" /\ stage'[j] = "NONE"
      BY DEF LoadNeverCritical
    <3>1. QED
      BY <2>1, <2>2, <2>5 DEF TableInv, LoadNeverCritical
  <2>9. StageFollowsAlarm'
    BY <2>1, <2>6 DEF TableInv, StageFollowsAlarm
  <2>10. FirstCounted'
    <3> SUFFICES ASSUME NEW j \in Instances, j[1] \notin {"ALM-056", "ALM-065"},
                        j[1] \notin crossed, stage'[j] = "FIRST"
                 PROVE  slots'[j].acts \in 1 .. 2
      BY DEF FirstCounted
    <3>1. stage[j] = "FIRST"
      BY <2>1
    <3>2. PICK k \in Instances : k[1] = j[1] /\ Active(k)
      BY <3>1 DEF TableInv, StageFollowsAlarm
    <3>3. k = j
      BY <3>2, InstanceParts
    <3>4. QED
      BY <2>6, <3>1, <3>2, <3>3 DEF TableInv, FirstCounted
  <2>11. DoubleAck'
    BY <2>2, <2>5 DEF TableInv, DoubleAck
  <2>12. RequestStands'
    <3> DEFINE key == request.key
               named == Named(key[1], key[2])
    <3>1. SUFFICES ASSUME request.pc \in InRequest, key[1] \notin crossed
                   PROVE  /\ Active(named)'
                          /\ request.pc = "marking" /\ key[1] \notin {"ALM-056", "ALM-065"}
                               => slots'[key].severity # "CRITICAL" \/ slots'[key].acts \in 1 .. 2
      BY DEF TableInv, RequestStands, InRequest
    <3>2. key \in Instances /\ Active(named)
      BY <3>1 DEF TableInv, RequestStands, RequestOK
    <3>3. named \in Instances /\ (key[1] \notin {"ALM-056", "ALM-065"} => named = key)
      BY <3>2, NamedFacts DEF TableInv
    <3>4. \A j \in Instances : Active(j) => Active(j)'
      BY <2>6
    <3>5. Active(named)'
      BY <2>7, <3>2, <3>4, NamedStands DEF TableInv
    <3>6. request.pc = "marking" /\ key[1] \notin {"ALM-056", "ALM-065"}
            => slots'[key].severity # "CRITICAL" \/ slots'[key].acts \in 1 .. 2
      BY <2>6, <3>1, <3>2, <3>3 DEF TableInv, RequestStands
    <3>7. QED
      BY <3>5, <3>6
  <2>13. QED
    BY <2>4, <2>7, <2>8, <2>9, <2>10, <2>11, <2>12 DEF TableInv
<1>3. QED
  BY <1>1, <1>2

\* alert_manager_clear and alert_manager_clear_for_plug keep it in order for any
\* alarm but ALM-065, of which no caller takes one plug's occurrence back.
LEMMA WithdrawKeeps ==
    ASSUME TableInv, RequestOK, UNCHANGED request,
           NEW i \in Instances, i[1] # "ALM-065", Withdraw(i)
    PROVE  TableInv'
<1> DEFINE others == Rest(i[1], i)
           among == request.pc \in InRequest /\ request.key[1] = i[1]
<1>1. /\ slots' = [slots EXCEPT ![i] = Free]
      /\ stage' = [stage EXCEPT ![i] = "NONE"]
      /\ \E first \in IF head[i[1]] # i[2] THEN {head[i[1]]}
                       ELSE IF others = {} THEN {NoSlot} ELSE others :
           head' = [head EXCEPT ![i[1]] = first]
      /\ crossed' = IF among THEN crossed \cup {i[1]} ELSE crossed \ {i[1]}
  BY DEF Withdraw, Crosses
<1>2. PICK first \in IF head[i[1]] # i[2] THEN {head[i[1]]}
                      ELSE IF others = {} THEN {NoSlot} ELSE others :
           head' = [head EXCEPT ![i[1]] = first]
  BY <1>1
<1>3. i[1] \in Alarms /\ i[2] \in Plugs \cup {NoPlug} /\ i = <<i[1], i[2]>>
  BY InstanceParts
<1>4. TableTypeOK'
  <2>1. first \in Plugs \cup {NoPlug, NoSlot}
    BY <1>2, <1>3 DEF TableInv, TableTypeOK, Rest
  <2>2. QED
    BY <1>1, <1>2, <2>1 DEF TableInv, TableTypeOK, Stages
<1>5. /\ slots'[i] = Free /\ stage'[i] = "NONE"
      /\ \A j \in Instances : j # i => slots'[j] = slots[j] /\ stage'[j] = stage[j]
  BY <1>1 DEF TableInv, TableTypeOK
<1>6. HeadIsActive'
  <2> SUFFICES ASSUME NEW a \in Alarms
               PROVE  IF head'[a] # NoSlot
                      THEN <<a, head'[a]>> \in Instances /\ slots'[<<a, head'[a]>>] # Free
                      ELSE \A j \in Instances : j[1] = a => slots'[j] = Free
    BY DEF HeadIsActive, IsActive, Active
  <2>1. CASE a # i[1]
    <3>1. head'[a] = head[a]
      BY <1>2, <2>1 DEF TableInv, TableTypeOK
    <3>2. \A j \in Instances : j[1] = a => slots'[j] = slots[j]
      BY <1>5, <2>1
    <3>3. QED
      BY <3>1, <3>2 DEF TableInv, HeadIsActive, IsActive, Active
  <2>2. CASE a = i[1]
    <3>1. head'[a] = first
      BY <1>2, <1>3, <2>2 DEF TableInv, TableTypeOK
    <3>2. CASE head[a] # i[2] /\ head[a] # NoSlot
      <4>1. first = head[a]
        BY <1>2, <2>2, <3>2
      <4>2. <<a, first>> \in Instances /\ slots[<<a, first>>] # Free /\ <<a, first>> # i
        BY <1>3, <2>2, <3>2, <4>1 DEF TableInv, HeadIsActive, IsActive, Active
      <4>3. slots'[<<a, first>>] # Free
        BY <1>5, <4>2
      <4>4. QED
        BY <3>1, <3>2, <4>1, <4>2, <4>3
    <3>3. CASE head[a] # i[2] /\ head[a] = NoSlot
      <4>1. \A j \in Instances : j[1] = a => slots[j] = Free
        BY <3>3 DEF TableInv, HeadIsActive, IsActive, Active
      <4>2. \A j \in Instances : j[1] = a => slots'[j] = Free
        BY <1>5, <4>1
      <4>3. first = NoSlot
        BY <1>2, <2>2, <3>3
      <4>4. QED
        BY <3>1, <4>2, <4>3
    <3>4. CASE head[a] = i[2] /\ others = {}
      <4>1. \A j \in Instances : j[1] = a /\ j # i => slots[j] = Free
        <5> SUFFICES ASSUME NEW j \in Instances, j[1] = a, j # i, slots[j] # Free
                     PROVE  FALSE
          OBVIOUS
        <5>1. j = <<a, j[2]>> /\ j[2] \in Plugs \cup {NoPlug}
          BY InstanceParts
        <5>2. j[2] \in others
          BY <2>2, <5>1 DEF Active, Rest
        <5>3. QED
          BY <3>4, <5>2
      <4>2. first = NoSlot
        BY <1>2, <2>2, <3>4
      <4>3. QED
        BY <1>5, <3>1, <4>1, <4>2
    <3>5. CASE head[a] = i[2] /\ others # {}
      <4>1. first \in others
        BY <1>2, <2>2, <3>5
      <4>2. <<a, first>> \in Instances \ {i} /\ slots[<<a, first>>] # Free
        BY <2>2, <4>1 DEF Active, Rest
      <4>3. slots'[<<a, first>>] # Free
        BY <1>5, <4>2
      <4>4. first # NoSlot
        BY <4>1, InstanceParts DEF Rest
      <4>5. QED
        BY <3>1, <4>2, <4>3, <4>4
    <3>6. QED
      BY <3>2, <3>3, <3>4, <3>5
  <2>3. QED
    BY <2>1, <2>2
<1>7. LoadNeverCritical'
  <2> SUFFICES ASSUME NEW j \in Instances, j[1] = "ALM-056"
               PROVE  slots'[j].severity # "CRITICAL" /\ stage'[j] = "NONE"
    BY DEF LoadNeverCritical
  <2>1. QED
    BY <1>5, OccurrenceFacts DEF TableInv, LoadNeverCritical
<1>8. ASSUME NEW j \in Instances, j # i, j[1] \notin crossed'
      PROVE  \/ j[1] # i[1] /\ j[1] \notin crossed
             \/ slots[j].severity # "CRITICAL" /\ stage[j] = "NONE" /\ j[1] = "ALM-056"
  <2>1. CASE j[1] # i[1]
    BY <1>1, <1>8, <2>1
  <2>2. CASE j[1] = i[1]
    <3>1. j = <<j[1], j[2]>> /\ (i[1] # "ALM-056" => i[2] = NoPlug /\ j[2] = NoPlug)
      BY <2>2, InstanceParts
    <3>2. i[1] = "ALM-056"
      BY <1>3, <1>8, <2>2, <3>1
    <3>3. QED
      BY <2>2, <3>2 DEF TableInv, LoadNeverCritical
  <2>3. QED
    BY <2>1, <2>2
<1>9. StageFollowsAlarm'
  <2> SUFFICES ASSUME NEW k \in Instances, stage'[k] # "NONE", k[1] \notin crossed'
               PROVE  \E j \in Instances :
                        /\ j[1] = k[1]
                        /\ k[2] # NoPlug => j = k
                        /\ slots'[j] # Free
                        /\ stage'[k] = "CONFIRMED"
                             => slots'[j].acked \/ (request.pc = "marking" /\ request.key = k)
    BY DEF StageFollowsAlarm, Active
  <2>1. k # i /\ stage'[k] = stage[k]
    BY <1>5
  <2>2. k[1] # i[1] /\ k[1] \notin crossed
    BY <1>8, <2>1
  <2>3. PICK j \in Instances :
               /\ j[1] = k[1]
               /\ k[2] # NoPlug => j = k
               /\ slots[j] # Free
               /\ stage[k] = "CONFIRMED"
                    => slots[j].acked \/ (request.pc = "marking" /\ request.key = k)
    BY <2>1, <2>2 DEF TableInv, StageFollowsAlarm, Active
  <2>4. slots'[j] = slots[j]
    BY <1>5, <2>2, <2>3
  <2>5. QED
    BY <2>1, <2>3, <2>4
<1>10. FirstCounted'
  BY <1>5, <1>8 DEF TableInv, FirstCounted
<1>11. DoubleAck'
  BY <1>5, <1>8, OccurrenceFacts DEF TableInv, DoubleAck
<1>12. RequestStands'
  <2> DEFINE key == request.key
             named == Named(key[1], key[2])
  <2>1. SUFFICES ASSUME request.pc \in InRequest, key[1] \notin crossed'
                 PROVE  /\ Active(named)'
                        /\ request.pc = "marking" /\ key[1] \notin {"ALM-056", "ALM-065"}
                             => slots'[key].severity # "CRITICAL" \/ slots'[key].acts \in 1 .. 2
    BY DEF TableInv, RequestStands, InRequest
  <2>2. key[1] # i[1] /\ key[1] \notin crossed
    BY <1>1, <2>1
  <2>3. key \in Instances /\ Active(named)
    BY <2>1, <2>2 DEF TableInv, RequestStands, RequestOK
  <2>4. \A j \in Instances : j[1] = key[1] => slots'[j] = slots[j]
    BY <1>5, <2>2
  <2>5. Active(named)'
    BY <1>6, <2>3, <2>4, NamedStands DEF TableInv, Active
  <2>6. QED
    BY <2>1, <2>2, <2>3, <2>4, <2>5 DEF TableInv, RequestStands
<1>13. QED
  BY <1>4, <1>6, <1>7, <1>9, <1>10, <1>11, <1>12 DEF TableInv

\* After an alarm the handler is out of the table.
LEMMA HandedOn ==
    ASSUME NEW i, NEW ok, NEW rest, Answered(i, ok, rest) \/ Proceed(rest)
    PROVE  request'.pc \notin InRequest
BY DEF Answered, Proceed, Serving, Idle, InRequest

\* The lookup that opens a request on an alarm.
LEMMA LookUpKeeps ==
    ASSUME TableInv, RequestOK, NEW i \in Instances, LookUp(i)
    PROVE  TableInv'
<1> DEFINE named == Named(i[1], i[2])
           rest == request.todo \ {i}
           pc == IF slots[named].severity = "CRITICAL" THEN "staging" ELSE "marking"
<1>1. UNCHANGED <<slots, head, stage, crossed>> /\ request.pc = "validated"
  BY DEF LookUp, alarmTable
<1>2. CASE ~Active(named)
  <2>1. Answered(i, FALSE, rest)
    BY <1>2 DEF LookUp
  <2>2. request'.pc \notin InRequest /\ request.pc \notin InRequest
    BY <1>1, <2>1, HandedOn DEF InRequest
  <2>3. QED
    BY <1>1, <2>2, TableUntouched DEF alarmTable
<1>3. CASE Active(named)
  <2>1. request'.pc = pc /\ request'.key = i
    BY <1>3 DEF LookUp, Serving
  <2>2. TableTypeOK' /\ HeadIsActive' /\ LoadNeverCritical' /\ FirstCounted' /\ DoubleAck'
    BY <1>1 DEF TableInv, TableTypeOK, HeadIsActive, LoadNeverCritical, FirstCounted, DoubleAck,
                Active, IsActive
  <2>3. StageFollowsAlarm'
    BY <1>1 DEF TableInv, StageFollowsAlarm, Active
  <2>4. named \in Instances /\ named[1] = i[1] /\ (i[1] \notin {"ALM-056", "ALM-065"} => named = i)
    BY NamedFacts DEF TableInv
  <2>5. pc = "staging" => i[1] # "ALM-056"
    BY <2>4 DEF TableInv, LoadNeverCritical
  <2>6. Active(named)'
    BY <1>1, <1>3 DEF Named, Active, IsActive
  <2>7. RequestStands'
    BY <1>1, <2>1, <2>4, <2>5, <2>6 DEF RequestStands
  <2>8. QED
    BY <2>2, <2>3, <2>7 DEF TableInv
<1>4. QED
  BY <1>2, <1>3

\* A request acts upon the occurrence that a key names, if it is there: what it
\* changes of it is how often it was acted upon and, perhaps, that it is acknowledged.
LEMMA ActsKeep ==
    ASSUME TableInv, NEW key \in Instances,
           NEW occurrence,
           \/ occurrence = Acted(slots[Named(key[1], key[2])])
           \/ occurrence = Acked(slots[Named(key[1], key[2])]),
           Active(Named(key[1], key[2])),
           slots' = [slots EXCEPT ![Named(key[1], key[2])] = occurrence],
           UNCHANGED <<head, crossed>>
    PROVE  /\ slots' \in [Instances -> Occurrences \cup {Free}]
           /\ HeadIsActive'
           /\ slots'[Named(key[1], key[2])] = occurrence
           /\ occurrence.acts \in 1 .. 2
           /\ slots[Named(key[1], key[2])].acts \in 1 .. 2 => occurrence.acts = 2
           /\ \A j \in Instances : /\ Active(j)' <=> Active(j)
                                   /\ slots'[j].severity = slots[j].severity
                                   /\ slots[j].acked => slots'[j].acked
                                   /\ j # Named(key[1], key[2]) => slots'[j] = slots[j]
<1> DEFINE named == Named(key[1], key[2])
<1>1. named \in Instances /\ slots[named] \in Occurrences
  BY NamedFacts DEF TableInv, TableTypeOK, Active
<1>2. /\ occurrence \in Occurrences
      /\ occurrence.severity = slots[named].severity
      /\ slots[named].acked => occurrence.acked
      /\ occurrence.acts \in 1 .. 2
      /\ slots[named].acts \in 1 .. 2 => occurrence.acts = 2
      /\ occurrence # Free
  BY <1>1, OccurrenceFacts
<1>3. slots'[named] = occurrence /\ \A j \in Instances : j # named => slots'[j] = slots[j]
  BY <1>1 DEF TableInv, TableTypeOK
<1>4. slots' \in [Instances -> Occurrences \cup {Free}]
  BY <1>1, <1>2 DEF TableInv, TableTypeOK
<1>5. \A j \in Instances : /\ Active(j)' <=> Active(j)
                           /\ slots'[j].severity = slots[j].severity
                           /\ slots[j].acked => slots'[j].acked
  BY <1>2, <1>3 DEF Active
<1>6. HeadIsActive'
  BY <1>5 DEF TableInv, HeadIsActive, IsActive
<1>7. QED
  BY <1>2, <1>3, <1>4, <1>5, <1>6

\* The record of a double acknowledgement takes its next stage.
LEMMA RecordStageKeeps ==
    ASSUME TableInv, RequestOK, RecordStage
    PROVE  TableInv'
<1> DEFINE key == request.key
           named == Named(key[1], key[2])
<1>1. /\ request.pc = "staging" /\ key \in Instances /\ key[1] # "ALM-056"
      /\ UNCHANGED <<head, crossed>>
  BY DEF RecordStage, RequestOK, InRequest, TableInv, RequestStands
<1>2. /\ named \in Instances
      /\ named[1] = key[1]
      /\ key[2] # NoPlug => named = key
      /\ key[1] \notin {"ALM-056", "ALM-065"} => named = key
  BY <1>1, NamedFacts DEF TableInv
<1>3. key[1] \notin crossed => Active(named)
  BY <1>1 DEF TableInv, RequestStands, InRequest
<1>4. CASE /\ stage' = [stage EXCEPT ![key] = "FIRST"]
           /\ slots' = IF Active(named) THEN [slots EXCEPT ![named] = Acted(@)] ELSE slots
           /\ request'.pc \notin InRequest
  <2>1. /\ slots' \in [Instances -> Occurrences \cup {Free}]
        /\ HeadIsActive'
        /\ Active(named) => slots'[named].acts \in 1 .. 2
        /\ \A j \in Instances : /\ Active(j)' <=> Active(j)
                                /\ slots'[j].severity = slots[j].severity
                                /\ slots[j].acked => slots'[j].acked
                                /\ j # named => slots'[j] = slots[j]
        /\ slots[named].acts = 2 => slots'[named].acts = 2
        /\ Active(named) => slots'[named].acked = slots[named].acked
    <3>1. CASE ~Active(named)
      BY <1>1, <1>4, <3>1 DEF TableInv, TableTypeOK, HeadIsActive, IsActive, Active
    <3>2. CASE Active(named)
      <4>1. slots' = [slots EXCEPT ![named] = Acted(slots[named])]
        BY <1>4, <3>2
      <4>2. slots[named] \in Occurrences
        BY <1>2, <3>2 DEF TableInv, TableTypeOK, Active
      <4>3. Acted(slots[named]).acked = slots[named].acked
        BY <4>2, OccurrenceFacts
      <4>4. /\ slots' \in [Instances -> Occurrences \cup {Free}]
            /\ HeadIsActive'
            /\ slots'[named] = Acted(slots[named])
            /\ Acted(slots[named]).acts \in 1 .. 2
            /\ slots[named].acts \in 1 .. 2 => Acted(slots[named]).acts = 2
            /\ \A j \in Instances : /\ Active(j)' <=> Active(j)
                                    /\ slots'[j].severity = slots[j].severity
                                    /\ slots[j].acked => slots'[j].acked
                                    /\ j # named => slots'[j] = slots[j]
        BY <1>1, <3>2, <4>1, ActsKeep
      <4>5. QED
        BY <4>3, <4>4
    <3>3. QED
      BY <3>1, <3>2
  <2>2. stage'[key] = "FIRST" /\ \A j \in Instances : j # key => stage'[j] = stage[j]
    BY <1>1, <1>4 DEF TableInv, TableTypeOK
  <2>3. TableTypeOK'
    BY <1>1, <1>4, <2>1 DEF TableInv, TableTypeOK, Stages
  <2>4. LoadNeverCritical'
    BY <1>1, <2>1, <2>2 DEF TableInv, LoadNeverCritical
  <2>5. StageFollowsAlarm'
    <3> SUFFICES ASSUME NEW k \in Instances, stage'[k] # "NONE", k[1] \notin crossed
                 PROVE  \E j \in Instances : /\ j[1] = k[1]
                                             /\ k[2] # NoPlug => j = k
                                             /\ Active(j)'
                                             /\ stage'[k] = "CONFIRMED" => slots'[j].acked
      BY <1>1 DEF StageFollowsAlarm
    <3>1. CASE k = key
      BY <1>2, <1>3, <2>1, <2>2, <3>1
    <3>2. CASE k # key
      <4>1. PICK j \in Instances : /\ j[1] = k[1]
                                   /\ k[2] # NoPlug => j = k
                                   /\ Active(j)
                                   /\ stage[k] = "CONFIRMED" => slots[j].acked
        BY <1>1, <2>2, <3>2 DEF TableInv, StageFollowsAlarm
      <4>2. QED
        BY <2>1, <2>2, <3>2, <4>1
    <3>3. QED
      BY <3>1, <3>2
  <2>6. FirstCounted'
    <3> SUFFICES ASSUME NEW j \in Instances, j[1] \notin {"ALM-056", "ALM-065"},
                        j[1] \notin crossed, stage'[j] = "FIRST"
                 PROVE  slots'[j].acts \in 1 .. 2
      BY <1>1 DEF FirstCounted
    <3>1. CASE j = key
      BY <1>2, <1>3, <2>1, <3>1
    <3>2. CASE j # key
      <4>1. j # named \/ (named = j /\ Active(named))
        BY <1>1, <1>2, <2>2, <3>2 DEF TableInv, FirstCounted
      <4>2. CASE j # named
        BY <2>1, <2>2, <3>2, <4>2 DEF TableInv, FirstCounted
      <4>3. CASE j = named
        BY <1>2, <3>2, <4>3
      <4>4. QED
        BY <4>2, <4>3
    <3>3. QED
      BY <3>1, <3>2
  <2>7. DoubleAck'
    <3> SUFFICES ASSUME NEW j \in Instances \ ({"ALM-065"} \X (Plugs \cup {NoPlug})),
                        slots'[j].severity = "CRITICAL", slots'[j].acked, j[1] \notin crossed
                 PROVE  slots'[j].acts = 2
      BY <1>1 DEF DoubleAck
    <3>1. CASE j # named \/ ~Active(named)
      <4>1. slots'[j] = slots[j]
        BY <1>4, <2>1, <3>1
      <4>2. QED
        BY <4>1 DEF TableInv, DoubleAck
    <3>2. CASE j = named /\ Active(named)
      <4>1. slots[j].severity = "CRITICAL" /\ slots[j].acked
        BY <2>1, <3>2
      <4>2. QED
        BY <2>1, <3>2, <4>1 DEF TableInv, DoubleAck
    <3>3. QED
      BY <3>1, <3>2
  <2>8. RequestStands'
    BY <1>4 DEF RequestStands, InRequest
  <2>9. QED
    BY <2>1, <2>3, <2>4, <2>5, <2>6, <2>7, <2>8 DEF TableInv
<1>5. CASE /\ stage[key] = "FIRST"
           /\ stage' = [stage EXCEPT ![key] = "CONFIRMED"]
           /\ request' = [request EXCEPT !.pc = "marking"]
           /\ UNCHANGED slots
  <2>1. request'.pc = "marking" /\ request'.key = key
    BY <1>5 DEF RequestOK, AckRequests
  <2>2. stage'[key] = "CONFIRMED" /\ \A j \in Instances : j # key => stage'[j] = stage[j]
    BY <1>1, <1>5 DEF TableInv, TableTypeOK
  <2>3. TableTypeOK' /\ HeadIsActive' /\ DoubleAck'
    BY <1>1, <1>5 DEF TableInv, TableTypeOK, HeadIsActive, DoubleAck, Stages, Active, IsActive
  <2>4. LoadNeverCritical'
    BY <1>1, <1>5, <2>2 DEF TableInv, LoadNeverCritical
  <2>5. StageFollowsAlarm'
    <3> SUFFICES ASSUME NEW k \in Instances, stage'[k] # "NONE", k[1] \notin crossed
                 PROVE  \E j \in Instances : /\ j[1] = k[1]
                                             /\ k[2] # NoPlug => j = k
                                             /\ Active(j)'
                                             /\ stage'[k] = "CONFIRMED"
                                                  => slots'[j].acked \/ k = key
      BY <1>1, <2>1 DEF StageFollowsAlarm
    <3>1. stage[k] # "NONE" /\ (k # key => stage'[k] = stage[k])
      BY <1>5, <2>2
    <3>2. PICK j \in Instances : /\ j[1] = k[1]
                                 /\ k[2] # NoPlug => j = k
                                 /\ Active(j)
                                 /\ stage[k] = "CONFIRMED" => slots[j].acked
      BY <1>1, <3>1 DEF TableInv, StageFollowsAlarm
    <3>3. QED
      BY <1>5, <3>1, <3>2 DEF Active
  <2>6. FirstCounted'
    BY <1>1, <1>5, <2>2 DEF TableInv, FirstCounted
  <2>7. RequestStands'
    <3>1. key[1] \notin crossed => Active(named)'
      BY <1>1, <1>3, <1>5 DEF Named, Active, IsActive
    <3>2. key[1] \notin {"ALM-056", "ALM-065"} \cup crossed => slots'[key].acts \in 1 .. 2
      BY <1>1, <1>5 DEF TableInv, FirstCounted
    <3>3. QED
      BY <1>1, <2>1, <3>1, <3>2 DEF RequestStands
  <2>8. QED
    BY <2>3, <2>4, <2>5, <2>6, <2>7 DEF TableInv
<1>6. CASE UNCHANGED <<slots, stage>> /\ request'.pc \notin InRequest
  <2>1. /\ TableTypeOK' /\ HeadIsActive' /\ LoadNeverCritical' /\ FirstCounted' /\ DoubleAck'
    BY <1>1, <1>6 DEF TableInv, TableTypeOK, HeadIsActive, LoadNeverCritical, FirstCounted,
                      DoubleAck, Active, IsActive
  <2>2. StageFollowsAlarm' /\ RequestStands'
    BY <1>1, <1>6 DEF TableInv, StageFollowsAlarm, RequestStands, Active, InRequest
  <2>3. QED
    BY <2>1, <2>2 DEF TableInv
<1>7. QED
  BY <1>4, <1>5, <1>6, HandedOn DEF RecordStage

\* The alarm is marked, when it is still there.
LEMMA MarkKeeps ==
    ASSUME TableInv, RequestOK, Mark
    PROVE  TableInv'
<1> DEFINE key == request.key
           named == Named(key[1], key[2])
<1>1. /\ request.pc = "marking" /\ key \in Instances
      /\ UNCHANGED <<head, stage, crossed>>
      /\ slots' = IF Active(named) THEN [slots EXCEPT ![named] = Acked(slots[named])] ELSE slots
      /\ Answered(key, Active(named), request.todo)
  BY DEF Mark, RequestOK, InRequest
<1>2. request'.pc \notin InRequest
  BY <1>1, HandedOn
<1>3. /\ named \in Instances
      /\ named[1] = key[1]
      /\ key[2] # NoPlug => named = key
      /\ key[1] \notin {"ALM-056", "ALM-065"} => named = key
  BY <1>1, NamedFacts DEF TableInv
<1>4. key[1] \notin crossed => Active(named)
  BY <1>1 DEF TableInv, RequestStands, InRequest
<1>5. /\ slots' \in [Instances -> Occurrences \cup {Free}]
      /\ HeadIsActive'
      /\ Active(named) => slots'[named].acked
      /\ Active(named) /\ slots[named].acts \in 1 .. 2 => slots'[named].acts = 2
      /\ slots[named].acts = 2 => slots'[named].acts = 2
      /\ \A j \in Instances : /\ Active(j)' <=> Active(j)
                              /\ slots'[j].severity = slots[j].severity
                              /\ slots[j].acked => slots'[j].acked
                              /\ j # named => slots'[j] = slots[j]
      /\ slots[named].acts \in 1 .. 2 => slots'[named].acts \in 1 .. 2
  <2>1. CASE ~Active(named)
    BY <1>1, <2>1 DEF TableInv, TableTypeOK, HeadIsActive, IsActive, Active
  <2>2. CASE Active(named)
    <3>1. slots' = [slots EXCEPT ![named] = Acked(slots[named])]
      BY <1>1, <2>2
    <3>2. slots[named] \in Occurrences
      BY <1>3, <2>2 DEF TableInv, TableTypeOK, Active
    <3>3. Acked(slots[named]).acked
      BY <3>2, OccurrenceFacts
    <3>4. /\ slots' \in [Instances -> Occurrences \cup {Free}]
          /\ HeadIsActive'
          /\ slots'[named] = Acked(slots[named])
          /\ slots[named].acts \in 1 .. 2 => Acked(slots[named]).acts = 2
          /\ \A j \in Instances : /\ Active(j)' <=> Active(j)
                                  /\ slots'[j].severity = slots[j].severity
                                  /\ slots[j].acked => slots'[j].acked
                                  /\ j # named => slots'[j] = slots[j]
      BY <1>1, <2>2, <3>1, ActsKeep
    <3>5. QED
      BY <3>3, <3>4
  <2>3. QED
    BY <2>1, <2>2
<1>6. TableTypeOK' /\ LoadNeverCritical'
  BY <1>1, <1>5 DEF TableInv, TableTypeOK, LoadNeverCritical
<1>7. StageFollowsAlarm'
  <2> SUFFICES ASSUME NEW k \in Instances, stage[k] # "NONE", k[1] \notin crossed
               PROVE  \E j \in Instances : /\ j[1] = k[1]
                                           /\ k[2] # NoPlug => j = k
                                           /\ Active(j)'
                                           /\ stage[k] = "CONFIRMED" => slots'[j].acked
    BY <1>1 DEF StageFollowsAlarm
  <2>1. CASE k = key
    BY <1>3, <1>4, <1>5, <2>1
  <2>2. CASE k # key
    <3>1. PICK j \in Instances : /\ j[1] = k[1]
                                 /\ k[2] # NoPlug => j = k
                                 /\ Active(j)
                                 /\ stage[k] = "CONFIRMED" => slots[j].acked
      BY <2>2 DEF TableInv, StageFollowsAlarm
    <3>2. QED
      BY <1>5, <3>1
  <2>3. QED
    BY <2>1, <2>2
<1>8. FirstCounted'
  <2> SUFFICES ASSUME NEW j \in Instances, j[1] \notin {"ALM-056", "ALM-065"},
                      j[1] \notin crossed, stage[j] = "FIRST"
               PROVE  slots'[j].acts \in 1 .. 2
    BY <1>1 DEF FirstCounted
  <2>1. slots[j].acts \in 1 .. 2
    BY DEF TableInv, FirstCounted
  <2>2. QED
    BY <1>5, <2>1
<1>9. DoubleAck'
  <2> SUFFICES ASSUME NEW j \in Instances \ ({"ALM-065"} \X (Plugs \cup {NoPlug})),
                      slots'[j].severity = "CRITICAL", slots'[j].acked, j[1] \notin crossed
               PROVE  slots'[j].acts = 2
    BY <1>1 DEF DoubleAck
  <2>1. CASE j # named \/ ~Active(named)
    <3>1. slots'[j] = slots[j]
      BY <1>1, <1>5, <2>1
    <3>2. QED
      BY <3>1 DEF TableInv, DoubleAck
  <2>2. CASE j = named /\ Active(named)
    <3>1. slots[j].severity = "CRITICAL"
      BY <1>5
    <3>2. key[1] # "ALM-065" /\ key[1] # "ALM-056" /\ key[1] \notin crossed
      BY <1>3, <2>2, <3>1, InstanceParts DEF TableInv, LoadNeverCritical
    <3>3. slots[key].acts \in 1 .. 2
      BY <1>1, <1>3, <2>2, <3>1, <3>2 DEF TableInv, RequestStands
    <3>4. QED
      BY <1>3, <1>5, <2>2, <3>2, <3>3
  <2>3. QED
    BY <2>1, <2>2
<1>10. RequestStands'
  BY <1>2 DEF RequestStands, InRequest
<1>11. QED
  BY <1>5, <1>6, <1>7, <1>8, <1>9, <1>10 DEF TableInv

-----------------------------------------------------------------------------------
(* The mode, and what the steps do to the table.                            *)

\* A SAFE_OFF has a cause, one of three alarms (safeoff_reason_to_alm_id).
CauseKnown ==
    /\ cause \in {None, "ALM-026", "ALM-028", "ALM-060"}
    /\ alertMode = "SAFE_OFF" => cause # None
    /\ alertMode = "EMERGENCY" => "ALM-028" \in Alarms

ModeTypeOK ==
    /\ plant \in Plants
    /\ alertMode \in {"RUN", "SAFE_OFF", "EMERGENCY"}
    /\ alertSource \in Alarms \cup {None}
    /\ cause \in Alarms \cup {None}
    /\ ackedSafeoff \in BOOLEAN
    /\ ackedEmergency \in BOOLEAN
    /\ lastThermal \in Alarms \cup {None}

AckInv ==
    /\ ModeTypeOK
    /\ CauseKnown
    /\ TableInv
    /\ RequestOK
    /\ crossed \subseteq Alarms

\* No step of any task takes the table out of order.
LEMMA TableStays == AckInv /\ [AckNext]_ackVars => TableInv'
<1> SUFFICES ASSUME AckInv, [AckNext]_ackVars PROVE TableInv'
  OBVIOUS
<1> USE DEF AckInv
<1>1. plant \subseteq Alarms /\ None \notin Alarms
  BY AlarmsAssumption DEF ModeTypeOK, None, AllAlarms
<1>2. ASSUME UNCHANGED <<alarmTable, request, crossed>> PROVE TableInv'
  BY <1>2, TableUntouched
<1>3. ASSUME NEW alm \in Alarms \ {"ALM-056"}, NEW severity \in {"WARNING", "HIGH", "CRITICAL"},
             NEW required \in BOOLEAN, Raise(alm, NoPlug, severity, required),
             UNCHANGED <<request, crossed>>
      PROVE  TableInv'
  BY <1>3, RaiseKeeps, InstanceParts
<1>4. CASE Overheat \/ Extreme \/ ExitEmergency \/ ExitSafeoff
  BY <1>2, <1>4 DEF Overheat, Extreme, ExitEmergency, ExitSafeoff
<1>5. CASE RaiseCause
  <2>1. cause \in Alarms \ {"ALM-056"}
    BY <1>5 DEF RaiseCause, CauseKnown, ModeTypeOK
  <2>2. QED
    BY <1>3, <1>5, <2>1 DEF RaiseCause
<1>6. CASE "ALM-043" \in plant /\ (HangCritical \/ HangOther)
  BY <1>1, <1>3, <1>6 DEF HangCritical, HangOther
<1>7. CASE "ALM-043" \in plant /\ HangOver
  <2>1. <<"ALM-043", head["ALM-043"]>> \in Instances
    BY <1>1, <1>7 DEF HangOver, TableInv, HeadIsActive
  <2>2. QED
    BY <1>7, <2>1, WithdrawKeeps DEF HangOver
<1>8. CASE ThermalGone
  <2> DEFINE i == Named(lastThermal, NoPlug)
  <2>1. CASE lastThermal = "ALM-015" /\ Withdraw(i)
    <3>1. <<"ALM-015", NoPlug>> \in Instances
      BY <1>8, <2>1, InstanceParts DEF ThermalGone, ModeTypeOK, None
    <3>2. i \in Instances /\ i[1] = "ALM-015"
      BY <2>1, <3>1, NamedFacts DEF TableInv
    <3>3. QED
      BY <1>8, <2>1, <3>2, WithdrawKeeps DEF ThermalGone
  <2>2. QED
    BY <1>2, <1>8, <2>1 DEF ThermalGone
<1>9. CASE \E alm \in plant \cap {"ALM-015", "ALM-026", "ALM-028"} : ThermalRaised(alm)
  BY <1>1, <1>3, <1>9 DEF ThermalRaised
<1>10. CASE "ALM-046" \in plant /\ Escalate
  BY <1>1, <1>3, <1>10 DEF Escalate
<1>11. CASE "ALM-056" \in plant /\ \E plug \in Plugs : LoadFault(plug) \/ LoadOn(plug)
  <2>1. ASSUME NEW plug \in Plugs, LoadFault(plug) PROVE TableInv'
    <3>1. <<"ALM-056", plug>> \in Instances
      BY <1>1, <1>11, InstanceParts
    <3>2. QED
      BY <1>1, <1>11, <2>1, <3>1, RaiseKeeps DEF LoadFault
  <2>2. ASSUME NEW plug \in Plugs, LoadOn(plug) PROVE TableInv'
    <3>1. <<"ALM-056", plug>> \in Instances
      BY <1>1, <1>11, InstanceParts
    <3>2. QED
      BY <2>2, <3>1, WithdrawKeeps DEF LoadOn
  <2>3. QED
    BY <1>11, <2>1, <2>2
<1>12. CASE PlugSwitched
  <2>1. ASSUME NEW plug \in Plugs, CriticalPlugOff(plug) PROVE TableInv'
    <3>1. <<"ALM-065", plug>> \in Instances
      BY <1>1, <1>12, InstanceParts DEF PlugSwitched
    <3>2. QED
      BY <1>1, <1>12, <2>1, <3>1, RaiseKeeps DEF CriticalPlugOff, PlugSwitched
  <2>2. QED
    BY <1>12, <2>1 DEF PlugSwitched
<1>13. CASE (\E i \in Instances : AckAlert(i)) \/ AckAll \/ Judge \/ Store
  <2>1. UNCHANGED <<alarmTable, crossed>> /\ request.pc \notin InRequest
    BY <1>13 DEF AckAlert, AckAll, Judge, Store, InRequest
  <2>2. request'.pc \notin InRequest
    BY <1>13, HandedOn DEF AckAlert, AckAll, Judge, Store, Serving, InRequest
  <2>3. QED
    BY <2>1, <2>2, TableUntouched
<1>14. CASE (\E i \in Instances : LookUp(i)) \/ RecordStage \/ Mark
  BY <1>14, LookUpKeeps, RecordStageKeeps, MarkKeeps
<1>15. CASE UNCHANGED ackVars
  BY <1>2, <1>15 DEF ackVars
<1>16. QED
  BY <1>4, <1>5, <1>6, <1>7, <1>8, <1>9, <1>10, <1>11, <1>12, <1>13, <1>14, <1>15
     DEF AckNext, AlarmTask, Handler

\* Every step keeps the types of the mode and of the acknowledgements, and
\* gives a SAFE_OFF its cause.
LEMMA ModeStays == AckInv /\ [AckNext]_ackVars => ModeTypeOK' /\ CauseKnown'
<1> SUFFICES ASSUME AckInv, [AckNext]_ackVars PROVE ModeTypeOK' /\ CauseKnown'
  OBVIOUS
<1> USE DEF AckInv, ModeTypeOK, CauseKnown
<1>1. plant \subseteq Alarms /\ None \notin Alarms /\ plant' = plant
  BY AlarmsAssumption DEF None, AllAlarms, AckNext, ackVars
<1>2. ASSUME UNCHANGED <<alertState, flags>>, lastThermal' \in Alarms \cup {None}
      PROVE  ModeTypeOK' /\ CauseKnown'
  BY <1>1, <1>2 DEF alertState, flags
<1>3. ASSUME NEW alm \in Alarms, NEW reasonAlm \in {"ALM-026", "ALM-028", "ALM-060"} \cap Alarms,
             EntersSafeoff(alm, reasonAlm), UNCHANGED lastThermal
      PROVE  ModeTypeOK' /\ CauseKnown'
  BY <1>1, <1>3 DEF EntersSafeoff, alertState, flags, None
<1>4. CASE "ALM-026" \in plant /\ Overheat
  BY <1>1, <1>3, <1>4 DEF Overheat
<1>5. CASE ExitEmergency
  BY <1>1, <1>3, <1>5 DEF ExitEmergency
<1>6. CASE {"ALM-043", "ALM-060"} \subseteq plant /\ HangCritical
  BY <1>1, <1>3, <1>6 DEF HangCritical
<1>7. CASE "ALM-028" \in plant /\ Extreme
  BY <1>1, <1>7 DEF Extreme
<1>8. CASE ExitSafeoff
  BY <1>1, <1>8 DEF ExitSafeoff, flags
<1>9. CASE \/ RaiseCause \/ HangOther \/ HangOver \/ Escalate
           \/ \E plug \in Plugs : LoadFault(plug) \/ LoadOn(plug) \/ CriticalPlugOff(plug)
  BY <1>2, <1>9 DEF RaiseCause, HangOther, HangOver, Escalate, LoadFault, LoadOn, CriticalPlugOff
<1>10. CASE ThermalGone \/ \E alm \in plant : ThermalRaised(alm)
  BY <1>1, <1>2, <1>10 DEF ThermalGone, ThermalRaised
<1>11. CASE \/ \E i \in Instances : AckAlert(i) \/ LookUp(i)
            \/ AckAll \/ RecordStage \/ Mark \/ Judge
  BY <1>2, <1>11 DEF AckAlert, LookUp, AckAll, RecordStage, Mark, Judge
<1>12. CASE Store
  <2>1. ackedEmergency' \in BOOLEAN
    BY <1>12, Zenon DEF Store
  <2>2. QED
    BY <1>1, <1>12, <2>1 DEF Store, alertState
<1>13. CASE UNCHANGED ackVars
  BY <1>2, <1>13 DEF ackVars
<1>14. QED
  BY <1>4, <1>5, <1>6, <1>7, <1>8, <1>9, <1>10, <1>11, <1>12, <1>13
     DEF AckNext, AlarmTask, PlugSwitched, Handler

\* What the handler of a request remembers at each of its points.
LEMMA RequestsBuilt ==
    ASSUME NEW local \in BOOLEAN, NEW todo \in SUBSET Instances,
           NEW key \in Instances \cup {NoKey}, NEW verdict \in {None, "all", "source"},
           NEW pc \in {"validated", "staging", "marking", "acknowledged", "evaluated"},
           pc = "validated" => todo # {} /\ key = NoKey /\ verdict = None,
           pc \in InRequest \cup {"acknowledged"} => key \in Instances,
           pc = "evaluated" => verdict # None
    PROVE  request' = Serving(pc, local, todo, key, verdict) => RequestOK'
<1>1. Serving(pc, local, todo, key, verdict) \in AckRequests
  BY DEF Serving, AckRequests, InRequest
<1>2. QED
  BY <1>1 DEF RequestOK, Serving

LEMMA IdleBuilt == request' = Idle => RequestOK'
<1>1. Idle \in AckRequests /\ Idle.pc = "idle"
  BY DEF Idle, Serving, AckRequests
<1>2. QED
  BY <1>1 DEF RequestOK, InRequest

\* A handler never forgets where it is: every step leaves a well-formed request.
LEMMA RequestStays == AckInv /\ [AckNext]_ackVars => RequestOK'
<1> SUFFICES ASSUME AckInv, [AckNext]_ackVars PROVE RequestOK'
  OBVIOUS
<1>1. CASE UNCHANGED request
  BY <1>1 DEF AckInv, RequestOK
<1>2. /\ request.local \in BOOLEAN
      /\ request.todo \in SUBSET Instances
      /\ request.pc \in InRequest \cup {"acknowledged"} => request.key \in Instances
  BY DEF AckInv, RequestOK, AckRequests
<1>3. ASSUME NEW rest \in SUBSET Instances, Proceed(rest)
      PROVE  RequestOK'
  BY <1>2, <1>3, IdleBuilt, RequestsBuilt DEF Proceed, InRequest
<1>4. ASSUME NEW i \in Instances, NEW ok, NEW rest \in SUBSET Instances, Answered(i, ok, rest)
      PROVE  RequestOK'
  BY <1>2, <1>3, <1>4, RequestsBuilt DEF Answered
<1>5. ASSUME NEW i \in Instances, AckAlert(i) PROVE RequestOK'
  BY <1>5, RequestsBuilt DEF AckAlert, InRequest
<1>6. CASE AckAll
  <2>1. PICK i \in Instances : Active(i)
    BY <1>6 DEF AckAll
  <2>2. slots \in [Instances -> Occurrences \cup {Free}] /\ plant \in Plants
    BY DEF AckInv, ModeTypeOK, TableInv, TableTypeOK
  <2> DEFINE active == {j \in Instances : Active(j)}
             numbers == plant \X {NoPlug}
  <2>3. active \in SUBSET Instances /\ active # {}
    BY <2>1
  <2>4. numbers \in SUBSET Instances
    BY <2>2, AlarmsAssumption DEF Instances
  <2>5. numbers # {}
    <3>1. PICK alm : alm \in plant
      BY <2>2, AlarmsAssumption
    <3>2. <<alm, NoPlug>> \in numbers
      BY <3>1
    <3>3. QED
      BY <3>2
  <2>6. ASSUME NEW local \in BOOLEAN, request' = Serving("validated", local, active, NoKey, None)
        PROVE  RequestOK'
    BY <2>3, <2>6, RequestsBuilt DEF InRequest
  <2>7. ASSUME request' = Serving("validated", FALSE, numbers, NoKey, None)
        PROVE  RequestOK'
    BY <2>4, <2>5, <2>7, RequestsBuilt DEF InRequest
  <2>8. \/ \E local \in BOOLEAN : request' = Serving("validated", local, active, NoKey, None)
        \/ request' = Serving("validated", FALSE, numbers, NoKey, None)
    BY <1>6 DEF AckAll
  <2> HIDE DEF active, numbers
  <2>9. QED
    BY <2>6, <2>7, <2>8
<1>7. ASSUME NEW i \in Instances, LookUp(i) PROVE RequestOK'
  <2> DEFINE rest == request.todo \ {i}
  <2>1. rest \in SUBSET Instances
    BY <1>2
  <2>2. \/ \E pc \in InRequest : request' = Serving(pc, request.local, rest, i, None)
        \/ Answered(i, FALSE, rest)
    BY <1>7 DEF LookUp, InRequest
  <2>3. ASSUME NEW pc \in InRequest, request' = Serving(pc, request.local, rest, i, None)
        PROVE  RequestOK'
    BY <1>2, <2>1, <2>3, RequestsBuilt DEF InRequest
  <2>4. QED
    BY <1>4, <2>1, <2>2, <2>3
<1>8. CASE RecordStage
  <2>1. request.key \in Instances /\ request.pc = "staging"
    BY <1>2, <1>8 DEF RecordStage, InRequest
  <2>2. \/ \E ok \in BOOLEAN : Answered(request.key, ok, request.todo)
        \/ request' = [request EXCEPT !.pc = "marking"]
    BY <1>8 DEF RecordStage
  <2>3. CASE request' = [request EXCEPT !.pc = "marking"]
    BY <2>1, <2>3 DEF AckInv, RequestOK, AckRequests, InRequest
  <2>4. QED
    BY <1>2, <1>4, <2>1, <2>2, <2>3
<1>9. CASE Mark
  <2>1. request.key \in Instances
    BY <1>2, <1>9 DEF Mark, InRequest
  <2>2. \E ok : Answered(request.key, ok, request.todo)
    BY <1>9 DEF Mark
  <2>3. QED
    BY <1>2, <1>4, <2>1, <2>2
<1>10. CASE Judge
  <2>1. \/ \E verdict \in {"all", "source"} :
             request' = Serving("evaluated", request.local, request.todo, NoKey, verdict)
        \/ Proceed(request.todo)
    BY <1>10 DEF Judge
  <2>2. ASSUME NEW verdict \in {"all", "source"},
               request' = Serving("evaluated", request.local, request.todo, NoKey, verdict)
        PROVE  RequestOK'
    BY <1>2, <2>2, RequestsBuilt DEF InRequest, None
  <2>3. QED
    BY <1>2, <1>3, <2>1, <2>2
<1>11. CASE Store
  BY <1>2, <1>3, <1>11 DEF Store
<1>12. CASE AlarmTask \/ PlugSwitched \/ UNCHANGED ackVars
  BY <1>1, <1>12 DEF AlarmTask, PlugSwitched, ackVars, Overheat, RaiseCause, Extreme, ExitEmergency,
                     ExitSafeoff, HangCritical, HangOther, HangOver, ThermalGone, ThermalRaised,
                     Escalate, LoadFault, LoadOn, CriticalPlugOff
<1>13. QED
  BY <1>5, <1>6, <1>7, <1>8, <1>9, <1>10, <1>11, <1>12 DEF AckNext, Handler

\* Only alarms are withdrawn in the middle of a request.
LEMMA CrossedStays == AckInv /\ [AckNext]_ackVars => crossed' \subseteq Alarms
<1> SUFFICES ASSUME AckInv, [AckNext]_ackVars PROVE crossed' \subseteq Alarms
  OBVIOUS
<1>1. plant \subseteq Alarms /\ crossed \subseteq Alarms
  BY AlarmsAssumption DEF AckInv, ModeTypeOK
<1>2. ASSUME NEW alm \in Alarms, Crosses(alm) PROVE crossed' \subseteq Alarms
  BY <1>1, <1>2 DEF Crosses
<1>3. CASE "ALM-043" \in plant /\ HangOver
  BY <1>1, <1>2, <1>3 DEF HangOver, Withdraw
<1>4. CASE ThermalGone
  <2> DEFINE i == Named(lastThermal, NoPlug)
  <2>1. lastThermal \in Alarms /\ i[1] = lastThermal
    BY <1>4 DEF ThermalGone, AckInv, ModeTypeOK, Named
  <2>2. UNCHANGED crossed \/ Crosses(i[1])
    BY <1>4 DEF ThermalGone, Withdraw
  <2>3. QED
    BY <1>1, <1>2, <2>1, <2>2
<1>5. CASE "ALM-056" \in plant /\ \E plug \in Plugs : LoadOn(plug)
  BY <1>1, <1>2, <1>5 DEF LoadOn, Withdraw
<1>6. CASE UNCHANGED crossed
  BY <1>1, <1>6
<1>7. CASE \/ Overheat \/ RaiseCause \/ Extreme \/ ExitEmergency \/ ExitSafeoff
           \/ HangCritical \/ HangOther \/ Escalate
           \/ \E alm \in plant : ThermalRaised(alm)
           \/ \E plug \in Plugs : LoadFault(plug) \/ CriticalPlugOff(plug)
           \/ UNCHANGED ackVars
  BY <1>6, <1>7
  DEF ackVars, Overheat, RaiseCause, Extreme, ExitEmergency, ExitSafeoff, HangCritical,
                    HangOther, ThermalRaised, Escalate, LoadFault, CriticalPlugOff
<1>8. CASE (\E i \in Instances : AckAlert(i)) \/ AckAll \/ Handler
  BY <1>6, <1>8 DEF AckAlert, AckAll, Handler, LookUp, RecordStage, Mark, Judge, Store
<1>9. QED
  BY <1>3, <1>4, <1>5, <1>7, <1>8 DEF AckNext, AlarmTask, PlugSwitched

-----------------------------------------------------------------------------------

LEMMA AckInvariant == AckSpec => []AckInv
<1>1. AckInit => AckInv
  <2> SUFFICES ASSUME AckInit PROVE AckInv
    OBVIOUS
  <2>1. ModeTypeOK /\ CauseKnown /\ crossed \subseteq Alarms
    BY DEF AckInit, ModeTypeOK, CauseKnown, None
  <2>2. TableTypeOK
    BY DEF AckInit, TableTypeOK, Stages
  <2>3. \A i \in Instances : slots[i] = Free /\ stage[i] = "NONE"
    BY DEF AckInit
  <2>4. HeadIsActive
    BY <2>3 DEF AckInit, HeadIsActive, IsActive, Active
  <2>5. LoadNeverCritical /\ StageFollowsAlarm /\ FirstCounted /\ DoubleAck
    BY <2>3, OccurrenceFacts DEF LoadNeverCritical, StageFollowsAlarm, FirstCounted, DoubleAck
  <2>6. request = Idle /\ Idle.pc = "idle" /\ Idle \in AckRequests
    BY DEF AckInit, Idle, Serving, AckRequests
  <2>7. RequestOK /\ RequestStands
    BY <2>6 DEF RequestOK, RequestStands, InRequest
  <2>8. QED
    BY <2>1, <2>2, <2>4, <2>5, <2>7 DEF AckInv, TableInv
<1>2. AckInv /\ [AckNext]_ackVars => AckInv'
  BY TableStays, ModeStays, RequestStays, CrossedStays DEF AckInv
<1>3. QED
  BY <1>1, <1>2, PTL DEF AckSpec

\* Type correctness, for all alarms, plugs and sizes of the tables.
THEOREM AckTypeCorrect == AckSpec => []AckTypeOK
<1>1. AckInv => AckTypeOK
  BY DEF AckInv, ModeTypeOK, TableInv, TableTypeOK, AckTypeOK
<1>2. QED
  BY <1>1, AckInvariant, PTL

\* No stage of a double acknowledgement outlives its alarm, nor is it ahead of it,
\* unless the alarm was withdrawn between two steps of a request on it (s_ack_states
\* beside s_slots, alert_manager_ack_with_policy_instance beside alert_manager_clear).
THEOREM StagesFollow == AckSpec => []StageFollowsAlarm
<1>1. AckInv => StageFollowsAlarm
  BY DEF AckInv, TableInv
<1>2. QED
  BY <1>1, AckInvariant, PTL

\* A critical alarm takes two requests since it was raised, with the same exception
\* (alert_manager_ack_with_policy_instance).
THEOREM CriticalTakesTwo == AckSpec => []DoubleAck
<1>1. AckInv => DoubleAck
  BY DEF AckInv, TableInv
<1>2. QED
  BY <1>1, AckInvariant, PTL
=================================================================================
