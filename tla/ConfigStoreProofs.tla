----------------------------- MODULE ConfigStoreProofs -----------------------------
(***************************************************************************)
(* ConfigStore for any writers, settings and values: typing, and that what *)
(* was answered with success is what a restart finds.                      *)
(***************************************************************************)
EXTENDS ConfigStore, TLAPS

USE ConfigAssumption

-----------------------------------------------------------------------------------
(* What a task is about to do, and what nobody may rely on meanwhile.       *)

\* Where a task is in its operation: it has something left to set, a setting
\* at hand, a copy to write, or everything to save.
Shape(w) ==
    /\ writer[w] \in Busy
    /\ writer[w].pc = "next" => writer[w].todo # {}
    /\ writer[w].pc \in {"root", "blob"} => writer[w].setting \in Settings
    /\ writer[w].pc = "root" => writer[w].image \in All
    /\ writer[w].pc \in {"allroot", "allblobs"} =>
         writer[w].todo = {} /\ writer[w].doing \in {"import", "rollback"}
    /\ writer[w].doing = "import" => writer[w].backup \in All
    /\ \A s \in writer[w].todo : writer[w].target[s] \in Values

\* What it sets, it set, or is about to set is not promised; the copy it is about
\* to write as the root image holds what is promised.
Kept(w) ==
    /\ \A s \in writer[w].todo : promised[s] = NoPromise
    /\ writer[w].pc \in {"root", "blob"} => promised[writer[w].setting] = NoPromise
    /\ writer[w].doing \in {"import", "rollback"} =>
         \A s \in Settings : promised[s] = NoPromise
    /\ writer[w].pc = "root" =>
         \A s \in Settings : promised[s] # NoPromise => writer[w].image[s] = promised[s]

\* How far a task that nobody overlaps has come.
Progress(w) ==
    /\ writer[w].pc \in {"root", "blob"} =>
         ram[writer[w].setting] = writer[w].target[writer[w].setting]
    /\ writer[w].pc = "root" => writer[w].image = ram
    /\ writer[w].pc = "blob" /\ writer[w].doing = "set" /\ rootValid =>
         root[writer[w].setting] = writer[w].target[writer[w].setting]
    /\ writer[w].doing \in {"import", "rollback"} =>
         \A s \in Settings \ writer[w].todo : ram[s] = writer[w].target[s]
    /\ writer[w].pc = "allblobs" /\ rootValid => root = ram

WorksAlone(w) == Progress(w) /\ \A y \in Writers \ {w} : IsResting(y)

DataTypeOK ==
    /\ ram \in All
    /\ root \in All
    /\ rootValid \in BOOLEAN
    /\ blob \in All
    /\ lost \subseteq Settings

StoresTypeOK ==
    /\ DataTypeOK
    /\ promised \in Partial
    /\ writer \in [Writers -> Busy \cup {Resting}]

\* RAM, too, holds what is promised.
RamIsPromised == \A s \in Settings : promised[s] # NoPromise => ram[s] = promised[s]

WritersInv ==
    \A w \in Writers : ~IsResting(w) => Shape(w) /\ Kept(w) /\ (writer[w].alone => WorksAlone(w))

ConfigInv == StoresTypeOK /\ RamIsPromised /\ StoredIsPromised /\ WritersInv

-----------------------------------------------------------------------------------
(* Records of writers.                                                      *)

LEMMA BusyFacts ==
    /\ Resting \notin Busy
    /\ Resting.pc \notin {"next", "root", "blob", "allroot", "allblobs"}
    /\ Blank \in Partial /\ All \subseteq Partial
    /\ \A s \in Settings : Blank[s] = NoPromise
<1>1. Resting.pc = "rest"
  BY DEF Resting
<1>2. \A r \in Busy : r.pc # "rest"
  BY DEF Busy
<1>3. QED
  BY <1>1, <1>2 DEF Blank, Partial, All

\* One step of a task that goes on: the tasks it leaves alone are where they
\* were, and all that has to be looked at is its own next place.
LEMMA TaskGoesOn ==
    ASSUME ConfigInv, NEW w \in Writers, ~IsResting(w),
           StoresTypeOK', promised' = promised,
           \A y \in Writers \ {w} : writer'[y] = writer[y],
           Shape(w)', Kept(w)',
           writer'[w].alone = writer[w].alone,
           writer[w].alone => Progress(w)',
           RamIsPromised', StoredIsPromised'
    PROVE  ConfigInv'
<1> SUFFICES ASSUME NEW y \in Writers, ~IsResting(y)'
             PROVE  Shape(y)' /\ Kept(y)' /\ (writer'[y].alone => WorksAlone(y)')
  BY DEF ConfigInv, WritersInv
<1>1. CASE y = w
  BY <1>1 DEF ConfigInv, WritersInv, WorksAlone, IsResting
<1>2. CASE y # w
  <2>1. writer'[y] = writer[y] /\ ~IsResting(y)
    BY <1>2 DEF IsResting
  <2>2. ~writer[y].alone
    BY <1>2, <2>1 DEF ConfigInv, WritersInv, WorksAlone
  <2>3. Shape(y) /\ Kept(y)
    BY <2>1 DEF ConfigInv, WritersInv
  <2>4. Shape(y)' /\ Kept(y)'
    BY <2>1, <2>3 DEF Shape, Kept
  <2>5. QED
    BY <2>1, <2>2, <2>4
<1>3. QED
  BY <1>1, <1>2

\* The last step of a task: it may promise something only when all others rest.
LEMMA TaskEnds ==
    ASSUME ConfigInv, NEW w \in Writers, ~IsResting(w),
           StoresTypeOK',
           writer' = [writer EXCEPT ![w] = Resting],
           writer[w].alone \/ promised' = promised,
           RamIsPromised', StoredIsPromised'
    PROVE  ConfigInv'
<1> SUFFICES ASSUME NEW y \in Writers, ~IsResting(y)'
             PROVE  Shape(y)' /\ Kept(y)' /\ (writer'[y].alone => WorksAlone(y)')
  BY DEF ConfigInv, WritersInv
<1>1. y # w /\ writer'[y] = writer[y] /\ ~IsResting(y)
  BY DEF IsResting, ConfigInv, StoresTypeOK
<1>2. ~writer[y].alone /\ ~writer[w].alone
  BY <1>1 DEF ConfigInv, WritersInv, WorksAlone
<1>3. Shape(y) /\ Kept(y)
  BY <1>1 DEF ConfigInv, WritersInv
<1>4. Shape(y)' /\ Kept(y)'
  BY <1>1, <1>2, <1>3 DEF Shape, Kept
<1>5. QED
  BY <1>1, <1>2, <1>4

-----------------------------------------------------------------------------------
(* The steps of an operation.                                               *)

\* A step that takes a task on to `pc', and leaves of its record all that the
\* invariant speaks of there.
Moves(w, pc) ==
    /\ writer' \in [Writers -> Busy \cup {Resting}]
    /\ \A y \in Writers \ {w} : writer'[y] = writer[y]
    /\ writer'[w] \in Busy
    /\ writer'[w].pc = pc
    /\ writer'[w].doing = writer[w].doing
    /\ writer'[w].todo = writer[w].todo
    /\ writer'[w].setting = writer[w].setting
    /\ writer'[w].target = writer[w].target
    /\ writer'[w].backup = writer[w].backup
    /\ writer'[w].alone = writer[w].alone

LEMMA AdvanceMoves ==
    ASSUME StoresTypeOK, NEW w \in Writers, writer[w] \in Busy,
           NEW pc \in {"next", "root", "blob", "allroot", "allblobs"}, Advance(w, pc)
    PROVE  Moves(w, pc)
<1> DEFINE r == [writer[w] EXCEPT !.pc = pc, !.image = Blank]
<1>1. writer' = [writer EXCEPT ![w] = r]
  BY DEF Advance, StoresTypeOK
<1>2. /\ r \in Busy
      /\ r.pc = pc
      /\ r.doing = writer[w].doing
      /\ r.todo = writer[w].todo
      /\ r.setting = writer[w].setting
      /\ r.target = writer[w].target
      /\ r.backup = writer[w].backup
      /\ r.alone = writer[w].alone
  BY DEF Busy
<1> HIDE DEF r
<1>3. writer'[w] = r
  BY <1>1 DEF StoresTypeOK
<1>4. QED
  BY <1>1, <1>2, <1>3 DEF StoresTypeOK, Moves

\* On the way back an error is only noted.
LEMMA NotingMoves ==
    ASSUME StoresTypeOK, NEW w \in Writers, writer[w] \in Busy, NEW pc \in {"next", "allroot"},
           writer' = [writer EXCEPT ![w].clean = FALSE, ![w].image = Blank, ![w].pc = pc]
    PROVE  Moves(w, pc)
<1> DEFINE r == [writer[w] EXCEPT !.clean = FALSE, !.image = Blank, !.pc = pc]
<1>1. writer' = [writer EXCEPT ![w] = r]
  BY DEF StoresTypeOK
<1>2. /\ r \in Busy
      /\ r.pc = pc
      /\ r.doing = writer[w].doing
      /\ r.todo = writer[w].todo
      /\ r.setting = writer[w].setting
      /\ r.target = writer[w].target
      /\ r.backup = writer[w].backup
      /\ r.alone = writer[w].alone
  BY DEF Busy
<1> HIDE DEF r
<1>3. writer'[w] = r
  BY <1>1 DEF StoresTypeOK
<1>4. QED
  BY <1>1, <1>2, <1>3 DEF StoresTypeOK, Moves

LEMMA RollBackFacts ==
    ASSUME StoresTypeOK, NEW w \in Writers, writer[w] \in Busy, writer[w].backup \in All,
           RollBack(w)
    PROVE  /\ writer' \in [Writers -> Busy \cup {Resting}]
           /\ \A y \in Writers \ {w} : writer'[y] = writer[y]
           /\ writer'[w] \in Busy
           /\ writer'[w].pc = "next"
           /\ writer'[w].doing = "rollback"
           /\ writer'[w].todo = Settings
           /\ writer'[w].target \in All
           /\ writer'[w].alone = writer[w].alone
<1> DEFINE r == [writer[w] EXCEPT !.pc = "next", !.doing = "rollback", !.todo = Settings,
                                  !.target = writer[w].backup, !.image = Blank, !.backup = Blank]
<1>1. writer' = [writer EXCEPT ![w] = r]
  BY DEF RollBack, StoresTypeOK
<1>2. /\ r \in Busy
      /\ r.pc = "next"
      /\ r.doing = "rollback"
      /\ r.todo = Settings
      /\ r.target = writer[w].backup
      /\ r.alone = writer[w].alone
  BY BusyFacts DEF Busy
<1> HIDE DEF r
<1>3. writer'[w] = r
  BY <1>1 DEF StoresTypeOK
<1>4. QED
  BY <1>1, <1>2, <1>3 DEF StoresTypeOK

\* A step after which the task goes on where nothing has to hold but its shape.
LEMMA StepAdvances ==
    ASSUME ConfigInv, NEW w \in Writers, ~IsResting(w), writer[w].pc # "next",
           NEW pc \in {"next", "blob", "allroot", "allblobs"}, Moves(w, pc),
           pc = "next" => writer[w].todo # {},
           pc = "blob" => writer[w].pc = "root",
           pc \in {"allroot", "allblobs"} =>
             writer[w].todo = {} /\ writer[w].doing \in {"import", "rollback"},
           DataTypeOK', promised' = promised, UNCHANGED ram,
           pc = "blob" /\ writer[w].doing = "set" /\ rootValid' /\ writer[w].alone =>
             root'[writer[w].setting] = writer[w].target[writer[w].setting],
           pc = "allblobs" /\ rootValid' => root' = ram,
           StoredIsPromised'
    PROVE  ConfigInv'
<1>1. Shape(w) /\ Kept(w) /\ (writer[w].alone => Progress(w))
  BY DEF ConfigInv, WritersInv, WorksAlone
<1>2. /\ \A y \in Writers \ {w} : writer'[y] = writer[y]
      /\ writer'[w] \in Busy
      /\ writer'[w].pc = pc
      /\ writer'[w].doing = writer[w].doing
      /\ writer'[w].todo = writer[w].todo
      /\ writer'[w].setting = writer[w].setting
      /\ writer'[w].target = writer[w].target
      /\ writer'[w].backup = writer[w].backup
      /\ writer'[w].alone = writer[w].alone
      /\ StoresTypeOK'
  BY DEF ConfigInv, StoresTypeOK, Moves
<1>3. Shape(w)'
  BY <1>1, <1>2 DEF Shape
<1>4. Kept(w)'
  BY <1>1, <1>2 DEF Kept
<1>5. writer[w].alone => Progress(w)'
  BY <1>1, <1>2 DEF Progress
<1>6. RamIsPromised'
  BY DEF ConfigInv, RamIsPromised
<1>7. QED
  BY <1>2, <1>3, <1>4, <1>5, <1>6, TaskGoesOn

\* An error sends an import back to the beginning.
LEMMA StepRollsBack ==
    ASSUME ConfigInv, NEW w \in Writers, ~IsResting(w), writer[w].doing = "import", RollBack(w),
           DataTypeOK', promised' = promised, UNCHANGED ram, StoredIsPromised'
    PROVE  ConfigInv'
<1>1. Shape(w) /\ Kept(w)
  BY DEF ConfigInv, WritersInv
<1>2. /\ \A y \in Writers \ {w} : writer'[y] = writer[y]
      /\ writer'[w] \in Busy
      /\ writer'[w].pc = "next"
      /\ writer'[w].doing = "rollback"
      /\ writer'[w].todo = Settings
      /\ writer'[w].target \in All
      /\ writer'[w].alone = writer[w].alone
      /\ StoresTypeOK'
  BY <1>1, RollBackFacts DEF ConfigInv, Shape, StoresTypeOK
<1>3. Shape(w)'
  BY <1>2 DEF Shape, All
<1>4. Kept(w)'
  BY <1>1, <1>2 DEF Kept
<1>5. Progress(w)'
  BY <1>2 DEF Progress
<1>6. RamIsPromised'
  BY DEF ConfigInv, RamIsPromised
<1>7. QED
  BY <1>2, <1>3, <1>4, <1>5, <1>6, TaskGoesOn

\* An answer that promises nothing.
LEMMA StepAnswersNothing ==
    ASSUME ConfigInv, NEW w \in Writers, ~IsResting(w), Answered(w, Nothing),
           DataTypeOK', UNCHANGED ram, promised' = promised => StoredIsPromised'
    PROVE  ConfigInv'
<1>1. promised' = promised
  BY DEF Answered, Nothing, ConfigInv, StoresTypeOK, Partial
<1>2. StoresTypeOK'
  BY <1>1 DEF Answered, ConfigInv, StoresTypeOK
<1>3. RamIsPromised'
  BY <1>1 DEF ConfigInv, RamIsPromised
<1>4. QED
  BY <1>1, <1>2, <1>3, TaskEnds DEF Answered

\* An error anywhere: it never hurts what is promised.
LEMMA StepFails ==
    ASSUME ConfigInv, NEW w \in Writers, ~IsResting(w), writer[w].pc # "next", Fails(w),
           DataTypeOK', UNCHANGED ram, promised' = promised => StoredIsPromised',
           writer[w].doing # "rollback" \/ writer[w].pc \in {"root", "blob"}
    PROVE  ConfigInv'
<1>1. Shape(w)
  BY DEF ConfigInv, WritersInv
<1>2. CASE writer[w].doing \in {"set", "wizard"}
  BY <1>2, StepAnswersNothing DEF Fails
<1>3. CASE writer[w].doing = "import"
  BY <1>3, StepRollsBack DEF Fails
<1>4. CASE writer[w].doing = "rollback"
  <2> DEFINE pc == IF writer[w].todo = {} THEN "allroot" ELSE "next"
  <2>1. /\ promised' = promised
        /\ writer' = [writer EXCEPT ![w].clean = FALSE, ![w].image = Blank, ![w].pc = pc]
    BY <1>4 DEF Fails
  <2>2. Moves(w, pc)
    BY <1>1, <2>1, NotingMoves DEF ConfigInv, Shape
  <2>3. /\ pc \in {"next", "blob", "allroot", "allblobs"}
        /\ pc # "blob" /\ pc # "allblobs"
        /\ pc = "next" => writer[w].todo # {}
        /\ pc = "allroot" => writer[w].todo = {}
    OBVIOUS
  <2> HIDE DEF pc
  <2>4. QED
    BY <1>4, <2>1, <2>2, <2>3, StepAdvances
<1>5. QED
  BY <1>1, <1>2, <1>3, <1>4 DEF Shape, Busy

\* config_set_thermal and its like: RAM first, then the copy for the root image.
LEMMA ChangeRamKeeps == ASSUME ConfigInv, NEW w \in Writers, ChangeRam(w) PROVE ConfigInv'
<1> DEFINE s == CHOOSE x \in writer[w].todo : TRUE
           r == [writer[w] EXCEPT !.pc = "root", !.setting = s,
                                  !.todo = @ \ {s}, !.image = ram']
<1>1. writer[w].pc = "next" /\ ~IsResting(w)
  BY BusyFacts DEF ChangeRam, IsResting
<1>2. Shape(w) /\ Kept(w) /\ (writer[w].alone => Progress(w))
  BY <1>1 DEF ConfigInv, WritersInv, WorksAlone
<1>3. s \in writer[w].todo /\ writer[w].todo \subseteq Settings
  BY <1>1, <1>2 DEF Shape, Busy
<1>4. /\ ram' = [ram EXCEPT ![s] = writer[w].target[s]]
      /\ writer' = [writer EXCEPT ![w].pc = "root", ![w].setting = s,
                                  ![w].todo = @ \ {s}, ![w].image = ram']
      /\ UNCHANGED <<root, rootValid, blob, promised, lost>>
  BY Zenon DEF ChangeRam
<1> HIDE DEF s
<1>4a. writer' = [writer EXCEPT ![w] = r]
  BY <1>4 DEF ConfigInv, StoresTypeOK
<1>5. writer[w].target[s] \in Values
  BY <1>2, <1>3 DEF Shape
<1>6. ram' \in All /\ ram'[s] = writer[w].target[s]
      /\ \A x \in Settings \ {s} : ram'[x] = ram[x]
  BY <1>3, <1>4, <1>5 DEF ConfigInv, StoresTypeOK, DataTypeOK, All
<1>7. /\ r \in Busy
      /\ r.pc = "root"
      /\ r.doing = writer[w].doing
      /\ r.todo = writer[w].todo \ {s}
      /\ r.setting = s
      /\ r.image = ram'
      /\ r.target = writer[w].target
      /\ r.backup = writer[w].backup
      /\ r.alone = writer[w].alone
  BY <1>2, <1>3, <1>6 DEF Shape, Busy
<1> HIDE DEF r
<1>8. writer'[w] = r /\ \A y \in Writers \ {w} : writer'[y] = writer[y]
  BY <1>4a DEF ConfigInv, StoresTypeOK
<1>9. StoresTypeOK'
  <2>1. writer' \in [Writers -> Busy \cup {Resting}]
    BY <1>4a, <1>7 DEF ConfigInv, StoresTypeOK
  <2>2. QED
    BY <1>4, <1>6, <2>1 DEF ConfigInv, StoresTypeOK, DataTypeOK
<1>10. Shape(w)'
  BY <1>2, <1>3, <1>6, <1>7, <1>8 DEF Shape
<1>11. RamIsPromised'
  <2>1. promised' = promised /\ promised[s] = NoPromise
    BY <1>2, <1>3, <1>4 DEF Kept
  <2>2. QED
    BY <1>6, <2>1 DEF ConfigInv, RamIsPromised
<1>12. Kept(w)'
  <2>1. promised' = promised /\ writer'[w] = r
    BY <1>4, <1>8
  <2>2. \A x \in r.todo : promised[x] = NoPromise
    BY <1>2, <1>7 DEF Kept
  <2>3. promised[r.setting] = NoPromise
    BY <1>2, <1>3, <1>7 DEF Kept
  <2>4. r.doing \in {"import", "rollback"} => \A x \in Settings : promised[x] = NoPromise
    BY <1>2, <1>7 DEF Kept
  <2>5. \A x \in Settings : promised[x] # NoPromise => r.image[x] = promised[x]
    BY <1>7, <1>11, <2>1 DEF RamIsPromised
  <2>6. QED
    BY <2>1, <2>2, <2>3, <2>4, <2>5 DEF Kept
<1>13. writer[w].alone => Progress(w)'
  BY <1>2, <1>3, <1>6, <1>7, <1>8 DEF Progress
<1>14. StoredIsPromised'
  BY <1>4 DEF ConfigInv, StoredIsPromised
<1>15. QED
  BY <1>1, <1>4, <1>7, <1>8, <1>9, <1>10, <1>11, <1>12, <1>13, <1>14, TaskGoesOn

\* A write of the image that is answered with an error.
LEMMA ImageMayBeWritten ==
    ASSUME ConfigInv, NEW image \in All, RootMayBe(image), UNCHANGED <<ram, blob, lost>>,
           \A s \in Settings : promised[s] # NoPromise => image[s] = promised[s]
    PROVE  DataTypeOK' /\ (promised' = promised => StoredIsPromised')
<1>1. DataTypeOK'
  BY DEF RootMayBe, ConfigInv, StoresTypeOK, DataTypeOK
<1>2. ASSUME promised' = promised PROVE StoredIsPromised'
  BY <1>2 DEF RootMayBe, ConfigInv, StoredIsPromised
<1>3. QED
  BY <1>1, <1>2

\* Blobs that are answered with success: one that promises anything afterwards holds
\* it or is known to be lost.
LEMMA BlobsStored ==
    ASSUME ConfigInv, NEW answered \in SUBSET Settings, NEW dropped \in SUBSET answered,
           StoreBlobs(answered, dropped), UNCHANGED <<ram, root, rootValid>>
    PROVE  /\ DataTypeOK'
           /\ \A x \in Settings \ answered : blob'[x] = blob[x] /\ (x \in lost' <=> x \in lost)
           /\ \A x \in answered :
                 promised'[x] # NoPromise /\ x \notin lost' => blob'[x] = ram[x]
<1>1. /\ blob' = [s \in Settings |-> IF s \in answered \ dropped THEN ram[s] ELSE blob[s]]
      /\ lost' = (lost \ answered) \cup {s \in dropped : promised'[s] # NoPromise}
  BY DEF StoreBlobs
<1>2. ram \in All /\ blob \in All /\ lost \subseteq Settings
  BY DEF ConfigInv, StoresTypeOK, DataTypeOK
<1>3. blob' \in All /\ lost' \subseteq Settings
  BY <1>1, <1>2 DEF All
<1>4. DataTypeOK'
  BY <1>3 DEF ConfigInv, StoresTypeOK, DataTypeOK
<1>5. QED
  BY <1>1, <1>2, <1>4

\* config_root_save: the image holds what is promised, whatever else it holds.
LEMMA WriteRootKeeps == ASSUME ConfigInv, NEW w \in Writers, WriteRoot(w) PROVE ConfigInv'
<1>1. writer[w].pc = "root" /\ ~IsResting(w) /\ UNCHANGED <<ram, blob, lost>>
  BY BusyFacts DEF WriteRoot, IsResting
<1>2. Shape(w) /\ Kept(w) /\ (writer[w].alone => Progress(w))
  BY <1>1 DEF ConfigInv, WritersInv, WorksAlone
<1>3. CASE root' = writer[w].image /\ rootValid' = TRUE /\ Advance(w, "blob") /\ UNCHANGED promised
  <2>1. DataTypeOK'
    BY <1>1, <1>2, <1>3 DEF ConfigInv, StoresTypeOK, DataTypeOK, Shape
  <2>2. StoredIsPromised'
    BY <1>1, <1>2, <1>3 DEF ConfigInv, StoredIsPromised, Kept
  <2>3. writer[w].alone => root'[writer[w].setting] = writer[w].target[writer[w].setting]
    BY <1>1, <1>2, <1>3 DEF Progress
  <2>4. Moves(w, "blob")
    BY <1>2, <1>3, AdvanceMoves DEF ConfigInv, Shape
  <2>5. QED
    BY <1>1, <1>3, <2>1, <2>2, <2>3, <2>4, StepAdvances
<1>4. CASE RootMayBe(writer[w].image)
  <2>1. DataTypeOK' /\ (promised' = promised => StoredIsPromised')
    BY <1>1, <1>2, <1>4, ImageMayBeWritten DEF Shape, Kept
  <2>2. CASE writer[w].doing = "wizard" /\ Advance(w, "blob") /\ UNCHANGED promised
    <3>1. Moves(w, "blob")
      BY <1>2, <2>2, AdvanceMoves DEF ConfigInv, Shape
    <3>2. QED
      BY <1>1, <2>1, <2>2, <3>1, StepAdvances
  <2>3. CASE Fails(w)
    BY <1>1, <2>1, <2>3, StepFails
  <2>4. QED
    BY <1>3, <1>4, <2>2, <2>3 DEF WriteRoot
<1>5. QED
  BY <1>3, <1>4 DEF WriteRoot

\* The blob, and with it the end of a setter: what it says then is stored twice.
LEMMA WriteBlobKeeps == ASSUME ConfigInv, NEW w \in Writers, WriteBlob(w) PROVE ConfigInv'
<1> DEFINE s == writer[w].setting
<1>1. writer[w].pc = "blob" /\ ~IsResting(w) /\ UNCHANGED <<ram, root, rootValid>>
  BY BusyFacts DEF WriteBlob, IsResting
<1>2. Shape(w) /\ Kept(w) /\ (writer[w].alone => Progress(w)) /\ s \in Settings
  BY <1>1 DEF ConfigInv, WritersInv, WorksAlone, Shape
<1>3. CASE Fails(w) /\ UNCHANGED <<blob, lost>>
  BY <1>1, <1>3, StepFails DEF ConfigInv, StoresTypeOK, DataTypeOK, StoredIsPromised
<1>4. ASSUME NEW dropped \in SUBSET {s}, StoreBlobs({s}, dropped),
             IF writer[w].doing = "wizard" THEN Answered(w, Nothing) ELSE Succeeds(w)
      PROVE  ConfigInv'
  <2>0. /\ DataTypeOK'
        /\ \A x \in Settings \ {s} : blob'[x] = blob[x] /\ (x \in lost' <=> x \in lost)
        /\ promised'[s] # NoPromise /\ s \notin lost' => blob'[s] = ram[s]
    <3> HIDE DEF s
    <3>1. {s} \in SUBSET Settings /\ s \in {s}
      BY <1>2
    <3>2. QED
      BY <1>1, <1>4, <3>1, BlobsStored
  <2>1. DataTypeOK' /\ (promised' = promised => StoredIsPromised')
    <3>1. promised[s] = NoPromise
      BY <1>1, <1>2 DEF Kept
    <3>2. ASSUME promised' = promised PROVE StoredIsPromised'
      BY <1>1, <2>0, <3>1, <3>2 DEF ConfigInv, StoredIsPromised
    <3>3. QED
      BY <2>0, <3>2
  <2>2. CASE writer[w].doing = "wizard" /\ Answered(w, Nothing)
    BY <1>1, <2>1, <2>2, StepAnswersNothing
  <2>3. CASE writer[w].doing = "set" /\ Succeeds(w)
    <3> DEFINE what == [x \in {s} |-> writer[w].target[x]]
    <3>1. Answered(w, what)
      BY <2>3 DEF Succeeds
    <3>2. CASE ~writer[w].alone
      <4>1. Answered(w, Nothing)
        BY <3>1, <3>2 DEF Answered
      <4>2. QED
        BY <1>1, <2>1, <4>1, StepAnswersNothing
    <3>3. CASE writer[w].alone
      <4>1. promised' = [x \in Settings |-> IF x = s THEN writer[w].target[s] ELSE promised[x]]
        BY <3>1, <3>3 DEF Answered
      <4>2. ram[s] = writer[w].target[s] /\ (rootValid => root[s] = writer[w].target[s])
        BY <1>1, <1>2, <2>3, <3>3 DEF Progress
      <4>3. \A x \in Settings \ {s} : promised'[x] = promised[x]
        BY <4>1
      <4>4. ram[s] \in Values
        BY <1>2 DEF ConfigInv, StoresTypeOK, DataTypeOK, All
      <4>5. StoresTypeOK'
        BY <2>1, <3>1, <4>1, <4>2, <4>4 DEF Answered, ConfigInv, StoresTypeOK, Partial
      <4>6. RamIsPromised'
        BY <1>1, <4>1, <4>2 DEF ConfigInv, RamIsPromised
      <4>7. StoredIsPromised'
        <5>1. ASSUME NEW x \in Settings \ {s}, promised'[x] # NoPromise
              PROVE  (x \notin lost' => blob'[x] = promised'[x])
                     /\ (rootValid' => root'[x] = promised'[x])
          BY <1>1, <2>0, <4>3, <5>1 DEF ConfigInv, StoredIsPromised
        <5>2. promised'[s] = ram[s]
          BY <1>2, <4>1, <4>2
        <5>3. QED
          BY <1>1, <2>0, <4>2, <5>1, <5>2 DEF StoredIsPromised
      <4>8. QED
        BY <1>1, <3>1, <3>3, <4>5, <4>6, <4>7, TaskEnds DEF Answered
    <3>4. QED
      BY <3>2, <3>3
  <2>4. CASE writer[w].doing \notin {"set", "wizard"} /\ Succeeds(w)
    <3> DEFINE pc == IF writer[w].todo = {} THEN "allroot" ELSE "next"
    <3>1. Advance(w, pc) /\ promised' = promised
      BY <2>4 DEF Succeeds
    <3>2. Moves(w, pc) /\ writer[w].doing \in {"import", "rollback"}
      BY <1>2, <2>4, <3>1, AdvanceMoves DEF ConfigInv, Shape, Busy
    <3>3. /\ pc \in {"next", "blob", "allroot", "allblobs"}
          /\ pc # "blob" /\ pc # "allblobs"
          /\ pc = "next" => writer[w].todo # {}
          /\ pc = "allroot" => writer[w].todo = {}
      OBVIOUS
    <3> HIDE DEF pc
    <3>4. QED
      BY <1>1, <2>1, <3>1, <3>2, <3>3, StepAdvances
  <2>5. QED
    BY <1>4, <2>2, <2>3, <2>4
<1>5. QED
  BY <1>3, <1>4 DEF WriteBlob

\* The root image of config_save_all, with everything set before.
LEMMA SaveAllRootKeeps == ASSUME ConfigInv, NEW w \in Writers, SaveAllRoot(w) PROVE ConfigInv'
<1>1. writer[w].pc = "allroot" /\ ~IsResting(w) /\ UNCHANGED <<ram, blob, lost>>
  BY BusyFacts DEF SaveAllRoot, IsResting
<1>2. Shape(w) /\ Kept(w)
  BY <1>1 DEF ConfigInv, WritersInv
<1>3. CASE root' = ram /\ rootValid' = TRUE /\ Advance(w, "allblobs") /\ UNCHANGED promised
  <2>1. DataTypeOK'
    BY <1>1, <1>3 DEF ConfigInv, StoresTypeOK, DataTypeOK
  <2>2. StoredIsPromised'
    BY <1>1, <1>3 DEF ConfigInv, StoredIsPromised, RamIsPromised
  <2>3. Moves(w, "allblobs") /\ writer[w].todo = {} /\ writer[w].doing \in {"import", "rollback"}
    BY <1>1, <1>2, <1>3, AdvanceMoves DEF ConfigInv, Shape
  <2>4. QED
    BY <1>1, <1>3, <2>1, <2>2, <2>3, StepAdvances
<1>4. CASE RootMayBe(ram)
  <2>1. DataTypeOK' /\ (promised' = promised => StoredIsPromised')
    BY <1>1, <1>4, ImageMayBeWritten DEF ConfigInv, StoresTypeOK, DataTypeOK, RamIsPromised
  <2>2. CASE writer[w].doing = "rollback" /\ Answered(w, Nothing)
    BY <1>1, <2>1, <2>2, StepAnswersNothing
  <2>3. CASE writer[w].doing # "rollback" /\ Fails(w)
    BY <1>1, <2>1, <2>3, StepFails
  <2>4. QED
    BY <1>3, <1>4, <2>2, <2>3 DEF SaveAllRoot
<1>5. QED
  BY <1>3, <1>4 DEF SaveAllRoot

\* Its blobs, up to the first that fails.  A complete import promises all settings.
LEMMA SaveAllBlobsKeeps == ASSUME ConfigInv, NEW w \in Writers, SaveAllBlobs(w) PROVE ConfigInv'
<1>1. writer[w].pc = "allblobs" /\ ~IsResting(w) /\ UNCHANGED <<ram, root, rootValid>>
  BY BusyFacts DEF SaveAllBlobs, IsResting
<1>2. Shape(w) /\ Kept(w) /\ (writer[w].alone => Progress(w))
  BY <1>1 DEF ConfigInv, WritersInv, WorksAlone
<1>3. /\ writer[w].doing \in {"import", "rollback"}
      /\ writer[w].todo = {}
      /\ \A s \in Settings : promised[s] = NoPromise
  BY <1>1, <1>2 DEF Shape, Kept
<1>4. PICK done \in SUBSET Settings :
        /\ \E dropped \in SUBSET done : StoreBlobs(done, dropped)
        /\ CASE done = Settings /\ writer[w].clean -> Answered(w, writer[w].target)
             [] done = Settings /\ ~writer[w].clean -> Answered(w, Nothing)
             [] done # Settings /\ writer[w].doing = "import" -> Fails(w)
             [] done # Settings /\ writer[w].doing # "import" -> Answered(w, Nothing)
  BY Zenon DEF SaveAllBlobs
<1>5. /\ DataTypeOK'
      /\ \A x \in done : promised'[x] # NoPromise /\ x \notin lost' => blob'[x] = ram[x]
  <2>1. PICK dropped \in SUBSET done : StoreBlobs(done, dropped)
    BY <1>4
  <2>2. QED
    BY <1>1, <2>1, BlobsStored
<1>6. promised' = promised => StoredIsPromised'
  BY <1>3 DEF StoredIsPromised
<1>7. CASE Answered(w, Nothing)
  BY <1>1, <1>5, <1>6, <1>7, StepAnswersNothing
<1>8. CASE done = Settings /\ Answered(w, writer[w].target)
  <2>1. CASE ~writer[w].alone
    <3>1. Answered(w, Nothing)
      BY <1>8, <2>1 DEF Answered
    <3>2. QED
      BY <1>7, <3>1
  <2>2. CASE writer[w].alone
    <3>1. \A s \in Settings : ram[s] = writer[w].target[s] /\ ram[s] \in Values
      BY <1>2, <1>3, <2>2 DEF Progress, ConfigInv, StoresTypeOK, DataTypeOK, All
    <3>2. DOMAIN writer[w].target = Settings
      BY <1>2 DEF Shape, Busy, Partial
    <3>3. promised' = [s \in Settings |-> IF s \in DOMAIN writer[w].target
                                          THEN writer[w].target[s] ELSE promised[s]]
      BY <1>8, <2>2 DEF Answered
    <3>4. promised' \in Partial /\ \A s \in Settings : promised'[s] = ram[s]
      BY <3>1, <3>2, <3>3 DEF Partial
    <3>5. \A s \in Settings :
            promised'[s] # NoPromise /\ s \notin lost' => blob'[s] = ram[s]
      BY <1>5, <1>8
    <3>6. rootValid => root = ram
      BY <1>1, <1>2, <2>2 DEF Progress
    <3>7. writer' = [writer EXCEPT ![w] = Resting]
      BY <1>8 DEF Answered
    <3>8. StoresTypeOK'
      BY <1>5, <3>4, <3>7 DEF ConfigInv, StoresTypeOK
    <3>9. RamIsPromised' /\ StoredIsPromised'
      BY <1>1, <3>4, <3>5, <3>6 DEF RamIsPromised, StoredIsPromised
    <3>10. QED
      BY <1>1, <2>2, <3>7, <3>8, <3>9, TaskEnds
  <2>3. QED
    BY <2>1, <2>2
<1>9. CASE writer[w].doing = "import" /\ Fails(w)
  <2>1. RollBack(w) /\ promised' = promised
    BY <1>9 DEF Fails
  <2>2. QED
    BY <1>1, <1>5, <1>6, <1>9, <2>1, StepRollsBack
<1>10. QED
  BY <1>4, <1>7, <1>8, <1>9 DEF Busy

-----------------------------------------------------------------------------------
(* The beginning of an operation, and of everything.                        *)

\* What a task is about to set is no longer promised; it is alone only if all
\* others rest, and those it joins are alone no longer.
LEMMA StartKeeps ==
    ASSUME ConfigInv, NEW w \in Writers, NEW doing \in {"set", "wizard", "import"},
           NEW what \in (SUBSET Settings) \ {{}}, NEW target \in Partial,
           NEW backup \in All \cup {Blank},
           \A s \in what : target[s] \in Values,
           doing = "import" => what = Settings /\ backup \in All,
           Start(w, doing, what, target, backup)
    PROVE  ConfigInv'
<1> DEFINE r == [pc |-> "next", doing |-> doing, todo |-> what, setting |-> "none",
                 image |-> Blank, target |-> target, backup |-> backup,
                 clean |-> TRUE, alone |-> \A y \in Writers \ {w} : IsResting(y)]
           joined(x) == [writer[x] EXCEPT !.alone = FALSE]
<1>1. IsResting(w) /\ lost' = lost \ what /\ UNCHANGED <<ram, root, rootValid, blob>>
  BY DEF Start
<1>2. promised' = [s \in Settings |-> IF s \in what THEN NoPromise ELSE promised[s]]
  BY DEF Start
<1>3. writer' = [x \in Writers |->
        IF x = w THEN r ELSE IF IsResting(x) THEN Resting ELSE joined(x)]
  BY DEF Start
<1>4. /\ r \in Busy
      /\ r.pc = "next"
      /\ r.doing = doing
      /\ r.todo = what
      /\ r.target = target
      /\ r.backup = backup
      /\ r.alone = \A y \in Writers \ {w} : IsResting(y)
  BY BusyFacts DEF Busy
<1>5. ASSUME NEW x \in Writers, ~IsResting(x)
      PROVE  /\ joined(x) \in Busy
             /\ joined(x).pc = writer[x].pc
             /\ joined(x).doing = writer[x].doing
             /\ joined(x).todo = writer[x].todo
             /\ joined(x).setting = writer[x].setting
             /\ joined(x).image = writer[x].image
             /\ joined(x).target = writer[x].target
             /\ joined(x).backup = writer[x].backup
             /\ joined(x).alone = FALSE
  <2>1. writer[x] \in Busy
    BY <1>5 DEF ConfigInv, WritersInv, Shape
  <2>2. QED
    BY <2>1 DEF Busy
<1> HIDE DEF r, joined
<1>6. StoresTypeOK'
  <2>1. promised' \in Partial
    BY <1>2 DEF ConfigInv, StoresTypeOK, Partial
  <2>2. writer' \in [Writers -> Busy \cup {Resting}]
    BY <1>3, <1>4, <1>5
  <2>3. QED
    BY <1>1, <2>1, <2>2 DEF ConfigInv, StoresTypeOK, DataTypeOK
<1>7. \A s \in Settings :
        promised'[s] # NoPromise => promised[s] = promised'[s] /\ (s \in lost' <=> s \in lost)
  BY <1>1, <1>2
<1>8. RamIsPromised' /\ StoredIsPromised'
  BY <1>1, <1>7 DEF ConfigInv, RamIsPromised, StoredIsPromised
<1>9. SUFFICES ASSUME NEW y \in Writers, ~IsResting(y)'
              PROVE  Shape(y)' /\ Kept(y)' /\ (writer'[y].alone => WorksAlone(y)')
  BY <1>6, <1>8 DEF ConfigInv, WritersInv
<1>10. CASE y = w
  <2>1. writer'[w] = r
    BY <1>3
  <2>2. Shape(w)'
    BY <1>4, <2>1 DEF Shape
  <2>3. Kept(w)'
    BY <1>2, <1>4, <2>1 DEF Kept
  <2>4. Progress(w)'
    BY <1>4, <2>1 DEF Progress
  <2>5. r.alone => \A x \in Writers \ {w} : IsResting(x)'
    BY <1>3, <1>4 DEF IsResting
  <2>6. QED
    BY <1>10, <2>1, <2>2, <2>3, <2>4, <2>5 DEF WorksAlone
<1>11. CASE y # w
  <2>1. ~IsResting(y)
    BY <1>3, <1>9, <1>11 DEF IsResting
  <2>2. writer'[y] = joined(y)
    BY <1>3, <1>11, <2>1
  <2>3. Shape(y) /\ Kept(y)
    BY <2>1 DEF ConfigInv, WritersInv
  <2>4. Shape(y)'
    BY <1>5, <2>1, <2>2, <2>3 DEF Shape
  <2>5. Kept(y)'
    <3>1. \A s \in Settings : promised[s] = NoPromise => promised'[s] = NoPromise
      BY <1>2
    <3>2. writer[y].todo \subseteq Settings
      BY <2>3 DEF Shape, Busy
    <3>3. /\ joined(y).pc = writer[y].pc
          /\ joined(y).doing = writer[y].doing
          /\ joined(y).todo = writer[y].todo
          /\ joined(y).setting = writer[y].setting
          /\ joined(y).image = writer[y].image
      BY <1>5, <2>1
    <3>4. writer[y].pc \in {"root", "blob"} => writer[y].setting \in Settings
      BY <2>3 DEF Shape
    <3>5. QED
      BY <1>7, <2>2, <2>3, <3>1, <3>2, <3>3, <3>4 DEF Kept
  <2>6. QED
    BY <1>5, <2>1, <2>2, <2>4, <2>5
<1>12. QED
  BY <1>10, <1>11

LEMMA SetKeeps == ASSUME ConfigInv, NEW w \in Writers, Set(w) PROVE ConfigInv'
<1>1. PICK s \in Settings, v \in Values, doing \in {"set", "wizard"} :
        Start(w, doing, {s}, [Blank EXCEPT ![s] = v], Blank)
  BY DEF Set
<1> DEFINE target == [Blank EXCEPT ![s] = v]
<1>2. target \in Partial /\ target[s] \in Values
  BY DEF Blank, Partial
<1> HIDE DEF target
<1>3. Start(w, doing, {s}, target, Blank)
  BY <1>1 DEF target
<1>4. QED
  BY <1>2, <1>3, StartKeeps

LEMMA ImportKeeps == ASSUME ConfigInv, Import PROVE ConfigInv'
<1>1. PICK target \in All : Start(Importer, "import", Settings, target, ram)
  BY DEF Import
<1>2. ram \in All /\ target \in Partial /\ \A s \in Settings : target[s] \in Values
  BY BusyFacts DEF ConfigInv, StoresTypeOK, DataTypeOK, All
<1>3. QED
  BY <1>1, <1>2, StartKeeps

\* After a loss of power nobody is writing, and RAM is what was stored.
LEMMA RestartKeeps == ASSUME ConfigInv, Restart PROVE ConfigInv'
<1>1. /\ ram' = Load
      /\ (root' = Load /\ rootValid' = TRUE) \/ UNCHANGED <<root, rootValid>>
      /\ writer' = [w \in Writers |-> Resting]
      /\ promised' = [s \in Settings |->
                         IF ~rootValid /\ s \in lost THEN NoPromise ELSE promised[s]]
      /\ lost' = IF rootValid THEN lost ELSE {}
      /\ UNCHANGED blob
  BY DEF Restart
<1>2. Load \in All /\ promised' \in Partial
  BY <1>1 DEF Load, ConfigInv, StoresTypeOK, DataTypeOK, Partial
<1>3. \A s \in Settings : promised'[s] # NoPromise =>
        /\ promised'[s] = promised[s]
        /\ Load[s] = promised[s]
        /\ s \notin lost' => blob[s] = promised[s]
        /\ rootValid => root[s] = promised[s]
  BY <1>1 DEF Load, ConfigInv, StoredIsPromised
<1>4. StoresTypeOK'
  BY <1>1, <1>2 DEF ConfigInv, StoresTypeOK, DataTypeOK
<1>5. RamIsPromised' /\ StoredIsPromised'
  BY <1>1, <1>3 DEF RamIsPromised, StoredIsPromised
<1>6. WritersInv'
  BY <1>1 DEF WritersInv, IsResting
<1>7. QED
  BY <1>4, <1>5, <1>6 DEF ConfigInv

LEMMA DecayKeeps == ASSUME ConfigInv, RootDecays PROVE ConfigInv'
<1>1. rootValid' = FALSE /\ UNCHANGED <<ram, root, blob, writer, promised, lost>>
  BY DEF RootDecays
<1>2. StoresTypeOK' /\ RamIsPromised' /\ StoredIsPromised'
  BY <1>1 DEF ConfigInv, StoresTypeOK, DataTypeOK, RamIsPromised, StoredIsPromised
<1>3. SUFFICES ASSUME NEW w \in Writers, ~IsResting(w)'
              PROVE  Shape(w)' /\ Kept(w)' /\ (writer'[w].alone => WorksAlone(w)')
  BY <1>2 DEF ConfigInv, WritersInv
<1>4. Shape(w) /\ Kept(w) /\ (writer[w].alone => WorksAlone(w))
  BY <1>1, <1>3 DEF ConfigInv, WritersInv, IsResting
<1>5. Shape(w)' /\ Kept(w)'
  BY <1>1, <1>4 DEF Shape, Kept
<1>6. writer[w].alone => WorksAlone(w)'
  BY <1>1, <1>4 DEF WorksAlone, Progress, IsResting
<1>7. QED
  BY <1>1, <1>5, <1>6

LEMMA ConfigStarts == ConfigInit => ConfigInv
<1> SUFFICES ASSUME ConfigInit PROVE ConfigInv
  OBVIOUS
<1>1. PICK v \in Values : ram = [s \in Settings |-> v]
  BY DEF ConfigInit
<1>2. /\ root = ram /\ rootValid = TRUE /\ blob = ram /\ promised = ram /\ lost = {}
      /\ writer = [w \in Writers |-> Resting]
  BY DEF ConfigInit
<1>3. StoresTypeOK
  BY <1>1, <1>2 DEF StoresTypeOK, DataTypeOK, All, Partial
<1>4. RamIsPromised /\ StoredIsPromised /\ WritersInv
  BY <1>2 DEF RamIsPromised, StoredIsPromised, WritersInv, IsResting
<1>5. QED
  BY <1>3, <1>4 DEF ConfigInv

-----------------------------------------------------------------------------------
(* The results.                                                             *)

LEMMA ConfigInvariant == ConfigSpec => []ConfigInv
<1>1. ConfigInv /\ [ConfigNext]_configVars => ConfigInv'
  <2> SUFFICES ASSUME ConfigInv, [ConfigNext]_configVars PROVE ConfigInv'
    OBVIOUS
  <2>1. ASSUME NEW w \in Writers, Set(w) PROVE ConfigInv'
    BY <2>1, SetKeeps
  <2>2. ASSUME NEW w \in Writers, ChangeRam(w) PROVE ConfigInv'
    BY <2>2, ChangeRamKeeps
  <2>3. ASSUME NEW w \in Writers, WriteRoot(w) PROVE ConfigInv'
    BY <2>3, WriteRootKeeps
  <2>4. ASSUME NEW w \in Writers, WriteBlob(w) PROVE ConfigInv'
    BY <2>4, WriteBlobKeeps
  <2>5. ASSUME NEW w \in Writers, SaveAllRoot(w) PROVE ConfigInv'
    BY <2>5, SaveAllRootKeeps
  <2>6. ASSUME NEW w \in Writers, SaveAllBlobs(w) PROVE ConfigInv'
    BY <2>6, SaveAllBlobsKeeps
  <2>7. CASE UNCHANGED configVars
    BY <2>7 DEF configVars, ConfigInv, StoresTypeOK, DataTypeOK, RamIsPromised, StoredIsPromised,
                WritersInv, Shape, Kept, WorksAlone, Progress, IsResting
  <2>8. QED
    BY <2>1, <2>2, <2>3, <2>4, <2>5, <2>6, <2>7, ImportKeeps, RestartKeeps, DecayKeeps
    DEF ConfigNext
<1>2. QED
  BY <1>1, ConfigStarts, PTL DEF ConfigSpec

\* The three copies hold values, and each task rests or is at a place of one of
\* the operations of config_manager.c and config_export.c.
THEOREM ConfigTypeCorrect == ConfigSpec => []ConfigTypeOK
<1>1. ConfigInv => ConfigTypeOK
  BY DEF ConfigInv, StoresTypeOK, DataTypeOK, ConfigTypeOK
<1>2. QED
  BY <1>1, ConfigInvariant, PTL

\* Whatever tasks write, however their writes of NVS fail or are cut short by a
\* loss of power, and whether or not the root image is damaged later: a setting
\* answered with success by an operation nobody overlapped is what a start finds,
\* save where the commit of its blob was lost unnoticed and the image as well.
THEOREM PromisesStored == ConfigSpec => []StoredIsPromised
<1>1. ConfigInv => StoredIsPromised
  BY DEF ConfigInv
<1>2. QED
  BY <1>1, ConfigInvariant, PTL
=================================================================================
