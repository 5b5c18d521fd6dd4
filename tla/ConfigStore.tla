------------------------------- MODULE ConfigStore -------------------------------
(***************************************************************************)
(* The configuration (services/config_manager.c, config_root.c and the     *)
(* import of config_export.c).  Each setting is kept three times: in RAM,  *)
(* in a blob of its own, and in the root image of all settings that a      *)
(* start prefers.  A setter changes RAM, takes a copy of all settings,     *)
(* writes it as the root image and then writes the blob; each write may    *)
(* fail, and the commit of a blob may fail unnoticed, which leaves the old *)
(* blob behind a good answer.  An import sets every setting, saves         *)
(* everything once more, and on the first error sets everything back to    *)
(* what it was.                                                            *)
(*                                                                         *)
(* The web server and the screen write from tasks of their own; nothing    *)
(* locks the settings.  Power may be lost between any two writes; one      *)
(* write of NVS is atomic.                                                 *)
(***************************************************************************)
CONSTANTS
    Writers,  \* the tasks that write settings
    Importer, \* the one of them that imports: the web server
    Settings, \* s_thermal, s_ato, ...
    Values    \* what a setting can be

ASSUME ConfigAssumption == Importer \in Writers /\ Settings # {} /\ Values # {}

VARIABLES
    ram,       \* the settings in RAM
    root,      \* the root image in NVS
    rootValid, \* config_root_validate of it
    blob,      \* the blobs in NVS
    writer,    \* what each task is doing
    promised,  \* history: the value a setting was last said to have
    lost       \* history: the promised settings whose blob was lost unnoticed

configVars == <<ram, root, rootValid, blob, writer, promised, lost>>

All == [Settings -> Values]

NoPromise == "none"

\* What is not used yet, or no more.
Blank == [s \in Settings |-> NoPromise]

Partial == [Settings -> Values \cup {NoPromise}]

\* `alone' is history: no other task has been writing at the same time.
\* `failed' is what the operation answers, `clean' whether its way back
\* failed in turn.
Resting == [pc |-> "rest", doing |-> "none", todo |-> {}, setting |-> "none",
            image |-> Blank, target |-> Blank, backup |-> Blank,
            clean |-> TRUE, alone |-> TRUE]

Busy == [pc : {"next", "root", "blob", "allroot", "allblobs"},
         doing : {"set", "wizard", "import", "rollback"},
         todo : SUBSET Settings,
         setting : Settings \cup {"none"},
         image : All \cup {Blank},
         target : Partial,
         backup : All \cup {Blank},
         clean : BOOLEAN,
         alone : BOOLEAN]

ConfigTypeOK ==
    /\ ram \in All
    /\ root \in All
    /\ rootValid \in BOOLEAN
    /\ blob \in All
    /\ \A w \in Writers : writer[w] = Resting \/ writer[w] \in Busy
    /\ promised \in Partial
    /\ lost \subseteq Settings

ConfigInit ==
    /\ ram \in {[s \in Settings |-> v] : v \in Values}
    /\ root = ram
    /\ rootValid = TRUE
    /\ blob = ram
    /\ writer = [w \in Writers |-> Resting]
    /\ promised = ram
    /\ lost = {}

---------------------------------------------------------------------------------
(* A task begins.  What it is about to set is no longer promised.           *)

IsResting(w) == writer[w] = Resting

Start(w, doing, what, target, backup) ==
    /\ IsResting(w)
    /\ writer' = [x \in Writers |->
          IF x = w
          THEN [pc |-> "next", doing |-> doing, todo |-> what, setting |-> "none",
                image |-> Blank, target |-> target, backup |-> backup,
                clean |-> TRUE, alone |-> \A y \in Writers \ {w} : IsResting(y)]
          ELSE IF IsResting(x) THEN Resting ELSE [writer[x] EXCEPT !.alone = FALSE]]
    /\ promised' = [s \in Settings |-> IF s \in what THEN NoPromise ELSE promised[s]]
    /\ lost' = lost \ what
    /\ UNCHANGED <<ram, root, rootValid, blob>>

\* config_set_thermal and its like; config_set_wizard_completed, monitor_only
\* and wizard_step look at the second write alone.
Set(w) ==
    \E s \in Settings, v \in Values, doing \in {"set", "wizard"} :
        Start(w, doing, {s}, [Blank EXCEPT ![s] = v], Blank)

\* config_import_from_json, once the document is accepted.
Import ==
    \E target \in All : Start(Importer, "import", Settings, target, ram)

---------------------------------------------------------------------------------
(* Its steps.                                                               *)

Advance(w, pc) == writer' = [writer EXCEPT ![w].pc = pc, ![w].image = Blank]

\* The setter changes RAM, and config_root_save takes its copy.
ChangeRam(w) ==
    /\ writer[w].pc = "next"
    /\ LET s == CHOOSE x \in writer[w].todo : TRUE
       IN /\ ram' = [ram EXCEPT ![s] = writer[w].target[s]]
          /\ writer' = [writer EXCEPT ![w].pc = "root", ![w].setting = s,
                                      ![w].todo = @ \ {s}, ![w].image = ram']
    /\ UNCHANGED <<root, rootValid, blob, promised, lost>>

\* The task answers.  Its word counts if no other was writing meanwhile.
Answered(w, what) ==
    /\ writer' = [writer EXCEPT ![w] = Resting]
    /\ promised' = IF writer[w].alone THEN [s \in Settings |->
                       IF s \in DOMAIN what THEN what[s] ELSE promised[s]]
                   ELSE promised

Nothing == [s \in {} |-> NoPromise]

\* Anything but the last step of a set is followed by another.
Succeeds(w) ==
    IF writer[w].doing \in {"set", "wizard"}
    THEN Answered(w, [s \in {writer[w].setting} |-> writer[w].target[s]])
    ELSE /\ Advance(w, IF writer[w].todo = {} THEN "allroot" ELSE "next")
         /\ UNCHANGED promised

RollBack(w) ==
    writer' = [writer EXCEPT ![w].pc = "next", ![w].doing = "rollback",
                             ![w].todo = Settings, ![w].target = writer[w].backup,
                             ![w].image = Blank, ![w].backup = Blank]

\* An error ends a set, sends an import back, and is ignored on the way back.
Fails(w) ==
    CASE writer[w].doing \in {"set", "wizard"} -> Answered(w, Nothing)
      [] writer[w].doing = "import" -> RollBack(w) /\ UNCHANGED promised
      [] writer[w].doing = "rollback" ->
            /\ writer' = [writer EXCEPT ![w].clean = FALSE,
                   ![w].image = Blank, ![w].pc = IF writer[w].todo = {} THEN "allroot" ELSE "next"]
            /\ UNCHANGED promised

WriteRootWhateverItSays(w) ==
    /\ writer[w].pc = "root"
    /\ \/ root' = writer[w].image /\ rootValid' = TRUE
       \/ UNCHANGED <<root, rootValid>>
    /\ Advance(w, "blob")
    /\ UNCHANGED <<ram, blob, promised, lost>>

\* A write of the image that is answered with an error may have been done all the
\* same, when it is the commit that failed.
RootMayBe(image) ==
    \/ root' = image /\ rootValid' = TRUE
    \/ UNCHANGED <<root, rootValid>>

WriteRoot(w) ==
    /\ writer[w].pc = "root"
    /\ \/ /\ root' = writer[w].image
          /\ rootValid' = TRUE
          /\ Advance(w, "blob")
          /\ UNCHANGED promised
       \/ /\ IF writer[w].doing = "wizard" THEN Advance(w, "blob") /\ UNCHANGED promised
             ELSE Fails(w)
          /\ RootMayBe(writer[w].image)
    /\ UNCHANGED <<ram, blob, lost>>

\* Blobs of these settings are answered with success, and all but the `dropped' are
\* stored: save_nvs_blob does not look at what nvs_commit returns.
StoreBlobs(answered, dropped) ==
    /\ blob' = [s \in Settings |-> IF s \in answered \ dropped THEN ram[s] ELSE blob[s]]
    /\ lost' = (lost \ answered) \cup {s \in dropped : promised'[s] # NoPromise}

\* A wizard step has no answer that could promise anything.
WriteBlob(w) ==
    /\ writer[w].pc = "blob"
    /\ \/ /\ IF writer[w].doing = "wizard" THEN Answered(w, Nothing) ELSE Succeeds(w)
          /\ \E dropped \in SUBSET {writer[w].setting} :
                StoreBlobs({writer[w].setting}, dropped)
       \/ Fails(w) /\ UNCHANGED <<blob, lost>>
    /\ UNCHANGED <<ram, root, rootValid>>

\* config_save_all, after the setters of an import or of the way back.
SaveAllRoot(w) ==
    /\ writer[w].pc = "allroot"
    /\ \/ /\ root' = ram
          /\ rootValid' = TRUE
          /\ Advance(w, "allblobs")
          /\ UNCHANGED promised
       \/ /\ IF writer[w].doing = "rollback" THEN Answered(w, Nothing) ELSE Fails(w)
          /\ RootMayBe(ram)
    /\ UNCHANGED <<ram, blob, lost>>

\* The settings are what was asked for, or, if nothing failed on the way
\* back, what they were before.
SaveAllBlobs(w) ==
    /\ writer[w].pc = "allblobs"
    /\ \E done \in SUBSET Settings :
          /\ CASE done = Settings /\ writer[w].clean -> Answered(w, writer[w].target)
               [] done = Settings /\ ~writer[w].clean -> Answered(w, Nothing)
               [] done # Settings /\ writer[w].doing = "import" -> Fails(w)
               [] done # Settings /\ writer[w].doing # "import" -> Answered(w, Nothing)
          /\ \E dropped \in SUBSET done : StoreBlobs(done, dropped)
    /\ UNCHANGED <<ram, root, rootValid>>

---------------------------------------------------------------------------------
(* A loss of power.  config_manager_init takes the root image if it is      *)
(* valid, and else the blobs, from which it makes a new image.              *)

Load == IF rootValid THEN root ELSE blob

\* A start from the blobs finds nothing of a setting whose blob was lost, as both of
\* its copies were: no word can be kept on that one.
Restart ==
    /\ ram' = Load
    /\ \/ root' = Load /\ rootValid' = TRUE
       \/ UNCHANGED <<root, rootValid>>
    /\ writer' = [w \in Writers |-> Resting]
    /\ promised' = [s \in Settings |->
                      IF ~rootValid /\ s \in lost THEN NoPromise ELSE promised[s]]
    /\ lost' = IF rootValid THEN lost ELSE {}
    /\ UNCHANGED blob

\* The image is found damaged (its CRC) when it is read next.
RootDecays ==
    /\ rootValid
    /\ rootValid' = FALSE
    /\ UNCHANGED <<ram, root, blob, writer, promised, lost>>

ConfigNext ==
    \/ \E w \in Writers :
          \/ Set(w)
          \/ ChangeRam(w)
          \/ WriteRoot(w)
          \/ WriteBlob(w)
          \/ SaveAllRoot(w)
          \/ SaveAllBlobs(w)
    \/ Import
    \/ Restart
    \/ RootDecays

ConfigSpec == ConfigInit /\ [][ConfigNext]_configVars

---------------------------------------------------------------------------------
(***************************************************************************)
(* A setting that was answered with success, by an operation that no other *)
(* task overlapped, is what a restart finds in the root image, and in the  *)
(* blobs that replace it when it is damaged: until the next operation on   *)
(* that setting, whatever others fail or are cut short.  Where the commit  *)
(* of its blob was lost behind the good answer (save_nvs_blob), the root   *)
(* image is the one copy that holds it.  A failed import whose way back    *)
(* succeeds leaves everything as it was.                                   *)
(***************************************************************************)
StoredIsPromised ==
    \A s \in Settings :
        promised[s] # NoPromise =>
            /\ s \notin lost => blob[s] = promised[s]
            /\ rootValid => root[s] = promised[s]
=================================================================================
