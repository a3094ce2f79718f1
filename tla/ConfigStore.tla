----------------------------- MODULE ConfigStore -----------------------------
(***************************************************************************)
(* How Configuration (libsrc/configuration.cpp) keeps its memory and its   *)
(* file in step: a dirty flag and a periodic timer write the file, a       *)
(* QFileSystemWatcher reads it when another program wrote it.              *)
(*                                                                         *)
(* The GUI thread runs one slot at a time, but it does not write alone:    *)
(* the threads of the REST server change the memory at any time, an editor *)
(* changes the file at any time, and the program may end at any time.      *)
(***************************************************************************)

CONSTANTS
    Item,           \* what a configuration is made of: alarms, stations ...
    Default,        \* the items of create_default_configuration()
    Unmarked        \* what changes without setting the flag: the switch of the
                    \* adaptive light

ASSUME ConfigAssumption == Default \subseteq Item /\ Unmarked \subseteq Item

Content == SUBSET Item

(* The file: a JSON document, something else, or no file at all. *)
File    == [kind : {"json", "garbled", "missing"}, items : Content]
Json(c) == [kind |-> "json", items |-> c]
Garbled == [kind |-> "garbled", items |-> {}]
Missing == [kind |-> "missing", items |-> {}]
Written == {Json(c) : c \in Content} \cup {Garbled}

VARIABLES
    phase,          \* the GUI thread: "off", "idle", or inside of a store
    conf,           \* alarms, podcast_sources, stream_sources and the values
    dirty,          \* Configuration::dirty
    snapshot,       \* the JSON object that is being written
    file,           \* the file on disk
    watched,        \* filewatcher has an inotify watch of the file
    event,          \* a fileChanged waits in the event loop
    raced,          \* history: a REST thread changed conf during the store
    missed          \* history: the file changed between commit and addPath

vars == <<phase, conf, dirty, snapshot, file, watched, event, raced, missed>>

TypeOK ==
    /\ phase \in {"off", "idle", "writing", "committed"}
    /\ conf \in Content
    /\ dirty \in BOOLEAN
    /\ snapshot \in Content
    /\ file \in File
    /\ watched \in BOOLEAN
    /\ event \in BOOLEAN
    /\ raced \in BOOLEAN
    /\ missed \in BOOLEAN

------------------------------------------------------------------------------
(* parse_json(): an invalid document is an empty object, with no items and  *)
(* default values.                                                          *)
Parse(f) == IF f.kind = "json" THEN f.items ELSE {}

(* The constructor and the first update_configuration(): a missing file is  *)
(* created, the file is watched and read; reading it sets values, which     *)
(* marks the configuration dirty.                                           *)
Start ==
    /\ phase = "off"
    /\ phase' = "idle"
    /\ file' = IF file = Missing THEN Json(Default) ELSE file
    /\ conf' = Parse(file')
    /\ dirty' = TRUE
    /\ watched' = TRUE
    /\ event' = FALSE
    /\ raced' = FALSE
    /\ missed' = FALSE
    /\ UNCHANGED snapshot

(* The program ends, by a crash or not: nothing is stored. *)
End ==
    /\ phase' = "off"
    /\ conf' = {}
    /\ dirty' = FALSE
    /\ watched' = FALSE
    /\ event' = FALSE
    /\ raced' = FALSE
    /\ missed' = FALSE
    /\ UNCHANGED <<snapshot, file>>

Quit == phase # "off" /\ End

------------------------------------------------------------------------------
(* Mutant: a reload leaves the flag alone. *)
RefreshClean ==
    /\ conf' = Parse(file)
    /\ event' = FALSE
    /\ raced' = FALSE
    /\ missed' = FALSE
    /\ UNCHANGED <<phase, dirty, snapshot, file, watched>>

(* refresh_configuration(): what is in the memory is replaced. *)
Refresh ==
    /\ conf' = Parse(file)
    /\ dirty' = TRUE
    /\ event' = FALSE
    /\ raced' = FALSE
    /\ missed' = FALSE
    /\ UNCHANGED <<phase, snapshot, file, watched>>

(* fileChanged(): without a file get_json_from_file() throws, and nobody    *)
(* catches it.                                                              *)
FileChanged ==
    /\ phase = "idle" /\ event
    /\ IF file = Missing THEN End ELSE Refresh

(* A content with the same unmarked items, and one with the same marked ones. *)
SameUnmarked(c) == c \cap Unmarked = conf \cap Unmarked
SameMarked(c)   == c \ Unmarked = conf \ Unmarked

(* Mutant: a change does not mark the configuration. *)
GuiChangeUnmarked(c) ==
    /\ phase = "idle" /\ SameUnmarked(c)
    /\ conf' = c
    /\ UNCHANGED <<phase, dirty, snapshot, file, watched, event, raced, missed>>

(* A slot of the GUI thread adds, deletes or sets an item or a value: the   *)
(* flag is set whether the value is another one or not.                     *)
GuiChange(c) ==
    /\ phase = "idle" /\ SameUnmarked(c)
    /\ conf' = c
    /\ dirty' = TRUE
    /\ UNCHANGED <<phase, snapshot, file, watched, event, raced, missed>>

(* enable_backlight_control(), at a click on the check box of the adaptive  *)
(* light, changes a value that is stored and marks nothing.                 *)
QuietChange(c) ==
    /\ phase = "idle" /\ c # conf /\ SameMarked(c)
    /\ conf' = c
    /\ UNCHANGED <<phase, dirty, snapshot, file, watched, event, raced, missed>>

(* A thread of the REST server adds or deletes an item. *)
RestChange(c) ==
    /\ phase # "off" /\ c # conf /\ SameUnmarked(c)
    /\ conf' = c
    /\ dirty' = TRUE
    /\ raced' = (raced \/ phase # "idle")
    /\ UNCHANGED <<phase, snapshot, file, watched, event, missed>>

------------------------------------------------------------------------------
(* timerEvent(), with the flag set.  store_current_config() makes a JSON    *)
(* object of the configuration; write_config_file() takes the path from the *)
(* watcher, and an event of it that was not delivered yet is dropped.       *)
StoreBegin ==
    /\ phase = "idle" /\ dirty
    /\ phase' = "writing"
    /\ snapshot' = conf
    /\ watched' = FALSE
    /\ event' = FALSE
    /\ raced' = FALSE
    /\ missed' = FALSE
    /\ UNCHANGED <<conf, dirty, file>>

(* Mutant: the file is written in place, and half of it is there. *)
CommitPartly ==
    /\ phase = "writing"
    /\ phase' = "committed"
    /\ file' = [kind |-> "partial", items |-> snapshot]
    /\ UNCHANGED <<conf, dirty, snapshot, watched, event, raced, missed>>

(* QSaveFile::commit() replaces the file in one step. *)
Commit ==
    /\ phase = "writing"
    /\ phase' = "committed"
    /\ file' = Json(snapshot)
    /\ UNCHANGED <<conf, dirty, snapshot, watched, event, raced, missed>>

(* The path is given to the watcher again, and timerEvent() toggles dirty.  *)
StoreEnd ==
    /\ phase = "committed"
    /\ phase' = "idle"
    /\ watched' = (file # Missing)
    /\ dirty' = ~dirty
    /\ UNCHANGED <<conf, snapshot, file, event, raced, missed>>

------------------------------------------------------------------------------
(* Another program at work on the file. *)

Touched(f) ==
    /\ file' = f
    /\ event' = (event \/ watched)
    /\ missed' = (missed \/ phase = "committed")
    /\ UNCHANGED <<phase, conf, dirty, snapshot, raced>>

(* It writes into the file. *)
EditInPlace(f) ==
    /\ file # Missing /\ f # file
    /\ Touched(f)
    /\ UNCHANGED watched

(* It puts a new file in the place of the old one, or removes it: the watch *)
(* goes with the old file.                                                  *)
EditByRename(f) ==
    /\ f # file
    /\ Touched(f)
    /\ watched' = FALSE

RemoveFile == file # Missing /\ Touched(Missing) /\ watched' = FALSE

------------------------------------------------------------------------------
Init ==
    /\ phase = "off"
    /\ conf = {}
    /\ dirty = FALSE
    /\ snapshot = {}
    /\ file \in Written \cup {Missing}
    /\ watched = FALSE
    /\ event = FALSE
    /\ raced = FALSE
    /\ missed = FALSE

Program == FileChanged \/ StoreBegin \/ Commit \/ StoreEnd

Editor == RemoveFile \/ \E f \in Written : EditInPlace(f) \/ EditByRename(f)

Environment ==
    \/ Start \/ Quit
    \/ \E c \in Content : GuiChange(c) \/ QuietChange(c) \/ RestChange(c)
    \/ Editor

Next == Program \/ Environment

(* The event loop delivers events and its timer fires again and again; a    *)
(* store does not hang.                                                     *)
Fairness ==
    /\ WF_vars(FileChanged) /\ WF_vars(StoreBegin)
    /\ WF_vars(Commit) /\ WF_vars(StoreEnd)

Spec     == Init /\ [][Next]_vars
FairSpec == Spec /\ Fairness

------------------------------------------------------------------------------
(***************************************************************************)
(* Properties.                                                             *)
(***************************************************************************)

(* The file says what the memory says, in all that is marked when it changes. *)
FileAgrees == file.kind = "json" /\ SameMarked(file.items)

(* Between two stores, with nothing marked and nothing waiting, the file    *)
(* is watched and says what the memory says, in whatever order users,       *)
(* editors and restarts came.  Three gaps of the code are named: a REST     *)
(* thread's change during a store, which "dirty = !dirty" takes for saved;  *)
(* an edit of the file before the watcher has it again; and the items that  *)
(* change without a mark, which the file may not have got.                  *)
SavedOrDirty ==
    phase = "idle" /\ ~dirty /\ ~event /\ ~missed =>
        watched /\ (~raced => FileAgrees)

(* When everybody leaves it alone, a running program comes to rest with its *)
(* file and its memory equal and the file watched: an invalid file is       *)
(* replaced, and a watch lost to an editor's rename is renewed.  The gaps   *)
(* are the same three; what changed without a mark waits for a store that   *)
(* something else asks for, or is lost.                                     *)
Converges ==
    <>[][~Environment]_vars =>
        <>[](phase = "off" \/ raced \/ missed \/ (watched /\ FileAgrees))

==============================================================================
