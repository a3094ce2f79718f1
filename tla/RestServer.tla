------------------------------ MODULE RestServer ------------------------------
(***************************************************************************)
(* The REST interface: threads of the HTTP server read and change a list   *)
(* of Configuration (stations; podcasts and alarms are served alike) while *)
(* the GUI thread reads it again from the file or shows it.  Nothing locks *)
(* the list: an access that meets a change of another thread is undefined, *)
(* and so is the use of an object that was found and then deleted.         *)
(*                                                                         *)
(* A client may also walk through the list page by page.                   *)
(***************************************************************************)
EXTENDS Integers, Sequences, SequencesExt, FiniteSetsExt

CONSTANTS
    Ids,            \* identifiers of items
    Threads,        \* PISTACHE_SERVER_THREADS
    PageSize,       \* length that a walking client asks for
    Absent, NoInt,  \* query values: none, and no number
    Nobody,         \* in place of an identifier: nonsense in a path or a body
    MaxItems        \* bound on the list

ASSUME RestAssumption ==
    /\ Ids # {} /\ Threads # {} /\ Nobody \notin Ids \cup Threads
    /\ PageSize \in Nat \ {0} /\ MaxItems \in Nat \ {0}
    /\ {Absent, NoInt} \cap Int = {}

VARIABLES
    store,          \* stream_sources: the identifiers, in the order of the vector
    job,            \* what each thread of the server does
    rows,           \* the list as the GUI shows it while its page is open
    pristine,       \* history: nothing was removed since the page was opened
    walk,           \* a client that walks: what it has got, and the size at first
    broken          \* undefined, or ended by an exception that nobody catches

restVars == <<store, job, rows, pristine, walk, broken>>

Lists   == BoundedSeq(Ids, MaxItems)
Queries == -1 .. MaxItems + 1 \cup {Absent, NoInt}
Idle    == [op |-> "none"]
Asked   == [offset : Nat, length : Nat \cup {Absent, NoInt}]
Listing == [op : {"list"}, offset : Nat, length : Nat, walks : BOOLEAN,
            asked : Asked, page : Seq(Ids), beyond : BOOLEAN, cut : BOOLEAN]
Jobs    ==
    {Idle} \cup Listing
           \cup [op : {"get"}, id : Ids, freed : BOOLEAN]
           \cup [op : {"add", "delete"}, id : Ids \cup {Nobody}]
NoWalk  == [state |-> "off", first |-> 0, seen |-> <<>>]

Writes(t) == job[t].op \in {"add", "delete"}

RestTypeOK ==
    /\ store \in Lists /\ rows \in Lists
    /\ walk \in [state : {"off", "on", "asking", "done"}, first : 0 .. MaxItems, seen : Lists]
    /\ pristine \in BOOLEAN /\ broken \in BOOLEAN
    /\ job \in [Threads -> Jobs]

------------------------------------------------------------------------------
(* get_val_from_query_within_range(): the value, or low if it is no number, *)
(* capped below, then above.                                                *)
Within(query, low, high) ==
    LET val == IF query = NoInt THEN low ELSE query
    IN  Min({high, Max({low, val})})

(* Mutant: the item behind the range is served, too. *)
RangeInclusive(all, offset, length) == SubSeq(all, offset + 1, Min({offset + length + 1, Len(all)}))

(* container_from_range(), for an offset within the list. *)
Range0(all, offset, length) == SubSeq(all, offset + 1, Min({offset + length, Len(all)}))

Offset(query, size)         == IF query = Absent THEN 0 ELSE Within(query, 0, size)
Length(query, size, offset) == IF query = Absent THEN size
                                                 ELSE Within(query, 1, size - offset)

(* What the documents say of a page.  REST/openapi.yml:150 and :157: an      *)
(* offset that is omitted or invalid is 0, with such a length all remaining *)
(* elements are meant; documentation/rest.md: at most length entries,       *)
(* starting at offset.  NoInt stands for any invalid length.                *)
AsDocumented(offset, length) ==
    [offset |-> IF offset \in Nat THEN offset ELSE 0,
     length |-> IF length = Absent \/ length \in Nat \ {0} THEN length ELSE NoInt]

Demanded(all, asked) ==
    LET rest == Max({0, Len(all) - asked.offset})
        most == IF asked.length \in Nat THEN asked.length ELSE rest
    IN  [i \in 1 .. Min({most, rest}) |-> all[i + asked.offset]]

Forgotten == [offset |-> 0, length |-> NoInt]

(* std::remove_if(): what is left of the first n items of s, after each n. *)
Kept(s, id) ==
    LET kept[n \in 0 .. Len(s)] == IF n = 0 THEN <<>>
                                   ELSE IF s[n] = id THEN kept[n - 1]
                                   ELSE Append(kept[n - 1], s[n])
    IN  kept

Without(s, id) == Kept(s, id)[Len(s)]

(* Items were removed: whoever found one of them holds a pointer to freed   *)
(* memory, the pages being copied and the walk have lost their footing.     *)
Removed(ids, by) ==
    /\ job' = [t \in Threads |->
          IF t = by THEN Idle
          ELSE CASE job[t].op = "get" /\ job[t].id \in ids -> [job[t] EXCEPT !.freed = TRUE]
                 [] job[t].op = "list" ->
                        [job[t] EXCEPT !.walks = FALSE, !.asked = Forgotten, !.page = <<>>,
                                       !.beyond = FALSE, !.cut = TRUE]
                 [] OTHER -> job[t]]
    /\ walk' = NoWalk
    /\ pristine' = (rows = <<>>)

------------------------------------------------------------------------------
(* respond_json_array() reads the size and the range that is asked for.  (A *)
(* number beyond int is an exception that the library answers.)  Remembered *)
(* for PageIsSlice: what was asked, the part of the list that this is now,  *)
(* and whether it starts beyond the end.                                    *)
ListBegin(t, offset, length, walks) ==
    /\ job[t] = Idle
    /\ LET start == Offset(offset, Len(store))
           asked == AsDocumented(offset, length)
       IN  job' = [job EXCEPT ![t] =
              [op |-> "list", offset |-> start, length |-> Length(length, Len(store), start),
               walks |-> walks, asked |-> asked, page |-> Demanded(store, asked),
               beyond |-> asked.offset > Len(store), cut |-> FALSE]]

(* When the list got shorter than the offset, the range has a negative      *)
(* length: an exception, and answer 500.                                    *)
Fails(t)  == job[t].offset > Len(store)
Served(t) == Range0(store, job[t].offset, job[t].length)

(* ... and then copies it. *)
ListEnd(t) ==
    /\ job[t].op = "list"
    /\ walk' = IF ~job[t].walks THEN walk
               ELSE IF Fails(t) \/ Served(t) = <<>> THEN [walk EXCEPT !.state = "done"]
               ELSE [walk EXCEPT !.state = "on", !.seen = @ \o Served(t)]
    /\ job' = [job EXCEPT ![t] = Idle]
    /\ UNCHANGED <<store, rows, pristine, broken>>

(* get_station() and its like: find_by_id(), or answer 400 ... *)
GetBegin(t, id) ==
    /\ job[t] = Idle
    /\ id \in Range(store)
    /\ job' = [job EXCEPT ![t] = [op |-> "get", id |-> id, freed |-> FALSE]]
    /\ UNCHANGED <<store, rows, pristine, walk, broken>>

(* ... and then to_json_object() of what was found. *)
GetEnd(t) ==
    /\ job[t].op = "get"
    /\ broken' = job[t].freed
    /\ job' = [job EXCEPT ![t] = Idle]
    /\ UNCHANGED <<store, rows, pristine, walk>>

(* A request to add or to delete is taken up. *)
ChangeBegin(t, op, id) ==
    /\ job[t] = Idle
    /\ job' = [job EXCEPT ![t] = [op |-> op, id |-> id]]
    /\ UNCHANGED <<store, rows, pristine, walk, broken>>

(* Mutant: the newest comes first. *)
AddedFirst(s, id) == <<id>> \o s

(* push_back() of the vector. *)
Added(s, id) == Append(s, id)

(* add_radio_station() and its like: from_json_object() refuses a body; an  *)
(* identifier may be given, and may be there already.                       *)
AddEnd(t) ==
    /\ job[t].op = "add"
    /\ Len(store) < MaxItems
    /\ store' = IF job[t].id = Nobody THEN store ELSE Added(store, job[t].id)
    /\ job' = [job EXCEPT ![t] = Idle]
    /\ UNCHANGED <<rows, pristine, walk, broken>>

(* delete_by_id(): all items with the identifier, or an exception that      *)
(* becomes answer 400.                                                      *)
DeleteEnd(t) ==
    /\ job[t].op = "delete"
    /\ store' = Without(store, job[t].id)
    /\ IF job[t].id \in Range(store) THEN Removed({job[t].id}, t)
                                     ELSE /\ job' = [job EXCEPT ![t] = Idle]
                                          /\ UNCHANGED <<pristine, walk>>
    /\ UNCHANGED <<rows, broken>>

------------------------------------------------------------------------------
(* The GUI thread. *)

(* refresh_configuration(): new objects for whatever the file has. *)
Reload(s) ==
    /\ store' = s
    /\ Removed(Ids, Nobody)
    /\ UNCHANGED <<rows, broken>>

(* The page with the list is opened; a ListView asks for its rows once, as  *)
(* nothing is connected to stations_changed.                                *)
OpenList ==
    /\ rows = <<>> /\ rows' = store
    /\ pristine' = TRUE
    /\ UNCHANGED <<store, job, walk, broken>>

(* send_to_player(): at() of a row that is gone ends the program. *)
Tap(i) ==
    /\ i \in DOMAIN rows
    /\ broken' = (i > Len(store))
    /\ UNCHANGED <<store, job, rows, pristine, walk>>

CloseList ==
    /\ rows # <<>> /\ rows' = <<>>
    /\ UNCHANGED <<store, job, pristine, walk, broken>>

(* Two threads in the list at once, of which one changes it. *)
Race ==
    /\ \E t \in Threads : Writes(t)
    /\ broken' = TRUE
    /\ UNCHANGED <<store, job, rows, pristine, walk>>

------------------------------------------------------------------------------
(* The client that walks: it asks for the next page until one is empty. *)
WalkBegin ==
    /\ walk.state \in {"off", "done"}
    /\ walk' = [state |-> "on", first |-> Len(store), seen |-> <<>>]
    /\ UNCHANGED <<store, job, rows, pristine, broken>>

WalkOn(t) ==
    /\ walk.state = "on"
    /\ ListBegin(t, Len(walk.seen), PageSize, TRUE)
    /\ walk' = [walk EXCEPT !.state = "asking"]
    /\ UNCHANGED <<store, rows, pristine, broken>>

------------------------------------------------------------------------------
RestInit ==
    /\ store \in Lists
    /\ job = [t \in Threads |-> Idle]
    /\ rows = <<>> /\ pristine = TRUE
    /\ walk = NoWalk
    /\ broken = FALSE

Request(t) ==
    \/ \E offset, length \in Queries :
           /\ ListBegin(t, offset, length, FALSE)
           /\ UNCHANGED <<store, rows, pristine, walk, broken>>
    \/ \E id \in Ids \cup {Nobody} :
           \/ GetBegin(t, id)
           \/ ChangeBegin(t, "add", id)
           \/ ChangeBegin(t, "delete", id)

Serve(t) == ListEnd(t) \/ GetEnd(t) \/ AddEnd(t) \/ DeleteEnd(t)

Gui == OpenList \/ CloseList \/ (\E s \in Lists : Reload(s)) \/ (\E i \in 1 .. MaxItems : Tap(i))

RestNext ==
    /\ ~broken
    /\ \/ \E t \in Threads : Request(t) \/ Serve(t) \/ WalkOn(t)
       \/ WalkBegin \/ Race \/ Gui

RestSpec == RestInit /\ [][RestNext]_restVars

------------------------------------------------------------------------------
(***************************************************************************)
(* Properties.                                                             *)
(***************************************************************************)

(* respond_json_array() looks at the list twice, and unless something is    *)
(* removed in between, the page lies between what the documents demand of   *)
(* the list at the first and at the second look: it has all of the one and  *)
(* nothing but items of the other, so never more than length, in order.     *)
(* Two exceptions of the code are named.  A length of 0, a negative one or  *)
(* no number gives one item at most, where openapi.yml:150 has "all         *)
(* remaining elements".  And an offset beyond the end counts as the end,    *)
(* behind which another thread may add before the second look.              *)
PageIsSlice ==
    [][\A t \in Threads : ListEnd(t) /\ ~job[t].cut =>
          LET asked == job[t].asked
          IN  /\ ~Fails(t)
              /\ asked.length # NoInt => IsPrefix(job[t].page, Served(t))
              /\ ~(job[t].beyond /\ asked.length = Absent) =>
                     IsPrefix(Served(t), Demanded(store, asked))]_restVars

(* A client that walks through the list while others add to it gets every   *)
(* item that was there, once and in order; and a row of the page that is    *)
(* open stands for the item at that place, until something is removed.      *)
WalkSeesAll ==
    /\ IsPrefix(walk.seen, store)
    /\ walk.state = "done" => Len(walk.seen) >= walk.first
    /\ pristine => IsPrefix(rows, store)

==============================================================================
