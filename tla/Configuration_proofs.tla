------------------------- MODULE Configuration_proofs -------------------------
(***************************************************************************)
(* Proofs about Configuration: about its file (ConfigStore), for any set   *)
(* of items, and about its lists under the REST interface (RestServer),    *)
(* for any number of threads, items and any page size.                     *)
(*                                                                         *)
(* SavedOrDirty is not inductive: it says nothing of the steps of a store, *)
(* and a change may come between any two of them.  StoreInProgress says    *)
(* what they keep.  WalkSeesAll is not inductive: it says nothing of the   *)
(* page a walking client waits for; PagesHold, ReadAsAsked and WalkersAsk  *)
(* do.                                                                     *)
(***************************************************************************)
EXTENDS ConfigStore, RestServer, WellFoundedInduction, TLAPS

(* While the file is written nobody watches it, the flag stays set, and     *)
(* unless a REST thread or an editor comes in between, what is written is   *)
(* what is in the memory.                                                   *)
StoreInProgress ==
    /\ phase \in {"writing", "committed"} => dirty /\ ~watched /\ ~event
    /\ phase = "writing" /\ ~raced => snapshot = conf
    /\ phase = "committed" /\ ~missed => file.kind # "missing"
    /\ phase = "committed" /\ ~missed /\ ~raced => file = Json(conf)

IInv == TypeOK /\ StoreInProgress /\ SavedOrDirty

------------------------------------------------------------------------------
(* What Parse returns are items, and what is written is a file. *)
LEMMA ParseType ==
    ASSUME NEW f \in File
    PROVE  Parse(f) \in Content
<1>1. f.items \in Content
  BY DEF File
<1>2. {} \in Content
  BY DEF Content
<1> QED
  BY <1>1, <1>2 DEF Parse

LEMMA FileType ==
    /\ Written \subseteq File
    /\ Missing \in File
    /\ \A c \in Content : Json(c) \in File /\ Json(c).kind = "json" /\ Json(c).items = c
<1>1. {} \in Content
  BY DEF Content
<1> QED
  BY <1>1 DEF Written, File, Json, Garbled, Missing

LEMMA InitIInv == Init => IInv
<1> SUFFICES ASSUME Init PROVE IInv
  OBVIOUS
<1>1. TypeOK
  BY FileType DEF Init, TypeOK, Content
<1> QED
  BY <1>1 DEF Init, IInv, StoreInProgress, SavedOrDirty

LEMMA StutterIInv == IInv /\ UNCHANGED vars => IInv'
BY DEF IInv, TypeOK, StoreInProgress, SavedOrDirty, FileAgrees, SameMarked, vars, Json

------------------------------------------------------------------------------
(* The steps of the program. *)

LEMMA EndIInv == IInv /\ End => IInv'
<1> SUFFICES ASSUME IInv, End PROVE IInv'
  OBVIOUS
<1>1. TypeOK'
  BY DEF IInv, TypeOK, End, Content
<1> QED
  BY <1>1 DEF IInv, End, StoreInProgress, SavedOrDirty

LEMMA StartIInv == IInv /\ Start => IInv'
<1> SUFFICES ASSUME IInv, Start PROVE IInv'
  OBVIOUS
<1>1. file' \in File
  <2>1. Default \in Content
    BY ConfigAssumption DEF Content
  <2> QED
    BY <2>1, FileType DEF IInv, TypeOK, Start
<1>2. TypeOK'
  BY <1>1, ParseType DEF IInv, TypeOK, Start
<1> QED
  BY <1>2 DEF IInv, Start, StoreInProgress, SavedOrDirty

LEMMA FileChangedIInv == IInv /\ FileChanged => IInv'
<1> SUFFICES ASSUME IInv, FileChanged PROVE IInv'
  OBVIOUS
<1>1. CASE End
  BY <1>1, EndIInv
<1>2. CASE Refresh
  <2>1. Parse(file) \in Content
    BY ParseType DEF IInv, TypeOK
  <2>2. TypeOK'
    BY <1>2, <2>1 DEF IInv, TypeOK, Refresh
  <2> QED
    BY <1>2, <2>2 DEF IInv, Refresh, FileChanged, StoreInProgress, SavedOrDirty
<1> QED
  BY <1>1, <1>2 DEF FileChanged

LEMMA StoreBeginIInv == IInv /\ StoreBegin => IInv'
<1> SUFFICES ASSUME IInv, StoreBegin PROVE IInv'
  OBVIOUS
<1>1. TypeOK'
  BY DEF IInv, TypeOK, StoreBegin
<1>2. StoreInProgress'
  BY DEF StoreInProgress, StoreBegin
<1>3. SavedOrDirty'
  BY DEF SavedOrDirty, StoreBegin
<1> QED
  BY <1>1, <1>2, <1>3 DEF IInv

LEMMA CommitIInv == IInv /\ Commit => IInv'
<1> SUFFICES ASSUME IInv, Commit PROVE IInv'
  OBVIOUS
<1>1. file' \in File /\ file'.kind = "json"
  BY FileType DEF IInv, TypeOK, Commit
<1>2. TypeOK'
  BY <1>1 DEF IInv, TypeOK, Commit
<1>3. ~raced => file' = Json(conf)
  BY DEF IInv, StoreInProgress, Commit
<1> QED
  BY <1>1, <1>2, <1>3 DEF IInv, Commit, StoreInProgress, SavedOrDirty, Json

LEMMA StoreEndIInv == IInv /\ StoreEnd => IInv'
<1> SUFFICES ASSUME IInv, StoreEnd PROVE IInv'
  OBVIOUS
<1>1. ~missed => watched'
  <2>1. Missing.kind = "missing"
    BY DEF Missing
  <2>2. ~missed => file # Missing
    BY <2>1, Zenon DEF IInv, StoreInProgress, StoreEnd
  <2> QED
    BY <2>2, Zenon DEF StoreEnd
<1>2. ~missed /\ ~raced => FileAgrees'
  <2>1. conf \in Content /\ conf' = conf /\ file' = file
    BY DEF IInv, TypeOK, StoreEnd
  <2>2. ~missed /\ ~raced => file = Json(conf)
    BY DEF IInv, StoreEnd, StoreInProgress
  <2>3. Json(conf).kind = "json" /\ Json(conf).items = conf
    BY <2>1, FileType
  <2> QED
    BY <2>1, <2>2, <2>3 DEF FileAgrees, SameMarked
<1>3. TypeOK'
  BY DEF IInv, TypeOK, StoreEnd
<1> QED
  BY <1>1, <1>2, <1>3 DEF StoreEnd, IInv, StoreInProgress, SavedOrDirty

------------------------------------------------------------------------------
(* The steps of users, REST threads and editors. *)

LEMMA GuiChangeIInv ==
    ASSUME NEW c \in Content
    PROVE  IInv /\ GuiChange(c) => IInv'
BY DEF IInv, GuiChange, TypeOK, StoreInProgress, SavedOrDirty

(* A change that marks nothing leaves the marked items as the file has them. *)
LEMMA QuietChangeIInv ==
    ASSUME NEW c \in Content
    PROVE  IInv /\ QuietChange(c) => IInv'
<1> SUFFICES ASSUME IInv, QuietChange(c) PROVE IInv'
  OBVIOUS
<1>1. TypeOK' /\ StoreInProgress'
  BY DEF IInv, QuietChange, TypeOK, StoreInProgress
<1>2. FileAgrees => FileAgrees'
  BY DEF QuietChange, FileAgrees, SameMarked
<1>3. SavedOrDirty'
  BY <1>2 DEF IInv, QuietChange, SavedOrDirty
<1> QED
  BY <1>1, <1>3 DEF IInv

(* A change by a thread falls anywhere in a store, and is remembered. *)
LEMMA RestChangeIInv ==
    ASSUME NEW c \in Content
    PROVE  IInv /\ RestChange(c) => IInv'
BY DEF IInv, RestChange, TypeOK, StoreInProgress, SavedOrDirty

(* A change of the file leaves an event if it is watched; it is missed only *)
(* in the gap after a commit.                                               *)
LEMMA TouchedIInv ==
    ASSUME NEW f \in File, IInv, Touched(f),
           watched' \in BOOLEAN, watched' => watched
    PROVE  IInv'
<1>1. TypeOK'
  BY DEF IInv, TypeOK, Touched
<1>2. phase' = phase /\ dirty' = dirty /\ raced' = raced
  BY DEF Touched
<1>3. StoreInProgress'
  <2>1. ~watched /\ ~event => ~watched' /\ ~event'
    BY Zenon DEF Touched
  <2>2. phase = "committed" => missed'
    BY Zenon DEF Touched
  <2>3. snapshot = conf => snapshot' = conf'
    BY DEF Touched
  <2> QED
    BY <1>2, <2>1, <2>2, <2>3 DEF IInv, StoreInProgress
<1>4. SavedOrDirty'
  <2>1. ~event' => ~event /\ ~watched
    BY Zenon DEF Touched
  <2>2. ~missed' => ~missed
    BY Zenon DEF Touched
  <2> QED
    BY <1>2, <2>1, <2>2 DEF IInv, SavedOrDirty
<1> QED
  BY <1>1, <1>3, <1>4 DEF IInv

LEMMA EditorIInv == IInv /\ Editor => IInv'
<1> SUFFICES ASSUME IInv, Editor PROVE IInv'
  OBVIOUS
<1>1. CASE RemoveFile
  BY <1>1, TouchedIInv, FileType DEF RemoveFile
<1>2. ASSUME NEW f \in Written, EditInPlace(f) PROVE IInv'
  <2>1. watched' \in BOOLEAN /\ (watched' => watched)
    BY <1>2 DEF EditInPlace, IInv, TypeOK
  <2> QED
    BY <1>2, <2>1, TouchedIInv, FileType DEF EditInPlace
<1>3. ASSUME NEW f \in Written, EditByRename(f) PROVE IInv'
  BY <1>3, TouchedIInv, FileType DEF EditByRename
<1> QED
  BY <1>1, <1>2, <1>3 DEF Editor

LEMMA NextIInv == IInv /\ [Next]_vars => IInv'
<1> SUFFICES ASSUME IInv, [Next]_vars PROVE IInv'
  OBVIOUS
<1>1. CASE UNCHANGED vars
  BY <1>1, StutterIInv
<1>2. CASE Program
  BY <1>2, FileChangedIInv, StoreBeginIInv, CommitIInv, StoreEndIInv DEF Program
<1>3. CASE Start
  BY <1>3, StartIInv
<1>4. CASE Quit
  BY <1>4, EndIInv DEF Quit
<1>5. ASSUME NEW c \in Content, GuiChange(c) \/ QuietChange(c) \/ RestChange(c) PROVE IInv'
  BY <1>5, GuiChangeIInv, QuietChangeIInv, RestChangeIInv
<1>6. CASE Editor
  BY <1>6, EditorIInv
<1> QED
  BY <1>1, <1>2, <1>3, <1>4, <1>5, <1>6 DEF Next, Environment

------------------------------------------------------------------------------
(* Types, for configurations of any items. *)
THEOREM TypeCorrect == Spec => []TypeOK
<1>1. IInv => TypeOK
  BY DEF IInv
<1> QED
  BY InitIInv, NextIInv, <1>1, PTL DEF Spec

(* At rest the file is watched, and it agrees with the memory in all items  *)
(* that mark their changes, but for the two gaps that timerEvent() and      *)
(* write_config_file() leave; the items that enable_backlight_control()     *)
(* changes without a mark are the third gap.                                *)
THEOREM SavedOrDirtyHolds == Spec => []SavedOrDirty
<1>1. IInv => SavedOrDirty
  BY DEF IInv
<1> QED
  BY InitIInv, NextIInv, <1>1, PTL DEF Spec

------------------------------------------------------------------------------
(* The lists under the REST interface. *)

(* A page that is being copied is the part of the list from its offset on,  *)
(* unless something was removed since the request was taken up.             *)
PagesHold ==
    \A t \in Threads : job[t].op = "list" /\ ~job[t].cut =>
        /\ job[t].offset + Len(job[t].page) <= Len(store)
        /\ job[t].asked.length # NoInt => Len(job[t].page) <= job[t].length
        /\ \A i \in 1 .. Len(job[t].page) : job[t].page[i] = store[job[t].offset + i]

(* Offset and length as the code reads them, and as they were asked for.    *)
ReadAsAsked ==
    \A t \in Threads : job[t].op = "list" /\ ~job[t].cut =>
        /\ ~job[t].beyond => job[t].offset = job[t].asked.offset
        /\ job[t].beyond /\ job[t].asked.length # Absent => job[t].length = 0
        /\ job[t].asked.length \in Nat => job[t].length <= job[t].asked.length

Walking(t) == job[t].op = "list" /\ job[t].walks

(* The walking client waits for one page at a time, the one after what it   *)
(* has; an empty page is asked for at the end of the list only.             *)
WalkersAsk ==
    \A t \in Threads : Walking(t) =>
        /\ walk.state = "asking"
        /\ \A u \in Threads : Walking(u) => u = t
        /\ job[t].offset = Len(walk.seen)
        /\ job[t].offset + job[t].length <= Len(store)
        /\ job[t].length = 0 => job[t].offset >= walk.first

(* The list is no shorter than at the beginning of the walk. *)
Footing == walk.first <= Len(store)

ServerInv ==
    RestTypeOK /\ PagesHold /\ ReadAsAsked /\ WalkersAsk /\ Footing /\ WalkSeesAll

------------------------------------------------------------------------------
(* Sequences. *)

LEMMA PrefixIs ==
    ASSUME NEW r \in Seq(Ids), NEW s \in Seq(Ids)
    PROVE  IsPrefix(r, s) <=>
               Len(r) <= Len(s) /\ \A i \in 1 .. Len(r) : r[i] = s[i]
BY DEF IsPrefix

LEMMA ConcatIs ==
    ASSUME NEW r \in Seq(Ids), NEW s \in Seq(Ids)
    PROVE  /\ r \o s \in Seq(Ids) /\ Len(r \o s) = Len(r) + Len(s)
           /\ \A i \in 1 .. Len(r) + Len(s) :
                  (r \o s)[i] = IF i <= Len(r) THEN r[i] ELSE s[i - Len(r)]
OBVIOUS

LEMMA ListsAre ==
    ASSUME MaxItems \in Nat
    PROVE  Lists = {s \in Seq(Ids) : Len(s) <= MaxItems}
<1>1. ASSUME NEW s \in Lists PROVE s \in Seq(Ids) /\ Len(s) <= MaxItems
  <2>1. PICK m \in 0 .. MaxItems : s \in [1 .. m -> Ids]
    BY DEF Lists, BoundedSeq, SeqOf
  <2>2. m \in Nat /\ Len(s) = m
    BY <2>1
  <2> QED
    BY <2>1, <2>2
<1>2. ASSUME NEW s \in Seq(Ids), Len(s) <= MaxItems PROVE s \in Lists
  <2>1. Len(s) \in 0 .. MaxItems /\ s \in [1 .. Len(s) -> Ids]
    BY <1>2
  <2> QED
    BY <2>1 DEF Lists, BoundedSeq, SeqOf
<1> QED
  BY <1>1, <1>2

LEMMA LessIsWellFounded ==
    IsWellFoundedOn({ss \in Nat \X Nat : ss[1] < ss[2]}, Nat)
BY NatLessThanWellFounded DEF OpToRel

(* Induction over numbers, stated with sets: a set of numbers that has 0    *)
(* and the successor of each of its members has all of them.                *)
LEMMA NumbersByInduction ==
    ASSUME NEW T \in SUBSET Nat, 0 \in T, \A n \in T : n + 1 \in T
    PROVE  T = Nat
<1> DEFINE R == {ss \in Nat \X Nat : ss[1] < ss[2]}
           C == Nat \ T
<1> SUFFICES ASSUME C # {} PROVE FALSE
  OBVIOUS
<1>1. IsWellFoundedOn(R, Nat) /\ C \subseteq Nat
  BY LessIsWellFounded
<1> HIDE DEF R, C
<1>2. PICK x \in C : \A y \in C : ~ (<<y, x>> \in R)
  BY <1>1, WFMin
<1>3. x \in Nat /\ x \notin T /\ x # 0
  BY DEF C
<1>4. x - 1 \in Nat /\ <<x - 1, x>> \in R
  BY <1>3 DEF R
<1>5. x - 1 \in T /\ (x - 1) + 1 = x
  BY <1>2, <1>3, <1>4 DEF C
<1> QED
  BY <1>3, <1>5

(* Kept(s, id) is the function its definition says. *)
LEMMA KeptIsDefined ==
    ASSUME NEW s \in Seq(Ids), NEW id
    PROVE  Kept(s, id) = [n \in 0 .. Len(s) |->
               IF n = 0 THEN <<>>
               ELSE IF s[n] = id THEN Kept(s, id)[n - 1]
               ELSE Append(Kept(s, id)[n - 1], s[n])]
<1> DEFINE Step(last, n) == IF s[n] = id THEN last ELSE Append(last, s[n])
           Is(f, N) == f = [n \in 0 .. N |-> IF n = 0 THEN <<>> ELSE Step(f[n - 1], n)]
           T == {N \in Nat : \E f : Is(f, N)}
<1>1. 0 \in T
  <2> DEFINE f == [n \in 0 .. 0 |-> <<>>]
  <2>1. Is(f, 0)
    <3> HIDE DEF Step
    <3> QED
      OBVIOUS
  <2> QED
    BY <2>1
<1>2. ASSUME NEW N \in T PROVE N + 1 \in T
  <2> HIDE DEF Step
  <2>1. PICK f : Is(f, N)
    OBVIOUS
  <2> DEFINE g == [n \in 0 .. N + 1 |-> IF n = N + 1 THEN Step(f[N], N + 1) ELSE f[n]]
  <2>2. ASSUME NEW n \in 0 .. N + 1
        PROVE  g[n] = IF n = 0 THEN <<>> ELSE Step(g[n - 1], n)
    <3>1. CASE n = N + 1
      <4>1. n # 0 /\ n - 1 = N /\ N \in 0 .. N + 1 /\ N # N + 1
        BY <3>1
      <4> QED
        BY <3>1, <4>1
    <3>2. CASE n # N + 1
      <4>1. n \in 0 .. N
        BY <3>2
      <4>2. f[n] = IF n = 0 THEN <<>> ELSE Step(f[n - 1], n)
        BY <2>1, <4>1
      <4>3. n # 0 => n - 1 \in 0 .. N + 1 /\ n - 1 # N + 1
        BY <4>1
      <4> QED
        BY <3>2, <4>2, <4>3
    <3> QED
      BY <3>1, <3>2
  <2>3. Is(g, N + 1)
    <3>1. g = [n \in 0 .. N + 1 |-> g[n]]
      OBVIOUS
    <3> HIDE DEF g
    <3> QED
      BY <2>2, <3>1
  <2>4. \E f2 : Is(f2, N + 1)
    <3> HIDE DEF g, Is
    <3> QED
      BY <2>3
  <2>5. N + 1 \in Nat
    OBVIOUS
  <2> HIDE DEF Is
  <2> QED
    BY <2>4, <2>5
<1> HIDE DEF T
<1>3. Len(s) \in T
  <2>1. T \subseteq Nat
    BY DEF T
  <2>2. T = Nat
    BY <1>1, <1>2, <2>1, NumbersByInduction
  <2> QED
    BY <2>2
<1>4. \E f : Is(f, Len(s))
  BY <1>3 DEF T
<1>5. Kept(s, id) = CHOOSE f : Is(f, Len(s))
  BY DEF Kept
<1> QED
  BY <1>4, <1>5

(* remove_if() leaves a list that is no longer, and the list itself if it   *)
(* has no such item.                                                        *)
LEMMA WithoutIs ==
    ASSUME NEW s \in Seq(Ids), NEW id
    PROVE  /\ Without(s, id) \in Seq(Ids)
           /\ Len(Without(s, id)) <= Len(s)
           /\ id \notin Range(s) => Without(s, id) = s
<1> DEFINE k == Kept(s, id)
           P(n) == /\ k[n] \in Seq(Ids)
                   /\ Len(k[n]) <= n
                   /\ id \notin Range(s) => k[n] = SubSeq(s, 1, n)
           T == {n \in Nat : n <= Len(s) => P(n)}
<1>1. \A n \in 0 .. Len(s) : k[n] = IF n = 0 THEN <<>>
                                    ELSE IF s[n] = id THEN k[n - 1] ELSE Append(k[n - 1], s[n])
  <2>1. k = [n \in 0 .. Len(s) |->
               IF n = 0 THEN <<>> ELSE IF s[n] = id THEN k[n - 1] ELSE Append(k[n - 1], s[n])]
    BY KeptIsDefined
  <2> HIDE DEF k
  <2> QED
    BY <2>1
<1> HIDE DEF k
<1>2. 0 \in T
  <2>1. 0 \in 0 .. Len(s)
    OBVIOUS
  <2>2. k[0] = <<>>
    BY <1>1, <2>1
  <2>3. SubSeq(s, 1, 0) = <<>> /\ <<>> \in Seq(Ids) /\ Len(<<>>) <= 0
    OBVIOUS
  <2>4. P(0)
    BY <2>2, <2>3
  <2> QED
    BY <2>4
<1>3. ASSUME NEW n \in T PROVE n + 1 \in T
  <2> SUFFICES ASSUME n + 1 <= Len(s) PROVE P(n + 1)
    OBVIOUS
  <2>1. n \in Nat /\ n + 1 \in 1 .. Len(s) /\ n + 1 # 0 /\ (n + 1) - 1 = n /\ s[n + 1] \in Ids
    OBVIOUS
  <2>2. P(n)
    BY <2>1
  <2>3. k[n + 1] = IF s[n + 1] = id THEN k[n] ELSE Append(k[n], s[n + 1])
    BY <1>1, <2>1
  <2>4. k[n + 1] \in Seq(Ids) /\ Len(k[n + 1]) <= n + 1
    BY <2>1, <2>2, <2>3
  <2>5. ASSUME id \notin Range(s) PROVE k[n + 1] = SubSeq(s, 1, n + 1)
    <3>1. s[n + 1] # id
      BY <2>1, <2>5 DEF Range
    <3>2. k[n + 1] = Append(SubSeq(s, 1, n), s[n + 1])
      BY <2>2, <2>3, <2>5, <3>1
    <3> QED
      BY <2>1, <3>2
  <2> QED
    BY <2>4, <2>5
<1>4. Len(s) \in Nat /\ T \subseteq Nat
  OBVIOUS
<1>5. Len(s) \in T
  <2> HIDE DEF T
  <2> QED
    BY <1>2, <1>3, <1>4, NumbersByInduction
<1>6. P(Len(s)) /\ SubSeq(s, 1, Len(s)) = s
  BY <1>5
<1> QED
  BY <1>6 DEF Without, k

------------------------------------------------------------------------------
(* Offset, length and page of a request. *)

LEMMA MinMaxOfTwo ==
    ASSUME NEW a \in Int, NEW b \in Int
    PROVE  /\ Min({a, b}) = IF a <= b THEN a ELSE b
           /\ Max({a, b}) = IF a >= b THEN a ELSE b
BY DEF Min, Max

Numbers == Int \cup {Absent, NoInt}

LEMMA QueriesAreNumbers ==
    Queries \subseteq Numbers
BY RestAssumption DEF Queries, Numbers

LEMMA OffsetIs ==
    ASSUME NEW q \in Numbers, NEW size \in Nat
    PROVE  Offset(q, size) =
               IF q \in Nat THEN (IF q <= size THEN q ELSE size) ELSE 0
<1>1. CASE q = Absent
  BY <1>1, RestAssumption DEF Offset
<1>2. CASE q # Absent
  <2> DEFINE val == IF q = NoInt THEN 0 ELSE q
  <2>1. val \in Int /\ (q \in Nat => val = q) /\ (q \notin Nat => val <= 0)
    BY <1>2, RestAssumption DEF Numbers
  <2>2. Offset(q, size) = Min({size, Max({0, val})})
    BY <1>2 DEF Offset, Within
  <2> HIDE DEF val
  <2>3. Max({0, val}) = IF 0 >= val THEN 0 ELSE val
    <3>1. 0 \in Int
      OBVIOUS
    <3> QED
      BY <2>1, <3>1, MinMaxOfTwo
  <2>4. Max({0, val}) \in Int
    BY <2>1, <2>3
  <2>5. Offset(q, size) =
            IF size <= Max({0, val}) THEN size ELSE Max({0, val})
    BY <2>2, <2>4, MinMaxOfTwo
  <2> QED
    BY <2>1, <2>3, <2>5
<1> QED
  BY <1>1, <1>2

(* A length that is no positive number is 1, none is the size. *)
LEMMA LengthIs ==
    ASSUME NEW q \in Numbers, NEW size \in Nat, NEW start \in 0 .. size
    PROVE  Length(q, size, start) =
               IF q = Absent THEN size
               ELSE LET most == IF q \in Nat \ {0} THEN q ELSE 1
                    IN  IF size - start <= most THEN size - start ELSE most
<1>1. CASE q = Absent
  BY <1>1 DEF Length
<1>2. CASE q # Absent
  <2> DEFINE val == IF q = NoInt THEN 1 ELSE q
             most == IF q \in Nat \ {0} THEN q ELSE 1
  <2>1. val \in Int /\ (q \in Nat \ {0} => val = q) /\ (q \notin Nat \ {0} => val <= 1)
    BY <1>2, RestAssumption DEF Numbers
  <2>2. Length(q, size, start) = Min({size - start, Max({1, val})})
    BY <1>2 DEF Length, Within
  <2> HIDE DEF val
  <2>3. Max({1, val}) = IF 1 >= val THEN 1 ELSE val
    <3>1. 1 \in Int
      OBVIOUS
    <3> QED
      BY <2>1, <3>1, MinMaxOfTwo
  <2>4. Max({1, val}) = most /\ most \in Int /\ size - start \in Int
    BY <2>1, <2>3
  <2> HIDE DEF most
  <2>5. Length(q, size, start) = IF size - start <= most THEN size - start ELSE most
    BY <2>2, <2>4, MinMaxOfTwo
  <2> QED
    BY <1>2, <2>5 DEF most
<1> QED
  BY <1>1, <1>2

(* The part of a list that a request asks for. *)
LEMMA DemandedIs ==
    ASSUME NEW s \in Seq(Ids), NEW asked \in Asked
    PROVE  LET part == Demanded(s, asked)
               rest == IF asked.offset <= Len(s) THEN Len(s) - asked.offset ELSE 0
           IN  /\ part \in Seq(Ids)
               /\ Len(part) = IF asked.length \in Nat /\ asked.length <= rest
                              THEN asked.length ELSE rest
               /\ \A i \in 1 .. Len(part) : part[i] = s[i + asked.offset]
<1> DEFINE skip == asked.offset
           size == Len(s)
           rest == Max({0, size - skip})
           most == IF asked.length \in Nat THEN asked.length ELSE rest
           n    == Min({most, rest})
           part == Demanded(s, asked)
<1>1. skip \in Nat /\ size \in Nat /\ size - skip \in Int /\ 0 \in Int
  BY DEF Asked
<1>2. part = [i \in 1 .. n |-> s[i + skip]]
  BY DEF Demanded
<1> HIDE DEF part
<1>3. rest = IF 0 >= size - skip THEN 0 ELSE size - skip
  BY <1>1, MinMaxOfTwo
<1>4. rest = (IF skip <= size THEN size - skip ELSE 0) /\ rest \in Nat
  BY <1>1, <1>3
<1> HIDE DEF rest
<1>5. most \in Nat
  BY <1>4
<1>6. n = IF most <= rest THEN most ELSE rest
  BY <1>4, <1>5, MinMaxOfTwo
<1> HIDE DEF n
<1>7. n \in Nat /\ n <= rest
  BY <1>4, <1>5, <1>6
<1>8. n = IF asked.length \in Nat /\ asked.length <= rest THEN asked.length ELSE rest
  BY <1>4, <1>6
<1>9. \A i \in 1 .. n : i + skip \in 1 .. size /\ s[i + skip] \in Ids
  BY <1>1, <1>4, <1>7
<1>10. part \in [1 .. n -> Ids]
  BY <1>2, <1>9
<1>11. part \in Seq(Ids) /\ Len(part) = n
  BY <1>7, <1>10
<1>12. \A i \in 1 .. n : part[i] = s[i + skip]
  BY <1>2
<1> QED
  BY <1>4, <1>8, <1>11, <1>12 DEF part

LEMMA AskedIs ==
    ASSUME NEW o \in Numbers, NEW l \in Numbers
    PROVE  LET asked == AsDocumented(o, l)
           IN  /\ asked \in Asked
               /\ asked.offset = IF o \in Nat THEN o ELSE 0
               /\ asked.length = IF l = Absent \/ l \in Nat \ {0} THEN l ELSE NoInt
BY DEF AsDocumented, Asked

(* What a request asks for lies within offset and length as the code reads  *)
(* them, if the length is omitted or a positive number.                     *)
LEMMA PageIs ==
    ASSUME NEW s \in Seq(Ids), NEW o \in Numbers, NEW l \in Numbers
    PROVE  LET start == Offset(o, Len(s))
               len   == Length(l, Len(s), start)
               asked == AsDocumented(o, l)
               page  == Demanded(s, asked)
           IN  /\ start \in 0 .. Len(s) /\ len \in Nat
               /\ page \in Seq(Ids)
               /\ asked.length # NoInt => Len(page) <= len
               /\ start + Len(page) <= Len(s)
               /\ \A i \in 1 .. Len(page) : page[i] = s[start + i]
               /\ asked.offset <= Len(s) => start = asked.offset
               /\ asked.offset > Len(s) /\ asked.length # Absent => len = 0
               /\ asked.length \in Nat => len <= asked.length
<1> DEFINE size  == Len(s)
           start == Offset(o, size)
           len   == Length(l, size, start)
           asked == AsDocumented(o, l)
           page  == Demanded(s, asked)
           rest  == IF asked.offset <= size THEN size - asked.offset ELSE 0
           most  == IF l \in Nat \ {0} THEN l ELSE 1
<1>1. size \in Nat /\ most \in Nat /\ Absent \notin Nat /\ NoInt \notin Nat
  BY RestAssumption
<1>2. /\ asked \in Asked /\ asked.offset = (IF o \in Nat THEN o ELSE 0)
      /\ asked.length = IF l = Absent \/ l \in Nat \ {0} THEN l ELSE NoInt
  BY AskedIs
<1>3. asked.offset \in Nat
  BY <1>2
<1>4. start = IF asked.offset <= size THEN asked.offset ELSE size
  BY <1>1, <1>2, OffsetIs
<1>5. start \in 0 .. size /\ start + rest = size
  BY <1>1, <1>3, <1>4
<1>6. len = IF l = Absent THEN size ELSE IF size - start <= most THEN size - start ELSE most
  BY <1>5, LengthIs
<1>7. /\ page \in Seq(Ids)
      /\ Len(page) = IF asked.length \in Nat /\ asked.length <= rest THEN asked.length ELSE rest
      /\ \A i \in 1 .. Len(page) : page[i] = s[i + asked.offset]
  BY <1>2, DemandedIs
<1> HIDE DEF start, len, asked, page
<1>8. len \in Nat /\ Len(page) \in Nat /\ rest \in Nat
  BY <1>1, <1>3, <1>5, <1>6, <1>7
<1>9. Len(page) <= rest
  BY <1>3, <1>7, <1>8
<1>10. ASSUME asked.length # NoInt PROVE Len(page) <= len
  <2>1. CASE l = Absent
    <3>1. len = size /\ rest <= size
      BY <1>1, <1>3, <1>6, <2>1
    <3> QED
      BY <1>1, <1>8, <1>9, <3>1
  <2>2. CASE l # Absent
    <3>1. l \in Nat \ {0} /\ asked.length = l /\ most = l
      BY <1>2, <1>10, <2>2
    <3>2. Len(page) = IF l <= rest THEN l ELSE rest
      BY <1>7, <3>1
    <3>3. len = IF rest <= l THEN rest ELSE l
      BY <1>1, <1>5, <1>6, <1>8, <2>2, <3>1
    <3> QED
      BY <1>8, <3>1, <3>2, <3>3
  <2> QED
    BY <2>1, <2>2
<1>11. start + Len(page) <= size
  BY <1>1, <1>5, <1>8, <1>9
<1>12. ASSUME NEW i \in 1 .. Len(page) PROVE page[i] = s[start + i]
  <2>1. asked.offset <= size
    BY <1>8, <1>9, <1>12
  <2>2. start = asked.offset /\ i + asked.offset = start + i
    BY <1>3, <1>4, <1>8, <1>12, <2>1
  <2> QED
    BY <1>7, <1>12, <2>2
<1>13. asked.offset > size /\ asked.length # Absent => len = 0
  <2> SUFFICES ASSUME asked.offset > size, asked.length # Absent PROVE len = 0
    OBVIOUS
  <2>1. l # Absent
    BY <1>2
  <2>2. size - start = 0 /\ 0 <= most
    BY <1>1, <1>3, <1>4
  <2> QED
    BY <1>6, <2>1, <2>2
<1>14. asked.length \in Nat => len <= asked.length
  <2> SUFFICES ASSUME asked.length \in Nat PROVE len <= asked.length
    OBVIOUS
  <2>1. l \in Nat \ {0} /\ l # Absent /\ asked.length = l /\ most = l
    BY <1>1, <1>2
  <2> QED
    BY <1>1, <1>5, <1>6, <1>8, <2>1
<1> QED
  BY <1>4, <1>5, <1>8, <1>7, <1>10, <1>11, <1>12, <1>13, <1>14 DEF start, len, asked, page

(* What is copied in the end. *)
LEMMA CopiedIs ==
    ASSUME NEW s \in Seq(Ids), NEW start \in 0 .. Len(s), NEW len \in Nat
    PROVE  LET copy == Range0(s, start, len)
           IN  /\ copy \in Seq(Ids)
               /\ Len(copy) = IF start + len <= Len(s) THEN len ELSE Len(s) - start
               /\ \A i \in 1 .. Len(copy) : copy[i] = s[start + i]
<1> DEFINE copy == Range0(s, start, len)
           end  == Min({start + len, Len(s)})
<1>1. Len(s) \in Nat /\ Len(s) \in Int /\ start + len \in Int
  OBVIOUS
<1>2. end = IF start + len <= Len(s) THEN start + len ELSE Len(s)
  BY <1>1, MinMaxOfTwo
<1>3. copy = SubSeq(s, start + 1, end)
  BY DEF Range0
<1> HIDE DEF end, copy
<1>4. end \in Nat /\ end >= start /\ end <= Len(s)
  BY <1>1, <1>2
<1>5. copy = [i \in 1 .. end - start |-> s[start + i]]
  BY <1>3, <1>4
<1>6. \A i \in 1 .. end - start : start + i \in 1 .. Len(s) /\ s[start + i] \in Ids
  BY <1>1, <1>4
<1>7. copy \in [1 .. end - start -> Ids] /\ end - start \in Nat
  BY <1>4, <1>5, <1>6
<1>8. copy \in Seq(Ids) /\ Len(copy) = end - start
  BY <1>7
<1> QED
  BY <1>1, <1>2, <1>5, <1>8 DEF copy

------------------------------------------------------------------------------
(* The steps of the threads. *)

LEMMA Typed ==
    ASSUME RestTypeOK
    PROVE  /\ store \in Seq(Ids) /\ rows \in Seq(Ids) /\ walk.seen \in Seq(Ids)
           /\ Len(store) <= MaxItems /\ walk.first \in Nat
           /\ <<>> \in Lists /\ MaxItems \in Nat
<1>1. MaxItems \in Nat
  BY RestAssumption
<1>2. Lists = {s \in Seq(Ids) : Len(s) <= MaxItems}
  BY <1>1, ListsAre
<1> QED
  BY <1>1, <1>2 DEF RestTypeOK

LEMMA ListJob ==
    ASSUME NEW j \in Jobs, j.op = "list"
    PROVE  /\ j.offset \in Nat /\ j.length \in Nat /\ j.page \in Seq(Ids)
           /\ j.walks \in BOOLEAN /\ j.cut \in BOOLEAN
           /\ j.asked \in Asked /\ j.beyond \in BOOLEAN
BY DEF Jobs, Listing, Idle

(* The list grows at its end, and no request to list is taken up: what held *)
(* of pages, of the walk and of the rows still holds.                       *)
LEMMA Grows ==
    ASSUME ServerInv,
           store' \in Seq(Ids), Len(store) <= Len(store'),
           \A i \in 1 .. Len(store) : store'[i] = store[i],
           \A t \in Threads : job'[t] = job[t] \/ job'[t].op # "list",
           UNCHANGED <<rows, pristine, walk>>
    PROVE  PagesHold' /\ ReadAsAsked' /\ WalkersAsk' /\ Footing' /\ WalkSeesAll'
<1>1. /\ store \in Seq(Ids) /\ rows \in Seq(Ids) /\ walk.seen \in Seq(Ids)
      /\ walk.first \in Nat /\ job \in [Threads -> Jobs]
  BY Typed DEF ServerInv, RestTypeOK
<1>2. PagesHold'
  <2> SUFFICES ASSUME NEW t \in Threads, (job[t].op = "list" /\ ~job[t].cut)'
               PROVE  (/\ job[t].offset + Len(job[t].page) <= Len(store)
                       /\ job[t].asked.length # NoInt => Len(job[t].page) <= job[t].length
                       /\ \A i \in 1 .. Len(job[t].page) : job[t].page[i] = store[job[t].offset + i])'
    BY DEF PagesHold
  <2>1. job'[t] = job[t]
    OBVIOUS
  <2>2. /\ job[t].offset + Len(job[t].page) <= Len(store)
        /\ job[t].asked.length # NoInt => Len(job[t].page) <= job[t].length
        /\ \A i \in 1 .. Len(job[t].page) : job[t].page[i] = store[job[t].offset + i]
    BY <2>1 DEF ServerInv, PagesHold
  <2>3. job[t].offset \in Nat /\ Len(job[t].page) \in Nat /\ Len(store) \in Nat /\ Len(store') \in Nat
    BY <1>1, <2>1, ListJob
  <2>4. \A i \in 1 .. Len(job[t].page) : job[t].offset + i \in 1 .. Len(store)
    BY <2>2, <2>3
  <2>5. \A i \in 1 .. Len(job[t].page) : job[t].page[i] = store'[job[t].offset + i]
    BY <2>2, <2>4
  <2>6. job[t].offset + Len(job[t].page) <= Len(store')
    BY <2>2, <2>3
  <2> QED
    BY <2>1, <2>2, <2>5, <2>6
<1>3. WalkersAsk'
  <2> SUFFICES ASSUME NEW t \in Threads, Walking(t)'
               PROVE  (/\ walk.state = "asking"
                       /\ \A u \in Threads : Walking(u) => u = t
                       /\ job[t].offset = Len(walk.seen)
                       /\ job[t].offset + job[t].length <= Len(store)
                       /\ job[t].length = 0 => job[t].offset >= walk.first)'
    BY DEF WalkersAsk
  <2>1. \A u \in Threads : Walking(u)' => job'[u] = job[u] /\ Walking(u)
    BY DEF Walking
  <2>2. /\ walk.state = "asking"
        /\ \A u \in Threads : Walking(u) => u = t
        /\ job[t].offset = Len(walk.seen)
        /\ job[t].offset + job[t].length <= Len(store)
        /\ job[t].length = 0 => job[t].offset >= walk.first
    BY <2>1 DEF ServerInv, WalkersAsk
  <2>3. job[t].offset \in Nat /\ job[t].length \in Nat /\ Len(store) \in Nat /\ Len(store') \in Nat
    BY <1>1, <2>1, ListJob DEF Walking
  <2> QED
    BY <2>1, <2>2, <2>3
<1>4. Footing'
  <2>1. walk.first <= Len(store) /\ Len(store) \in Nat /\ Len(store') \in Nat
    BY <1>1 DEF ServerInv, Footing
  <2> QED
    BY <1>1, <2>1 DEF Footing
<1>5. WalkSeesAll'
  <2>1. ASSUME NEW r \in Seq(Ids), IsPrefix(r, store) PROVE IsPrefix(r, store')
    <3>1. Len(r) <= Len(store) /\ \A i \in 1 .. Len(r) : r[i] = store[i]
      BY <1>1, <2>1, PrefixIs
    <3>2. Len(r) \in Nat /\ Len(store) \in Nat /\ Len(store') \in Nat
      BY <1>1
    <3>3. Len(r) <= Len(store') /\ \A i \in 1 .. Len(r) : r[i] = store'[i]
      BY <3>1, <3>2
    <3> QED
      BY <3>3, PrefixIs
  <2> QED
    BY <1>1, <2>1 DEF ServerInv, WalkSeesAll
<1>6. ReadAsAsked'
  <2>1. \A t \in Threads : job'[t].op = "list" => job'[t] = job[t]
    OBVIOUS
  <2> QED
    BY <2>1 DEF ServerInv, ReadAsAsked
<1> QED
  BY <1>2, <1>3, <1>4, <1>5, <1>6

(* Something was removed: no page is whole, nobody walks. *)
LEMMA RemovedInv ==
    ASSUME ServerInv, NEW ids, NEW by, Removed(ids, by),
           store' \in Lists, rows' = rows, broken' = broken
    PROVE  ServerInv'
<1>1. /\ store \in Seq(Ids) /\ rows \in Seq(Ids) /\ rows \in Lists
      /\ <<>> \in Lists /\ MaxItems \in Nat /\ broken \in BOOLEAN
      /\ job \in [Threads -> Jobs]
  BY Typed DEF ServerInv, RestTypeOK
<1>2. walk' = [state |-> "off", first |-> 0, seen |-> <<>>]
  BY DEF Removed, NoWalk
<1>3. ASSUME NEW t \in Threads
      PROVE  /\ job'[t] \in Jobs
             /\ job'[t].op = "list" => job'[t].cut /\ ~job'[t].walks
  <2>1. job[t] \in Jobs
    BY <1>1
  <2>2. job'[t] = IF t = by THEN Idle
               ELSE CASE job[t].op = "get" /\ job[t].id \in ids -> [job[t] EXCEPT !.freed = TRUE]
                      [] job[t].op = "list" ->
                             [job[t] EXCEPT !.walks = FALSE, !.asked = Forgotten, !.page = <<>>,
                                            !.beyond = FALSE, !.cut = TRUE]
                      [] OTHER -> job[t]
    BY DEF Removed
  <2>3. CASE t = by
    <3>1. job'[t] = Idle
      BY <2>2, <2>3
    <3> QED
      BY <3>1 DEF Jobs, Idle
  <2>4. CASE t # by /\ job[t].op = "list"
    <3>1. job'[t] = [job[t] EXCEPT !.walks = FALSE, !.asked = Forgotten, !.page = <<>>,
                                   !.beyond = FALSE, !.cut = TRUE]
      BY <2>2, <2>4
    <3>2. job[t] \in Listing
      BY <2>1, <2>4 DEF Jobs, Idle
    <3>3. <<>> \in Seq(Ids) /\ Forgotten \in Asked
      BY DEF Forgotten, Asked
    <3>4. /\ job'[t] \in Listing
          /\ job'[t].cut = TRUE /\ job'[t].walks = FALSE
      <4> HIDE DEF Forgotten, Asked
      <4> QED
        BY <3>1, <3>2, <3>3 DEF Listing
    <3> QED
      BY <3>4 DEF Jobs
  <2>5. CASE t # by /\ job[t].op = "get" /\ job[t].id \in ids
    <3>1. job'[t] = [job[t] EXCEPT !.freed = TRUE]
      BY <2>2, <2>5
    <3>2. job[t] \in [op : {"get"}, id : Ids, freed : BOOLEAN]
      BY <2>1, <2>5 DEF Jobs, Listing, Idle
    <3>3. job'[t] \in [op : {"get"}, id : Ids, freed : BOOLEAN]
      BY <3>1, <3>2
    <3> QED
      BY <3>3 DEF Jobs
  <2>6. CASE t # by /\ job[t].op # "list" /\ ~(job[t].op = "get" /\ job[t].id \in ids)
    <3>1. job'[t] = job[t]
      BY <2>2, <2>6
    <3> QED
      BY <2>1, <2>6, <3>1
  <2> QED
    BY <2>3, <2>4, <2>5, <2>6
<1>4. RestTypeOK'
  <2>1. job' \in [Threads -> Jobs]
    BY <1>3 DEF Removed
  <2>2. pristine' \in BOOLEAN
    BY DEF Removed
  <2> QED
    BY <1>1, <1>2, <2>1, <2>2 DEF RestTypeOK
<1>5. PagesHold' /\ ReadAsAsked' /\ WalkersAsk'
  BY <1>3 DEF PagesHold, ReadAsAsked, WalkersAsk, Walking
<1>6. store' \in Seq(Ids)
  BY <1>1, ListsAre
<1>7. Footing'
  BY <1>2, <1>6 DEF Footing
<1>8. WalkSeesAll'
  <2>1. <<>> \in Seq(Ids) /\ IsPrefix(<<>>, store')
    <3>1. <<>> \in Seq(Ids) /\ Len(<<>>) = 0 /\ Len(store') \in Nat
      BY <1>6
    <3>2. Len(<<>>) <= Len(store') /\ \A i \in 1 .. Len(<<>>) : <<>>[i] = store'[i]
      BY <3>1
    <3> QED
      BY <1>6, <3>1, <3>2, PrefixIs
  <2>2. pristine' => rows' = <<>>
    BY DEF Removed
  <2> QED
    BY <1>2, <2>1, <2>2 DEF WalkSeesAll
<1> QED
  BY <1>4, <1>5, <1>7, <1>8 DEF ServerInv

(* A step that leaves lists and walk alone, and of the jobs changes one to  *)
(* something else than a list.                                              *)
LEMMA JobInv ==
    ASSUME ServerInv, NEW t \in Threads,
           NEW j \in Jobs, j.op # "list", job' = [job EXCEPT ![t] = j],
           broken' \in BOOLEAN, UNCHANGED <<store, rows, pristine, walk>>
    PROVE  ServerInv'
<1>1. job \in [Threads -> Jobs] /\ store \in Seq(Ids)
  BY Typed DEF ServerInv, RestTypeOK
<1>2. RestTypeOK'
  BY <1>1 DEF ServerInv, RestTypeOK
<1>3. \A u \in Threads : job'[u] = job[u] \/ job'[u].op # "list"
  BY <1>1
<1>4. /\ store' \in Seq(Ids) /\ Len(store) <= Len(store')
      /\ \A i \in 1 .. Len(store) : store'[i] = store[i]
  BY <1>1
<1>5. PagesHold' /\ ReadAsAsked' /\ WalkersAsk' /\ Footing' /\ WalkSeesAll'
  BY <1>3, <1>4, Grows
<1> QED
  BY <1>2, <1>5 DEF ServerInv

(* A request to list: by anyone, or by the client that walks. *)
LEMMA ListBeginInv ==
    ASSUME ServerInv, NEW t \in Threads,
           NEW o \in Numbers, NEW l \in Numbers, NEW walks \in BOOLEAN,
           ListBegin(t, o, l, walks),
           \/ ~walks /\ walk' = walk
           \/ /\ walks /\ walk.state = "on" /\ walk' = [walk EXCEPT !.state = "asking"]
              /\ o = Len(walk.seen) /\ l = PageSize,
           UNCHANGED <<store, rows, pristine, broken>>
    PROVE  ServerInv'
<1> DEFINE start == Offset(o, Len(store))
           len   == Length(l, Len(store), start)
           asked == AsDocumented(o, l)
           page  == Demanded(store, asked)
           j     == [op |-> "list", offset |-> start, length |-> len,
                     walks |-> walks, asked |-> asked, page |-> page,
                     beyond |-> asked.offset > Len(store), cut |-> FALSE]
<1>1. /\ store \in Seq(Ids) /\ rows \in Seq(Ids) /\ walk.seen \in Seq(Ids)
      /\ walk.first \in Nat /\ job \in [Threads -> Jobs]
      /\ walk \in [state : {"off", "on", "asking", "done"}, first : 0 .. MaxItems,
                   seen : Lists]
  BY Typed DEF ServerInv, RestTypeOK
<1>2. job' = [job EXCEPT ![t] = j]
  BY DEF ListBegin
<1>3. /\ start \in 0 .. Len(store) /\ len \in Nat
      /\ page \in Seq(Ids)
      /\ asked.length # NoInt => Len(page) <= len
      /\ start + Len(page) <= Len(store)
      /\ \A i \in 1 .. Len(page) : page[i] = store[start + i]
      /\ asked.offset <= Len(store) => start = asked.offset
      /\ asked.offset > Len(store) /\ asked.length # Absent => len = 0
      /\ asked.length \in Nat => len <= asked.length
  BY <1>1, PageIs
<1>4. walks => /\ start = Len(walk.seen)
               /\ start + len <= Len(store)
               /\ len = 0 => start >= walk.first
  <2> SUFFICES ASSUME walks
               PROVE  /\ start = Len(walk.seen)
                      /\ start + len <= Len(store)
                      /\ len = 0 => start >= walk.first
    OBVIOUS
  <2>1. o = Len(walk.seen) /\ l = PageSize
    OBVIOUS
  <2>2. Len(walk.seen) \in Nat /\ Len(store) \in Nat /\ Len(walk.seen) <= Len(store)
    BY <1>1, PrefixIs DEF ServerInv, WalkSeesAll
  <2>3. start = Len(walk.seen)
    BY <2>1, <2>2, OffsetIs
  <2>4. PageSize \in Nat \ {0} /\ PageSize # Absent
    BY RestAssumption
  <2>5. len = IF Len(store) - start <= PageSize THEN Len(store) - start ELSE PageSize
    BY <1>3, <2>1, <2>2, <2>4, LengthIs
  <2>6. walk.first <= Len(store)
    BY DEF ServerInv, Footing
  <2> QED
    BY <1>1, <2>2, <2>3, <2>4, <2>5, <2>6
<1>5. start \in Nat /\ asked \in Asked /\ asked.offset \in Nat /\ Len(store) \in Nat
  <2>1. asked \in Asked /\ start \in 0 .. Len(store)
    BY <1>3, AskedIs
  <2> HIDE DEF start, asked
  <2> QED
    BY <1>1, <2>1 DEF Asked
<1> HIDE DEF start, len, asked, page
<1>6. j \in Jobs
  <2>1. j \in Listing
    BY <1>3, <1>5 DEF Listing
  <2> QED
    BY <2>1 DEF Jobs
<1>7. RestTypeOK'
  <2>1. job' \in [Threads -> Jobs]
    BY <1>1, <1>2, <1>6
  <2>2. walk' \in [state : {"off", "on", "asking", "done"}, first : 0 .. MaxItems,
                   seen : Lists]
    BY <1>1
  <2> QED
    BY <2>1, <2>2 DEF ServerInv, RestTypeOK
<1>8. PagesHold'
  <2> SUFFICES ASSUME NEW u \in Threads, (job[u].op = "list" /\ ~job[u].cut)'
               PROVE  (/\ job[u].offset + Len(job[u].page) <= Len(store)
                       /\ job[u].asked.length # NoInt => Len(job[u].page) <= job[u].length
                       /\ \A i \in 1 .. Len(job[u].page) : job[u].page[i] = store[job[u].offset + i])'
    BY DEF PagesHold
  <2>1. CASE u = t
    <3>1. job'[u] = j
      BY <1>1, <1>2, <2>1
    <3> QED
      BY <1>3, <3>1
  <2>2. CASE u # t
    <3>1. job'[u] = job[u]
      BY <1>1, <1>2, <2>2
    <3> QED
      BY <3>1 DEF ServerInv, PagesHold
  <2> QED
    BY <2>1, <2>2
<1>9. WalkersAsk'
  <2>1. job'[t] = j
    BY <1>1, <1>2
  <2>2. \A u \in Threads \ {t} : job'[u] = job[u]
    BY <1>1, <1>2
  <2>3. CASE ~walks
    <3>1. \A u \in Threads : Walking(u)' => u # t /\ job'[u] = job[u] /\ Walking(u)
      BY <2>1, <2>2, <2>3 DEF Walking
    <3>2. walk' = walk /\ store' = store
      BY <2>3
    <3> QED
      BY <3>1, <3>2 DEF ServerInv, WalkersAsk
  <2>4. CASE walks
    <3>1. walk.state = "on"
      BY <2>4
    <3>2. \A u \in Threads : ~Walking(u)
      BY <3>1 DEF ServerInv, WalkersAsk
    <3>3. \A u \in Threads : Walking(u)' => u = t
      BY <2>2, <3>2 DEF Walking
    <3>4. walk'.state = "asking" /\ walk'.seen = walk.seen /\ walk'.first = walk.first
      BY <1>1, <2>4
    <3>5. j.offset = start /\ j.length = len
      OBVIOUS
    <3> QED
      BY <1>4, <2>1, <2>4, <3>3, <3>4, <3>5 DEF WalkersAsk
  <2> QED
    BY <2>3, <2>4
<1>10. walk'.seen = walk.seen /\ walk'.first = walk.first /\ (walk'.state = "done" => walk.state = "done")
  BY <1>1
<1>11. Footing'
  BY <1>10 DEF ServerInv, Footing
<1>12. WalkSeesAll'
  BY <1>10 DEF ServerInv, WalkSeesAll, IsPrefix
<1>13. ReadAsAsked'
  <2> SUFFICES ASSUME NEW u \in Threads, (job[u].op = "list" /\ ~job[u].cut)'
               PROVE  (/\ ~job[u].beyond => job[u].offset = job[u].asked.offset
                       /\ job[u].beyond /\ job[u].asked.length # Absent => job[u].length = 0
                       /\ job[u].asked.length \in Nat => job[u].length <= job[u].asked.length)'
    BY DEF ReadAsAsked
  <2>1. CASE u = t
    <3>1. job'[u] = j
      BY <1>1, <1>2, <2>1
    <3>2. /\ j.offset = start /\ j.length = len /\ j.asked = asked
          /\ j.beyond = (asked.offset > Len(store))
      BY Zenon
    <3> HIDE DEF j
    <3>3. ~(asked.offset > Len(store)) => asked.offset <= Len(store)
      BY <1>5
    <3>4. ~j.beyond => start = asked.offset
      BY <1>3, <3>2, <3>3, Zenon
    <3>5. j.beyond /\ asked.length # Absent => len = 0
      BY <1>3, <3>2, Zenon
    <3> QED
      BY <1>3, <3>1, <3>2, <3>4, <3>5, Zenon
  <2>2. CASE u # t
    <3>1. job'[u] = job[u]
      BY <1>1, <1>2, <2>2
    <3> QED
      BY <3>1 DEF ServerInv, ReadAsAsked
  <2> QED
    BY <2>1, <2>2
<1> QED
  BY <1>7, <1>8, <1>9, <1>11, <1>12, <1>13 DEF ServerInv

(* What a thread copies in the end. *)
LEMMA ServedIs ==
    ASSUME RestTypeOK, NEW t \in Threads,
           job[t].op = "list", job[t].offset <= Len(store)
    PROVE  LET served == Served(t)
               rest   == Len(store) - job[t].offset
           IN  /\ served \in Seq(Ids)
               /\ Len(served) = IF job[t].length <= rest THEN job[t].length ELSE rest
               /\ \A i \in 1 .. Len(served) : served[i] = store[job[t].offset + i]
<1>1. store \in Seq(Ids) /\ job[t] \in Jobs
  BY Typed DEF RestTypeOK
<1>2. job[t].offset \in Nat /\ job[t].length \in Nat /\ Len(store) \in Nat
  BY <1>1, ListJob
<1>3. job[t].offset \in 0 .. Len(store)
  BY <1>2
<1> DEFINE off  == job[t].offset
           len  == job[t].length
           copy == Range0(store, off, len)
<1>4. off \in 0 .. Len(store) /\ len \in Nat
  BY <1>2, <1>3
<1> HIDE DEF off, len
<1>5. /\ copy \in Seq(Ids)
      /\ Len(copy) = IF off + len <= Len(store) THEN len ELSE Len(store) - off
      /\ \A i \in 1 .. Len(copy) : copy[i] = store[off + i]
  BY <1>1, <1>4, CopiedIs
<1>6. Served(t) = copy
  BY DEF Served, off, len
<1> HIDE DEF copy
<1> QED
  BY <1>2, <1>4, <1>5, <1>6 DEF off, len

LEMMA ListEndInv ==
    ASSUME ServerInv, NEW t \in Threads, ListEnd(t)
    PROVE  ServerInv'
<1>1. /\ store \in Seq(Ids) /\ walk.seen \in Seq(Ids) /\ walk.first \in Nat
      /\ Len(store) <= MaxItems /\ MaxItems \in Nat
      /\ job \in [Threads -> Jobs] /\ broken \in BOOLEAN
      /\ walk \in [state : {"off", "on", "asking", "done"}, first : 0 .. MaxItems,
                   seen : Lists]
  BY Typed DEF ServerInv, RestTypeOK
<1>2. Idle \in Jobs /\ Idle.op # "list"
  BY DEF Jobs, Idle
<1>3. /\ job[t].op = "list" /\ job' = [job EXCEPT ![t] = Idle]
      /\ UNCHANGED <<store, rows, pristine, broken>>
  BY DEF ListEnd
<1>4. CASE ~job[t].walks
  <2>1. walk' = walk
    BY <1>4 DEF ListEnd
  <2> QED
    BY <1>1, <1>2, <1>3, <2>1, JobInv
<1>5. CASE job[t].walks
  <2>1. Walking(t)
    BY <1>3, <1>5 DEF Walking
  <2>2. /\ \A u \in Threads : Walking(u) => u = t
        /\ job[t].offset = Len(walk.seen)
        /\ job[t].offset + job[t].length <= Len(store)
        /\ job[t].length = 0 => job[t].offset >= walk.first
    BY <2>1 DEF ServerInv, WalkersAsk
  <2>3. job[t].offset \in Nat /\ job[t].length \in Nat /\ Len(store) \in Nat
    BY <1>1, <1>3, ListJob
  <2>4. job[t].offset <= Len(store) /\ ~Fails(t)
    BY <2>2, <2>3 DEF Fails
  <2> DEFINE served == Served(t)
             more   == walk.seen \o served
  <2>5. /\ served \in Seq(Ids)
        /\ Len(served) = job[t].length
        /\ \A i \in 1 .. Len(served) : served[i] = store[job[t].offset + i]
    <3>1. job[t].length <= Len(store) - job[t].offset
      BY <2>2, <2>3
    <3>2. RestTypeOK
      BY DEF ServerInv
    <3> QED
      BY <1>3, <2>4, <3>1, <3>2, ServedIs
  <2>6. walk' = IF served = <<>> THEN [walk EXCEPT !.state = "done"]
                ELSE [walk EXCEPT !.state = "on", !.seen = more]
    BY <1>5, <2>4 DEF ListEnd
  <2> HIDE DEF served
  <2>7. more \in Seq(Ids) /\ Len(more) = Len(walk.seen) + Len(served)
    BY <1>1, <2>5, ConcatIs
  <2>8. Len(more) <= Len(store)
    BY <2>2, <2>5, <2>7
  <2>9. \A i \in 1 .. Len(walk.seen) : walk.seen[i] = store[i]
    BY <1>1, PrefixIs DEF ServerInv, WalkSeesAll
  <2>10. \A i \in 1 .. Len(more) : more[i] = store[i]
    <3> SUFFICES ASSUME NEW i \in 1 .. Len(more) PROVE more[i] = store[i]
      OBVIOUS
    <3>1. CASE i <= Len(walk.seen)
      <4>1. more[i] = walk.seen[i]
        BY <1>1, <2>5, <2>7, <3>1, ConcatIs
      <4> QED
        BY <1>1, <2>9, <3>1, <4>1
    <3>2. CASE i > Len(walk.seen)
      <4>1. i - Len(walk.seen) \in 1 .. Len(served)
        BY <1>1, <2>5, <2>7, <3>2
      <4>2. more[i] = served[i - Len(walk.seen)]
        BY <1>1, <2>5, <2>7, <3>2, ConcatIs
      <4>3. job[t].offset + (i - Len(walk.seen)) = i
        BY <1>1, <2>2, <4>1
      <4> QED
        BY <2>5, <4>1, <4>2, <4>3
    <3> QED
      BY <1>1, <3>1, <3>2
  <2>11. IsPrefix(more, store)
    <3> HIDE DEF more
    <3> QED
      BY <1>1, <2>7, <2>8, <2>10, PrefixIs
  <2>12. more \in Lists
    <3>1. Len(more) <= MaxItems
      BY <1>1, <2>7, <2>8, <2>3
    <3> HIDE DEF more
    <3> QED
      BY <1>1, <2>7, <3>1, ListsAre
  <2> HIDE DEF more
  <2>13. /\ walk' \in [state : {"off", "on", "asking", "done"}, first : 0 .. MaxItems,
                       seen : Lists]
         /\ walk'.first = walk.first
         /\ walk'.seen = walk.seen \/ walk'.seen = more
         /\ walk'.state = "done" => walk'.seen = walk.seen /\ served = <<>>
    BY <1>1, <2>6, <2>12
  <2>14. job' \in [Threads -> Jobs] /\ \A u \in Threads : ~Walking(u)'
    BY <1>1, <1>2, <1>3, <2>2 DEF Walking
  <2>15. RestTypeOK'
    BY <1>3, <2>13, <2>14 DEF ServerInv, RestTypeOK
  <2>16. PagesHold' /\ ReadAsAsked'
    <3>1. \A u \in Threads : job'[u].op = "list" => job'[u] = job[u]
      BY <1>1, <1>2, <1>3
    <3> QED
      BY <1>3, <3>1 DEF ServerInv, PagesHold, ReadAsAsked
  <2>17. WalkersAsk' /\ Footing'
    BY <1>3, <2>13, <2>14 DEF ServerInv, WalkersAsk, Footing
  <2>18. WalkSeesAll'
    <3>1. walk'.state = "done" => Len(walk'.seen) >= walk'.first
      <4>1. served = <<>> => job[t].length = 0
        BY <2>5
      <4> QED
        BY <2>2, <2>13, <4>1
    <3>2. IsPrefix(walk.seen, store) /\ (pristine => IsPrefix(rows, store))
      BY DEF ServerInv, WalkSeesAll
    <3>3. store' = store /\ rows' = rows /\ pristine' = pristine
      BY <1>3
    <3> QED
      BY <2>11, <2>13, <3>1, <3>2, <3>3 DEF WalkSeesAll
  <2> QED
    BY <2>15, <2>16, <2>17, <2>18 DEF ServerInv
<1>6. job[t].walks \in BOOLEAN
  BY <1>1, <1>3, ListJob
<1> QED
  BY <1>4, <1>5, <1>6

(* get, and the beginning of add and delete. *)
LEMMA OtherRequestsInv ==
    ASSUME ServerInv, NEW t \in Threads, NEW id \in Ids \cup {Nobody},
           \/ GetBegin(t, id) \/ GetEnd(t)
           \/ ChangeBegin(t, "add", id) \/ ChangeBegin(t, "delete", id)
    PROVE  ServerInv'
<1>1. store \in Seq(Ids) /\ broken \in BOOLEAN /\ job \in [Threads -> Jobs]
  BY Typed DEF ServerInv, RestTypeOK
<1>2. CASE GetBegin(t, id)
  <2> DEFINE j == [op |-> "get", id |-> id, freed |-> FALSE]
  <2>1. id \in Ids
    BY <1>1, <1>2 DEF GetBegin, Range
  <2>2. j \in Jobs /\ j.op # "list"
    BY <2>1 DEF Jobs
  <2>3. job' = [job EXCEPT ![t] = j] /\ UNCHANGED <<store, rows, pristine, walk, broken>>
    BY <1>2 DEF GetBegin
  <2> HIDE DEF j
  <2> QED
    BY <1>1, <2>2, <2>3, JobInv
<1>3. CASE GetEnd(t)
  <2>1. job[t].op = "get" /\ broken' = job[t].freed /\ job' = [job EXCEPT ![t] = Idle]
        /\ UNCHANGED <<store, rows, pristine, walk>>
    BY <1>3 DEF GetEnd
  <2>2. broken' \in BOOLEAN
    BY <1>1, <2>1 DEF Jobs, Listing, Idle
  <2>3. Idle \in Jobs /\ Idle.op # "list"
    BY DEF Jobs, Idle
  <2> QED
    BY <2>1, <2>2, <2>3, JobInv
<1>4. ASSUME NEW op \in {"add", "delete"}, ChangeBegin(t, op, id) PROVE ServerInv'
  <2> DEFINE j == [op |-> op, id |-> id]
  <2>1. j \in Jobs /\ j.op # "list"
    BY DEF Jobs
  <2>2. job' = [job EXCEPT ![t] = j] /\ UNCHANGED <<store, rows, pristine, walk, broken>>
    BY <1>4 DEF ChangeBegin
  <2> HIDE DEF j
  <2> QED
    BY <1>1, <2>1, <2>2, JobInv
<1> QED
  BY <1>2, <1>3, <1>4

LEMMA AddEndInv ==
    ASSUME ServerInv, NEW t \in Threads, AddEnd(t)
    PROVE  ServerInv'
<1>1. /\ store \in Seq(Ids) /\ Len(store) \in Nat /\ MaxItems \in Nat
      /\ Len(store) <= MaxItems /\ job \in [Threads -> Jobs]
  BY Typed DEF ServerInv, RestTypeOK
<1>2. /\ job[t].op = "add" /\ Len(store) < MaxItems
      /\ store' = IF job[t].id = Nobody THEN store ELSE Append(store, job[t].id)
      /\ job' = [job EXCEPT ![t] = Idle]
      /\ UNCHANGED <<rows, pristine, walk, broken>>
  BY DEF AddEnd, Added
<1>3. job[t].id \in Ids \cup {Nobody}
  BY <1>1, <1>2 DEF Jobs, Listing, Idle
<1>4. /\ store' \in Seq(Ids) /\ Len(store') <= MaxItems /\ Len(store) <= Len(store')
      /\ \A i \in 1 .. Len(store) : store'[i] = store[i]
  BY <1>1, <1>2, <1>3
<1>5. Idle \in Jobs /\ Idle.op # "list"
  BY DEF Jobs, Idle
<1>6. store' \in Lists
  BY <1>1, <1>4, ListsAre
<1>7. job' \in [Threads -> Jobs]
  BY <1>1, <1>2, <1>5
<1>8. RestTypeOK'
  BY <1>2, <1>6, <1>7 DEF ServerInv, RestTypeOK
<1>9. \A u \in Threads : job'[u] = job[u] \/ job'[u].op # "list"
  BY <1>1, <1>2, <1>5
<1>10. PagesHold' /\ ReadAsAsked' /\ WalkersAsk' /\ Footing' /\ WalkSeesAll'
  BY <1>2, <1>4, <1>9, Grows
<1> QED
  BY <1>8, <1>10 DEF ServerInv

LEMMA DeleteEndInv ==
    ASSUME ServerInv, NEW t \in Threads, DeleteEnd(t)
    PROVE  ServerInv'
<1> DEFINE id == job[t].id
<1>1. /\ store \in Seq(Ids) /\ Len(store) \in Nat /\ MaxItems \in Nat
      /\ Len(store) <= MaxItems /\ broken \in BOOLEAN /\ job \in [Threads -> Jobs]
  BY Typed DEF ServerInv, RestTypeOK
<1>2. store' = Without(store, id) /\ UNCHANGED <<rows, broken>>
  BY DEF DeleteEnd
<1>3. /\ store' \in Seq(Ids) /\ Len(store') <= Len(store)
      /\ id \notin Range(store) => store' = store
  BY <1>1, <1>2, WithoutIs
<1>4. CASE id \in Range(store)
  <2>1. Removed({id}, t)
    BY <1>4 DEF DeleteEnd
  <2>2. Len(store') <= MaxItems
    BY <1>1, <1>3
  <2>3. store' \in Lists
    BY <1>1, <1>3, <2>2, ListsAre
  <2> HIDE DEF id
  <2> QED
    BY <1>2, <2>1, <2>3, RemovedInv
<1>5. CASE id \notin Range(store)
  <2>1. job' = [job EXCEPT ![t] = Idle] /\ UNCHANGED <<store, rows, pristine, walk, broken>>
    BY <1>2, <1>3, <1>5 DEF DeleteEnd
  <2>2. Idle \in Jobs /\ Idle.op # "list"
    BY DEF Jobs, Idle
  <2> QED
    BY <1>1, <2>1, <2>2, JobInv
<1> QED
  BY <1>4, <1>5

------------------------------------------------------------------------------
(* The steps of the GUI, the race, and the beginning of a walk. *)

LEMMA GuiInv ==
    ASSUME ServerInv, Gui \/ Race
    PROVE  ServerInv'
<1>1. /\ store \in Seq(Ids) /\ rows \in Seq(Ids) /\ <<>> \in Lists
      /\ store \in Lists
  BY Typed DEF ServerInv, RestTypeOK
<1>2. ASSUME NEW s \in Lists, Reload(s) PROVE ServerInv'
  <2>1. Removed(Ids, Nobody) /\ store' \in Lists /\ rows' = rows /\ broken' = broken
    BY <1>2 DEF Reload
  <2> QED
    BY <2>1, RemovedInv
<1>3. ASSUME rows' \in Lists, pristine' \in BOOLEAN, broken' \in BOOLEAN,
             UNCHANGED <<store, job, walk>>,
             pristine' => IsPrefix(rows', store)
      PROVE  ServerInv'
  <2>1. RestTypeOK' /\ WalkSeesAll'
    BY <1>3 DEF ServerInv, RestTypeOK, WalkSeesAll
  <2>2. PagesHold' /\ ReadAsAsked' /\ WalkersAsk' /\ Footing'
    BY <1>3 DEF ServerInv, PagesHold, ReadAsAsked, WalkersAsk, Walking, Footing
  <2> QED
    BY <2>1, <2>2 DEF ServerInv
<1>4. rows \in Lists /\ pristine \in BOOLEAN /\ broken \in BOOLEAN
      /\ (pristine => IsPrefix(rows, store))
  BY DEF ServerInv, RestTypeOK, WalkSeesAll
<1>5. CASE OpenList
  <2>1. IsPrefix(store, store)
    BY <1>1, PrefixIs
  <2> QED
    BY <1>1, <1>3, <1>4, <1>5, <2>1 DEF OpenList
<1>6. CASE CloseList
  <2>1. <<>> \in Seq(Ids) /\ Len(<<>>) <= Len(store)
        /\ \A i \in 1 .. Len(<<>>) : <<>>[i] = store[i]
    BY <1>1
  <2>2. IsPrefix(<<>>, store)
    BY <1>1, <2>1, PrefixIs
  <2> QED
    BY <1>1, <1>3, <1>4, <1>6, <2>2 DEF CloseList
<1>7. ASSUME NEW i, Tap(i) PROVE ServerInv'
  <2>1. broken' \in BOOLEAN /\ UNCHANGED <<store, job, rows, pristine, walk>>
    BY <1>7 DEF Tap
  <2> QED
    BY <1>3, <1>4, <2>1
<1>8. CASE Race
  BY <1>3, <1>4, <1>8 DEF Race
<1> QED
  BY <1>2, <1>5, <1>6, <1>7, <1>8 DEF Gui

LEMMA WalkBeginInv ==
    ASSUME ServerInv, WalkBegin
    PROVE  ServerInv'
<1>1. /\ store \in Seq(Ids) /\ Len(store) \in Nat /\ MaxItems \in Nat
      /\ Len(store) <= MaxItems /\ <<>> \in Lists
  BY Typed DEF ServerInv, RestTypeOK
<1>2. /\ walk.state \in {"off", "done"}
      /\ walk' = [state |-> "on", first |-> Len(store), seen |-> <<>>]
      /\ UNCHANGED <<store, job, rows, pristine, broken>>
  BY DEF WalkBegin
<1>3. \A t \in Threads : ~Walking(t)
  BY <1>2 DEF ServerInv, WalkersAsk
<1>4. RestTypeOK'
  <2>1. Len(store) \in 0 .. MaxItems
    BY <1>1
  <2> QED
    BY <1>1, <1>2, <2>1 DEF ServerInv, RestTypeOK
<1>5. PagesHold' /\ ReadAsAsked' /\ WalkersAsk'
  BY <1>2, <1>3 DEF ServerInv, PagesHold, ReadAsAsked, WalkersAsk, Walking
<1>6. Footing'
  BY <1>1, <1>2 DEF Footing
<1>7. WalkSeesAll'
  <2>1. <<>> \in Seq(Ids) /\ Len(<<>>) <= Len(store)
        /\ \A i \in 1 .. Len(<<>>) : <<>>[i] = store[i]
    BY <1>1
  <2>2. IsPrefix(<<>>, store)
    BY <1>1, <2>1, PrefixIs
  <2> QED
    BY <1>2, <2>2 DEF ServerInv, WalkSeesAll
<1> QED
  BY <1>4, <1>5, <1>6, <1>7 DEF ServerInv

------------------------------------------------------------------------------
LEMMA InitServerInv == RestInit => ServerInv
<1> SUFFICES ASSUME RestInit PROVE ServerInv
  OBVIOUS
<1>1. MaxItems \in Nat /\ Lists = {s \in Seq(Ids) : Len(s) <= MaxItems}
  BY ListsAre, RestAssumption
<1>2. <<>> \in Lists /\ store \in Seq(Ids) /\ store \in Lists /\ Len(store) \in Nat
  BY <1>1 DEF RestInit
<1>3. RestTypeOK
  <2>1. Idle \in Jobs
    BY DEF Jobs
  <2>2. job \in [Threads -> Jobs]
    BY <2>1 DEF RestInit
  <2>3. walk \in [state : {"off", "on", "asking", "done"}, first : 0 .. MaxItems,
                  seen : Lists]
    <3>1. 0 \in 0 .. MaxItems
      BY <1>1
    <3> QED
      BY <1>2, <3>1 DEF RestInit, NoWalk
  <2> QED
    BY <1>2, <2>2, <2>3 DEF RestInit, RestTypeOK
<1>4. PagesHold /\ ReadAsAsked /\ WalkersAsk
  BY DEF RestInit, Idle, PagesHold, ReadAsAsked, WalkersAsk, Walking
<1>5. Footing
  BY <1>2 DEF RestInit, NoWalk, Footing
<1>6. WalkSeesAll
  <2>1. <<>> \in Seq(Ids) /\ Len(<<>>) <= Len(store)
        /\ \A i \in 1 .. Len(<<>>) : <<>>[i] = store[i]
    BY <1>2
  <2>2. IsPrefix(<<>>, store)
    BY <1>2, <2>1, PrefixIs
  <2> QED
    BY <2>2 DEF RestInit, NoWalk, WalkSeesAll
<1> QED
  BY <1>3, <1>4, <1>5, <1>6 DEF ServerInv

LEMMA NextServerInv ==
    ServerInv /\ [RestNext]_restVars => ServerInv'
<1> SUFFICES ASSUME ServerInv, [RestNext]_restVars
             PROVE  ServerInv'
  OBVIOUS
<1>1. CASE UNCHANGED restVars
  BY <1>1 DEF ServerInv, RestTypeOK, PagesHold, ReadAsAsked, WalkersAsk, Walking, Footing,
              WalkSeesAll, restVars
<1>2. ASSUME NEW t \in Threads, Request(t) PROVE ServerInv'
  <2>1. ASSUME NEW o \in Queries, NEW l \in Queries,
               ListBegin(t, o, l, FALSE),
               UNCHANGED <<store, rows, pristine, walk, broken>>
        PROVE  ServerInv'
    <3>1. o \in Numbers /\ l \in Numbers /\ FALSE \in BOOLEAN
      BY QueriesAreNumbers
    <3> QED
      BY <2>1, <3>1, ListBeginInv
  <2> QED
    BY <1>2, <2>1, OtherRequestsInv DEF Request
<1>3. ASSUME NEW t \in Threads, Serve(t) PROVE ServerInv'
  <2>1. Nobody \in Ids \cup {Nobody}
    OBVIOUS
  <2> QED
    BY <1>3, <2>1, ListEndInv, OtherRequestsInv, AddEndInv, DeleteEndInv DEF Serve
<1>4. ASSUME NEW t \in Threads, WalkOn(t) PROVE ServerInv'
  <2>1. Len(walk.seen) \in Numbers /\ PageSize \in Numbers /\ TRUE \in BOOLEAN
    BY Typed, RestAssumption DEF ServerInv, Numbers
  <2>2. /\ walk.state = "on" /\ ListBegin(t, Len(walk.seen), PageSize, TRUE)
        /\ walk' = [walk EXCEPT !.state = "asking"]
        /\ UNCHANGED <<store, rows, pristine, broken>>
    BY <1>4 DEF WalkOn
  <2> QED
    BY <2>1, <2>2, ListBeginInv
<1> QED
  BY <1>1, <1>2, <1>3, <1>4, WalkBeginInv, GuiInv DEF RestNext

(* A client that walks through the list page by page, while any number of   *)
(* threads add to it, gets every item that was there, once and in order;    *)
(* and a row of the open page of the GUI stands for the item at its place,  *)
(* until something is removed (REST/common.hpp, configuration.cpp).         *)
THEOREM WalkSeesAllHolds ==
    RestSpec => []WalkSeesAll
<1>1. ServerInv => WalkSeesAll
  BY DEF ServerInv
<1> QED
  BY InitServerInv, NextServerInv, <1>1, PTL DEF RestSpec

(* respond_json_array() reads the size and later copies the range: unless   *)
(* something was removed in between, the page has all that the documents    *)
(* demand of the list at the first look (for a length that is omitted or a  *)
(* positive number), and is the beginning of what they demand of the list   *)
(* at the second (but for a page from an offset beyond the end on, without  *)
(* a length).                                                               *)
THEOREM PageIsSliceHolds ==
    RestSpec => PageIsSlice
<1> DEFINE Slice(t) ==
        ListEnd(t) /\ ~job[t].cut =>
            LET asked == job[t].asked
            IN  /\ ~Fails(t)
                /\ asked.length # NoInt => IsPrefix(job[t].page, Served(t))
                /\ ~(job[t].beyond /\ asked.length = Absent) =>
                       IsPrefix(Served(t), Demanded(store, asked))
<1>1. ServerInv /\ [RestNext]_restVars => [\A t \in Threads : Slice(t)]_restVars
  <2> SUFFICES ASSUME ServerInv, NEW t \in Threads, ListEnd(t), ~job[t].cut
               PROVE  Slice(t)
    OBVIOUS
  <2> DEFINE off    == job[t].offset
             len    == job[t].length
             page   == job[t].page
             asked  == job[t].asked
             served == Served(t)
             part   == Demanded(store, asked)
             rest   == IF asked.offset <= Len(store) THEN Len(store) - asked.offset ELSE 0
  <2>1. job[t].op = "list" /\ job[t] \in Jobs /\ store \in Seq(Ids) /\ RestTypeOK
    BY Typed DEF ListEnd, ServerInv, RestTypeOK
  <2>2. /\ off \in Nat /\ len \in Nat /\ page \in Seq(Ids)
        /\ Len(page) \in Nat /\ Len(store) \in Nat
        /\ asked \in Asked /\ job[t].beyond \in BOOLEAN
    BY <2>1, ListJob
  <2>3. /\ off + Len(page) <= Len(store)
        /\ asked.length # NoInt => Len(page) <= len
        /\ \A i \in 1 .. Len(page) : page[i] = store[off + i]
    BY <2>1 DEF ServerInv, PagesHold
  <2>4. /\ ~job[t].beyond => off = asked.offset
        /\ job[t].beyond /\ asked.length # Absent => len = 0
        /\ asked.length \in Nat => len <= asked.length
    BY <2>1 DEF ServerInv, ReadAsAsked
  <2>5. off <= Len(store)
    BY <2>2, <2>3
  <2>6. /\ served \in Seq(Ids)
        /\ Len(served) = IF len <= Len(store) - off THEN len ELSE Len(store) - off
        /\ \A i \in 1 .. Len(served) : served[i] = store[off + i]
    BY <2>1, <2>5, ServedIs
  <2>7. /\ part \in Seq(Ids)
        /\ Len(part) = IF asked.length \in Nat /\ asked.length <= rest
                       THEN asked.length ELSE rest
        /\ \A i \in 1 .. Len(part) : part[i] = store[i + asked.offset]
    BY <2>1, <2>2, DemandedIs
  <2>8. ~Fails(t)
    BY <2>2, <2>5 DEF Fails
  <2>9. asked.offset \in Nat
    BY <2>2 DEF Asked
  <2> HIDE DEF off, len, page, asked, served, part
  <2>10. Len(served) \in Nat /\ Len(part) \in Nat
    BY <2>6, <2>7
  <2>11. ASSUME asked.length # NoInt PROVE IsPrefix(page, served)
    <3>1. Len(page) <= Len(served)
      BY <2>2, <2>3, <2>6, <2>11
    <3>2. \A i \in 1 .. Len(page) : page[i] = served[i]
      BY <2>2, <2>3, <2>6, <2>10, <3>1
    <3> QED
      BY <2>2, <2>6, <3>1, <3>2, PrefixIs
  <2>12. ASSUME ~(job[t].beyond /\ asked.length = Absent) PROVE IsPrefix(served, part)
    <3>1. CASE job[t].beyond
      <4>1. len = 0
        BY <2>4, <2>12, <3>1
      <4>2. Len(served) = 0
        BY <2>2, <2>5, <2>6, <4>1
      <4>3. Len(served) <= Len(part) /\ \A i \in 1 .. Len(served) : served[i] = part[i]
        BY <2>10, <4>2
      <4> QED
        BY <2>6, <2>7, <4>3, PrefixIs
    <3>2. CASE ~job[t].beyond
      <4>1. off = asked.offset /\ rest = Len(store) - off
        BY <2>4, <2>5, <3>2
      <4>2. Len(served) <= Len(part)
        BY <2>2, <2>4, <2>5, <2>6, <2>7, <4>1
      <4>3. ASSUME NEW i \in 1 .. Len(served) PROVE served[i] = part[i]
        <5>1. i \in 1 .. Len(part) /\ i + asked.offset = off + i
          BY <2>2, <2>9, <2>10, <4>1, <4>2
        <5> QED
          BY <2>6, <2>7, <5>1
      <4> QED
        BY <2>6, <2>7, <4>2, <4>3, PrefixIs
    <3> QED
      BY <3>1, <3>2
  <2> QED
    BY <2>8, <2>11, <2>12 DEF page, asked, served, part
<1> QED
  BY InitServerInv, NextServerInv, <1>1, PTL DEF RestSpec, PageIsSlice

==============================================================================
