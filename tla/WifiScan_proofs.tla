---------------------------- MODULE WifiScan_proofs ----------------------------
(***************************************************************************)
(* The safety of WifiScan, for any networks and any room in the sockets:   *)
(* what the client shows when nothing is under way is what wpa_supplicant  *)
(* announced last, whatever came late, was dropped or timed out before.    *)
(***************************************************************************)
EXTENDS WifiScan, TLAPS

(* No event follows the i-th datagram of a channel. *)
NoneAfter(c, i) == \A j \in i + 1 .. Len(c) : c[j].kind \notin Events

(* The last event of a channel, if it has one. *)
LastIs(c, a) ==
    \A i \in 1 .. Len(c) : c[i].kind \in Events /\ NoneAfter(c, i) => c[i].kind = a

(* The tables of a channel that no announcement of newer results follows.   *)
TablesShow(c, t) ==
    \A i \in 1 .. Len(c) :
        c[i].kind = "TABLE" /\ (\A j \in i + 1 .. Len(c) : c[j].kind # "RESULTS")
            => c[i].nets = t

(* The inductive invariant.  The channel is in order, so the last event in  *)
(* it is the one announced last unless that one found no room; a table that *)
(* no announcement follows is the present one; and a request for results is *)
(* only under way after its announcement was taken.                         *)
LastEventAnnounced  == running /\ missed # "overflow" => LastIs(chan, announced)
StatusCurrent ==
    running /\ missed = "none" /\ NoneAfter(chan, 0) => stat = StatusOf[announced]
AnnouncedIfAttached == ~monitor => announced = "none"
TablesCurrent ==
    running /\ missed # "overflow" /\ announced = "RESULTS" => TablesShow(chan, found)
ListCurrent ==
    /\ running /\ missed \in {"none", "results"} /\ announced = "RESULTS"
    /\ sound /\ NoneAfter(chan, 0)
    => IsPrefix(found, list)
AwaitsTable == pc = "results" => ~sound

History ==
    /\ LastEventAnnounced /\ StatusCurrent /\ AnnouncedIfAttached
    /\ TablesCurrent /\ ListCurrent /\ AwaitsTable

------------------------------------------------------------------------------
(* Sequences. *)

LEMMA BoundedSeqIs ==
    ASSUME NEW S, NEW n \in Nat, NEW s
    PROVE  s \in BoundedSeq(S, n) <=> s \in Seq(S) /\ Len(s) <= n
  <1>1. ASSUME s \in BoundedSeq(S, n) PROVE s \in Seq(S) /\ Len(s) <= n
    <2>1. PICK m \in 0 .. n : s \in [1 .. m -> S]
      BY <1>1 DEF BoundedSeq, SeqOf
    <2>2. m \in Nat /\ Len(s) = m
      BY <2>1
    <2> QED
      BY <2>1, <2>2
  <1>2. ASSUME s \in Seq(S), Len(s) <= n PROVE s \in BoundedSeq(S, n)
    <2>1. Len(s) \in 0 .. n /\ s \in [1 .. Len(s) -> S]
      BY <1>2
    <2> QED
      BY <2>1 DEF BoundedSeq, SeqOf
  <1> QED
    BY <1>1, <1>2

LEMMA TypesAre ==
    /\ Lines = {s \in Seq(Networks \cup {Torn}) : Len(s) <= MaxFound}
    /\ Tables = {s \in Seq(Networks) : Len(s) <= MaxFound /\ IsInjective(s)}
    /\ BoundedSeq(Requests, MaxQueue) = {s \in Seq(Requests) : Len(s) <= MaxQueue}
    /\ BoundedSeq(Message, MaxQueue) = {s \in Seq(Message) : Len(s) <= MaxQueue}
    /\ <<>> \in Tables /\ <<>> \in Lines /\ Tables \subseteq Lines
  <1>1. MaxFound \in Nat /\ MaxQueue \in Nat
    BY WifiAssumption
  <1>2. Lines = {s \in Seq(Networks \cup {Torn}) : Len(s) <= MaxFound}
    BY <1>1, BoundedSeqIs DEF Lines
  <1>3. Tables = {s \in Seq(Networks) : Len(s) <= MaxFound /\ IsInjective(s)}
    BY <1>1, BoundedSeqIs DEF Tables
  <1>4. /\ BoundedSeq(Requests, MaxQueue) = {s \in Seq(Requests) : Len(s) <= MaxQueue}
        /\ BoundedSeq(Message, MaxQueue) = {s \in Seq(Message) : Len(s) <= MaxQueue}
    BY <1>1, BoundedSeqIs
  <1>5. <<>> \in Seq(Networks) /\ <<>> \in Seq(Networks \cup {Torn}) /\ Len(<<>>) = 0
        /\ IsInjective(<<>>)
    BY DEF IsInjective
  <1>6. \A s \in Seq(Networks) : s \in Seq(Networks \cup {Torn})
    OBVIOUS
  <1> QED
    BY <1>1, <1>2, <1>3, <1>4, <1>5, <1>6

(* A datagram is taken. *)
LEMMA Taken ==
    ASSUME NEW c \in Seq(Message), c # <<>>
    PROVE  /\ Tail(c) \in Seq(Message) /\ Len(Tail(c)) = Len(c) - 1
           /\ Head(c) \in Message
           /\ \A a : LastIs(c, a) => LastIs(Tail(c), a)
           /\ \A t : TablesShow(c, t) => TablesShow(Tail(c), t)
           /\ NoneAfter(Tail(c), 0) =>
                 /\ Head(c).kind \notin Events => NoneAfter(c, 0)
                 /\ \A a : LastIs(c, a) /\ Head(c).kind \in Events => Head(c).kind = a
                 /\ \A t : TablesShow(c, t) /\ Head(c).kind = "TABLE" => Head(c).nets = t
  <1> DEFINE N == Len(c)
             d == Tail(c)
  <1>1. N \in Nat /\ N > 0
    OBVIOUS
  <1>2. /\ d \in Seq(Message) /\ Len(d) = N - 1
        /\ \A i \in 1 .. N - 1 : d[i] = c[i + 1]
        /\ Head(c) = c[1] /\ c[1] \in Message
    BY <1>1
  <1> HIDE DEF d
  <1>3. ASSUME NEW i \in 1 .. N - 1, NoneAfter(d, i) PROVE NoneAfter(c, i + 1)
    <2> SUFFICES ASSUME NEW j \in (i + 1) + 1 .. N PROVE c[j].kind \notin Events
      BY DEF NoneAfter
    <2>1. j - 1 \in i + 1 .. N - 1 /\ j - 1 \in 1 .. N - 1 /\ (j - 1) + 1 = j
      BY <1>1
    <2> QED
      BY <1>2, <1>3, <2>1 DEF NoneAfter
  <1>4. ASSUME NEW a, LastIs(c, a) PROVE LastIs(d, a)
    <2> SUFFICES ASSUME NEW i \in 1 .. N - 1, d[i].kind \in Events, NoneAfter(d, i)
                 PROVE  d[i].kind = a
      BY <1>2 DEF LastIs
    <2>1. i + 1 \in 1 .. N /\ d[i] = c[i + 1]
      BY <1>1, <1>2
    <2> QED
      BY <1>3, <1>4, <2>1 DEF LastIs
  <1>5. ASSUME NEW t, TablesShow(c, t) PROVE TablesShow(d, t)
    <2> SUFFICES ASSUME NEW i \in 1 .. N - 1, d[i].kind = "TABLE",
                        \A j \in i + 1 .. N - 1 : d[j].kind # "RESULTS"
                 PROVE  d[i].nets = t
      BY <1>2 DEF TablesShow
    <2>1. i + 1 \in 1 .. N /\ d[i] = c[i + 1]
      BY <1>1, <1>2
    <2>2. ASSUME NEW j \in (i + 1) + 1 .. N PROVE c[j].kind # "RESULTS"
      <3>1. j - 1 \in i + 1 .. N - 1 /\ j - 1 \in 1 .. N - 1 /\ (j - 1) + 1 = j
        BY <1>1
      <3> QED
        BY <1>2, <3>1
    <2> QED
      BY <1>5, <2>1, <2>2 DEF TablesShow
  <1>6. ASSUME NoneAfter(d, 0)
        PROVE  \A j \in 1 + 1 .. N : c[j].kind \notin Events
    <2> SUFFICES ASSUME NEW j \in 1 + 1 .. N PROVE c[j].kind \notin Events
      OBVIOUS
    <2>1. j - 1 \in 0 + 1 .. N - 1 /\ j - 1 \in 1 .. N - 1 /\ (j - 1) + 1 = j
      BY <1>1
    <2> QED
      BY <1>2, <1>6, <2>1 DEF NoneAfter
  <1>7. ASSUME NoneAfter(d, 0)
        PROVE  /\ Head(c).kind \notin Events => NoneAfter(c, 0)
               /\ \A a : LastIs(c, a) /\ Head(c).kind \in Events => Head(c).kind = a
               /\ \A t : TablesShow(c, t) /\ Head(c).kind = "TABLE" => Head(c).nets = t
    <2>1. 1 \in 1 .. N /\ NoneAfter(c, 1)
      BY <1>1, <1>6, <1>7 DEF NoneAfter
    <2>2. Head(c).kind \notin Events => NoneAfter(c, 0)
      <3>1. \A j \in 0 + 1 .. N : j = 1 \/ j \in 1 + 1 .. N
        BY <1>1
      <3> QED
        BY <1>2, <1>6, <1>7, <3>1 DEF NoneAfter
    <2>3. \A j \in 1 + 1 .. N : c[j].kind # "RESULTS"
      BY <1>6, <1>7 DEF Events
    <2> QED
      BY <1>2, <2>1, <2>2, <2>3 DEF LastIs, TablesShow
  <1> QED
    BY <1>2, <1>4, <1>5, <1>7 DEF d

(* A datagram is sent. *)
LEMMA Appended ==
    ASSUME NEW c \in Seq(Message), NEW m \in Message
    PROVE  LET d == Append(c, m)
           IN  /\ d \in Seq(Message) /\ Len(d) = Len(c) + 1
               /\ \A i \in 1 .. Len(c) : d[i] = c[i]
               /\ d[Len(c) + 1] = m
  OBVIOUS

LEMMA EventSent ==
    ASSUME NEW c \in Seq(Message), NEW m \in Message, m.kind \in Events
    PROVE  /\ LastIs(Append(c, m), m.kind)
           /\ ~NoneAfter(Append(c, m), 0)
           /\ m.kind = "RESULTS" => \A t : TablesShow(Append(c, m), t)
  <1> DEFINE d == Append(c, m)
             N == Len(c)
  <1>1. /\ d \in Seq(Message) /\ Len(d) = N + 1 /\ N \in Nat
        /\ d[N + 1] = m
    BY Appended
  <1> HIDE DEF d
  <1>2. N + 1 \in 0 + 1 .. N + 1
    BY <1>1
  <1>3. ~NoneAfter(d, 0)
    BY <1>1, <1>2 DEF NoneAfter
  <1>4. LastIs(d, m.kind)
    <2> SUFFICES ASSUME NEW i \in 1 .. N + 1, NoneAfter(d, i)
                 PROVE  d[i].kind = m.kind
      BY <1>1 DEF LastIs
    <2>1. CASE i = N + 1
      BY <1>1, <2>1
    <2>2. CASE i # N + 1
      <3>1. N + 1 \in i + 1 .. N + 1
        BY <1>1, <2>2
      <3> QED
        BY <1>1, <3>1 DEF NoneAfter
    <2> QED
      BY <2>1, <2>2
  <1>5. ASSUME m.kind = "RESULTS", NEW t PROVE TablesShow(d, t)
    <2> SUFFICES ASSUME NEW i \in 1 .. N + 1, d[i].kind = "TABLE",
                        \A j \in i + 1 .. N + 1 : d[j].kind # "RESULTS"
                 PROVE  FALSE
      BY <1>1 DEF TablesShow
    <2>1. i # N + 1
      BY <1>1, <1>5
    <2>2. N + 1 \in i + 1 .. N + 1
      BY <1>1, <2>1
    <2> QED
      BY <1>1, <1>5, <2>2
  <1> QED
    BY <1>3, <1>4, <1>5 DEF d

LEMMA ReplySent ==
    ASSUME NEW c \in Seq(Message), NEW m \in Message, m.kind \notin Events
    PROVE  /\ \A a : LastIs(c, a) => LastIs(Append(c, m), a)
           /\ NoneAfter(Append(c, m), 0) => NoneAfter(c, 0)
           /\ \A t : TablesShow(c, t) /\ (m.kind = "TABLE" => m.nets = t)
                      => TablesShow(Append(c, m), t)
  <1> DEFINE d == Append(c, m)
             N == Len(c)
  <1>1. /\ d \in Seq(Message) /\ Len(d) = N + 1 /\ N \in Nat
        /\ \A i \in 1 .. N : d[i] = c[i]
        /\ d[N + 1] = m
    BY Appended
  <1> HIDE DEF d
  <1>2. ASSUME NEW i \in 0 .. N, NoneAfter(d, i) PROVE NoneAfter(c, i)
    <2> SUFFICES ASSUME NEW j \in i + 1 .. N PROVE c[j].kind \notin Events
      BY DEF NoneAfter
    <2>1. j \in i + 1 .. N + 1 /\ j \in 1 .. N
      BY <1>1
    <2> QED
      BY <1>1, <1>2, <2>1 DEF NoneAfter
  <1>3. ASSUME NEW a, LastIs(c, a) PROVE LastIs(d, a)
    <2> SUFFICES ASSUME NEW i \in 1 .. N + 1, d[i].kind \in Events, NoneAfter(d, i)
                 PROVE  d[i].kind = a
      BY <1>1 DEF LastIs
    <2>1. i # N + 1
      BY <1>1
    <2>2. i \in 1 .. N /\ i \in 0 .. N /\ d[i] = c[i]
      BY <1>1, <2>1
    <2> QED
      BY <1>2, <1>3, <2>2 DEF LastIs
  <1>4. ASSUME NEW t, TablesShow(c, t), m.kind = "TABLE" => m.nets = t
        PROVE  TablesShow(d, t)
    <2> SUFFICES ASSUME NEW i \in 1 .. N + 1, d[i].kind = "TABLE",
                        \A j \in i + 1 .. N + 1 : d[j].kind # "RESULTS"
                 PROVE  d[i].nets = t
      BY <1>1 DEF TablesShow
    <2>1. CASE i = N + 1
      BY <1>1, <1>4, <2>1
    <2>2. CASE i # N + 1
      <3>1. i \in 1 .. N /\ d[i] = c[i]
        BY <1>1, <2>2
      <3>2. ASSUME NEW j \in i + 1 .. N PROVE c[j].kind # "RESULTS"
        <4>1. j \in i + 1 .. N + 1 /\ j \in 1 .. N
          BY <1>1, <3>1
        <4> QED
          BY <1>1, <4>1
      <3> QED
        BY <1>4, <3>1, <3>2 DEF TablesShow
    <2> QED
      BY <2>1, <2>2
  <1>5. 0 \in 0 .. N
    BY <1>1
  <1> QED
    BY <1>2, <1>3, <1>4, <1>5 DEF d

------------------------------------------------------------------------------
(* Types. *)

Pcs == Requests \cup {"start", "idle", "event", "crashed"}

LEMMA SendsType ==
    ASSUME TypeOK, NEW request \in Requests, Sends(request)
    PROVE  /\ pc' \in Pcs /\ inbox' \in BoundedSeq(Requests, MaxQueue)
           /\ pc' # "results" \/ request = "results"
  <1>1. inbox \in Seq(Requests) /\ Len(inbox) <= MaxQueue
    BY TypesAre DEF TypeOK
  <1>2. Append(inbox, request) \in Seq(Requests)
        /\ Len(Append(inbox, request)) = Len(inbox) + 1
    BY <1>1
  <1>3. Len(inbox) < MaxQueue => Append(inbox, request) \in BoundedSeq(Requests, MaxQueue)
    <2>1. Len(inbox) \in Nat /\ MaxQueue \in Nat
      BY <1>1, WifiAssumption
    <2>2. Len(inbox) < MaxQueue => Len(inbox) + 1 <= MaxQueue
      BY <2>1
    <2> QED
      BY <1>2, <2>2, TypesAre
  <1> QED
    BY <1>3 DEF Sends, After, Pcs, Requests, TypeOK

(* The buffer never holds more lines than the longest table. *)
LEMMA LeftoversType ==
    ASSUME NEW old \in Lines, NEW nets \in Tables, NEW left \in Leftovers(old, Len(nets))
    PROVE  nets \o left \in Lines /\ IsPrefix(nets, nets \o left)
  <1> DEFINE n    == Len(nets)
             N    == Len(old)
             rest == SubSeq(old, n + 1, N)
             S    == Networks \cup {Torn}
  <1>1. /\ old \in Seq(S) /\ N \in Nat /\ N <= MaxFound
        /\ nets \in Seq(S) /\ n \in Nat /\ n <= MaxFound
        /\ MaxFound \in Nat
    BY TypesAre, WifiAssumption
  <1>2. rest \in Seq(S) /\ Len(rest) = IF n + 1 <= N THEN N - n ELSE 0
    BY <1>1
  <1>3. \/ left = <<>>
        \/ left \in {rest, Tail(rest), <<Torn>> \o Tail(rest)} /\ rest # <<>>
    BY DEF Leftovers
  <1> HIDE DEF rest
  <1>4. left \in Seq(S) /\ (left = <<>> \/ n + Len(left) <= N)
    <2>1. CASE left = <<>>
      BY <2>1
    <2>2. CASE left \in {rest, Tail(rest), <<Torn>> \o Tail(rest)} /\ rest # <<>>
      <3>1. n + 1 <= N /\ Len(rest) = N - n
        BY <1>1, <1>2, <2>2
      <3>2. Tail(rest) \in Seq(S) /\ Len(Tail(rest)) = N - n - 1
        BY <1>1, <1>2, <2>2, <3>1
      <3>3. <<Torn>> \in Seq(S) /\ Len(<<Torn>>) = 1
        OBVIOUS
      <3>4. <<Torn>> \o Tail(rest) \in Seq(S) /\ Len(<<Torn>> \o Tail(rest)) = N - n
        BY <1>1, <3>2, <3>3
      <3>5. left \in Seq(S) /\ Len(left) \in {N - n, N - n - 1}
        <4> HIDE DEF S, n, N
        <4> QED
          BY <1>2, <2>2, <3>1, <3>2, <3>4
      <3> HIDE DEF S, n, N
      <3> QED
        BY <1>1, <3>5
    <2> QED
      BY <1>3, <2>1, <2>2
  <1> HIDE DEF S, n, N
  <1>5. nets \o left \in Seq(S) /\ Len(nets \o left) = n + Len(left)
        /\ \A i \in 1 .. n : (nets \o left)[i] = nets[i]
    BY <1>1, <1>4 DEF n
  <1>6. Len(nets \o left) <= MaxFound
    <2>1. Len(left) \in Nat /\ (left = <<>> => Len(left) = 0)
      BY <1>4
    <2> QED
      BY <1>1, <1>4, <1>5, <2>1
  <1>7. IsPrefix(nets, nets \o left)
    <2> DEFINE all == nets \o left
    <2>1. all \in Seq(S) /\ n <= Len(all) /\ \A i \in 1 .. n : all[i] = nets[i]
      <3>1. Len(left) \in Nat
        BY <1>4
      <3> QED
        BY <1>1, <1>5, <3>1
    <2> HIDE DEF all
    <2>2. SubSeq(nets, 1, n) = SubSeq(all, 1, n)
      <3>1. SubSeq(nets, 1, n) = [i \in 1 .. n |-> nets[i]]
        BY <1>1 DEF n
      <3>2. SubSeq(all, 1, n) = [i \in 1 .. n |-> all[i]]
        BY <1>1, <2>1
      <3> QED
        BY <2>1, <3>1, <3>2
    <2> QED
      BY <2>1, <2>2 DEF IsPrefix, all, n
  <1> QED
    BY <1>5, <1>6, <1>7, TypesAre DEF S

LEMMA InitType == Init => TypeOK
  <1> SUFFICES ASSUME Init PROVE TypeOK
    OBVIOUS
  <1>1. /\ inbox \in BoundedSeq(Requests, MaxQueue) /\ chan \in BoundedSeq(Message, MaxQueue)
    <2>1. <<>> \in Seq(Requests) /\ <<>> \in Seq(Message) /\ Len(<<>>) = 0 /\ 0 <= MaxQueue
      BY WifiAssumption
    <2> QED
      BY <2>1, TypesAre DEF Init
  <1>2. reply \in Lines /\ list \in Lines /\ found \in Tables
    BY TypesAre DEF Init
  <1>3. pc = "start" /\ stat = "Idle" /\ announced = "none" /\ missed = "none"
    BY DEF Init
  <1>4. ctrl \in BOOLEAN /\ running \in BOOLEAN /\ monitor \in BOOLEAN /\ sound \in BOOLEAN
    BY DEF Init
  <1> QED
    BY <1>1, <1>2, <1>3, <1>4 DEF TypeOK

(* The client's steps. *)
LEMMA TakenType ==
    ASSUME TypeOK, chan # <<>>
    PROVE  /\ Tail(chan) \in BoundedSeq(Message, MaxQueue)
           /\ Head(chan).kind \in Events \cup {"OK", "TABLE"} /\ Head(chan).nets \in Tables
  <1>1. chan \in Seq(Message) /\ Len(chan) <= MaxQueue /\ MaxQueue \in Nat
    BY TypesAre, WifiAssumption DEF TypeOK
  <1>2. Tail(chan) \in Seq(Message) /\ Len(Tail(chan)) = Len(chan) - 1 /\ Head(chan) \in Message
    BY <1>1, Taken
  <1>3. Len(Tail(chan)) <= MaxQueue
    BY <1>1, <1>2
  <1> QED
    BY <1>2, <1>3, TypesAre DEF Message

LEMMA ClientType ==
    ASSUME TypeOK, Client
    PROVE  TypeOK'
  <1>1. CASE Start
    <2>1. pc' \in Pcs /\ ctrl' \in BOOLEAN /\ inbox' \in BoundedSeq(Requests, MaxQueue)
      BY <1>1, SendsType DEF Start, Requests, Pcs, TypeOK
    <2> QED
      BY <1>1, <2>1 DEF Start, supplicant, TypeOK, Pcs
  <1>2. CASE Event
    <2>1. /\ chan' \in BoundedSeq(Message, MaxQueue)
          /\ Head(chan).kind \in Events \cup {"OK", "TABLE"}
      BY <1>2, TakenType DEF Event
    <2>2. pc' \in Pcs /\ inbox' \in BoundedSeq(Requests, MaxQueue)
      BY <1>2, SendsType DEF Event, Requests, Pcs, TypeOK
    <2>3. stat' \in {"Idle", "Scanning", "ScanFailed", "ScanOk"}
      BY <1>2, <2>1 DEF Event, StatusAfter, StatusOf, Events, TypeOK
    <2>4. missed' \in Requests \cup {"none", "overflow"} /\ sound' \in BOOLEAN
      BY <1>2 DEF Event, TypeOK
    <2> QED
      BY <1>2, <2>1, <2>2, <2>3, <2>4 DEF Event, supplicant, TypeOK, Pcs
  <1>3. CASE EventsDone
    BY <1>3 DEF EventsDone, supplicant, TypeOK
  <1>4. CASE EventDropped
    <2>1. chan' \in BoundedSeq(Message, MaxQueue)
      BY <1>4, TakenType DEF EventDropped
    <2>2. missed' \in Requests \cup {"none", "overflow"}
      BY <1>4 DEF EventDropped, TypeOK
    <2> QED
      BY <1>4, <2>1, <2>2 DEF EventDropped, client, supplicant, TypeOK
  <1>5. CASE Reply
    <2>1. chan' \in BoundedSeq(Message, MaxQueue) /\ Head(chan).nets \in Tables
      BY <1>5, TakenType DEF Reply
    <2>2. reply' \in Lines
      BY <1>5, <2>1, LeftoversType DEF Reply, TypeOK
    <2>3. list' \in Lines /\ sound' \in BOOLEAN
      BY <1>5, <2>2 DEF Reply, Parsed, TypeOK
    <2>4. pc' \in Pcs
      BY <1>5 DEF Reply, After, Pcs
    <2> QED
      BY <1>5, <2>1, <2>2, <2>3, <2>4 DEF Reply, supplicant, TypeOK, Pcs
  <1> QED
    BY <1>1, <1>2, <1>3, <1>4, <1>5 DEF Client

(* What wpa_supplicant sends. *)
LEMMA SentType ==
    ASSUME TypeOK, Len(chan) < MaxQueue, NEW m \in Message
    PROVE  Append(chan, m) \in BoundedSeq(Message, MaxQueue)
  <1>1. chan \in Seq(Message) /\ MaxQueue \in Nat /\ Len(chan) \in Nat
    BY TypesAre, WifiAssumption DEF TypeOK
  <1>2. Append(chan, m) \in Seq(Message) /\ Len(Append(chan, m)) = Len(chan) + 1
    BY <1>1
  <1>3. Len(chan) + 1 <= MaxQueue
    BY <1>1
  <1> QED
    BY <1>2, <1>3, TypesAre

LEMMA MessagesAre ==
    ASSUME TypeOK
    PROVE  /\ \A kind \in Events : [kind |-> kind, nets |-> <<>>] \in Message
           /\ [kind |-> "OK", nets |-> <<>>] \in Message
           /\ [kind |-> "TABLE", nets |-> found] \in Message
  BY TypesAre DEF Message, TypeOK

LEMMA NextType == TypeOK /\ [Next]_vars => TypeOK'
  <1> SUFFICES ASSUME TypeOK, [Next]_vars PROVE TypeOK'
    OBVIOUS
  <1>1. CASE Client
    BY <1>1, ClientType
  <1>2. CASE StartScan \/ WpsConnect
    <2>1. pc' \in Pcs /\ inbox' \in BoundedSeq(Requests, MaxQueue)
      BY <1>2, SendsType DEF StartScan, WpsConnect, Requests, Pcs, TypeOK
    <2>2. UNCHANGED <<ctrl, stat, reply, list, supplicant, chan, missed, sound>>
      BY <1>2 DEF StartScan, WpsConnect
    <2> QED
      BY <2>1, <2>2 DEF supplicant, TypeOK, Pcs
  <1>3. CASE CutLine \/ Timeout
    <2>1. pc' \in Pcs
      BY <1>3 DEF CutLine, Timeout, After, Pcs
    <2>2. UNCHANGED <<ctrl, stat, reply, list, supplicant, inbox, chan, missed, sound>>
      BY <1>3 DEF CutLine, Timeout
    <2> QED
      BY <2>1, <2>2 DEF supplicant, TypeOK, Pcs
  <1>4. ASSUME NEW kind \in Events, NEW table \in Tables, ScanEvent(kind, table)
        PROVE  TypeOK'
    <2>1. chan' \in BoundedSeq(Message, MaxQueue)
      BY <1>4, SentType, MessagesAre DEF ScanEvent, Emit, TypeOK
    <2>2. missed' \in Requests \cup {"none", "overflow"} /\ announced' \in Events \cup {"none"}
      BY <1>4 DEF ScanEvent, Emit, TypeOK
    <2> QED
      BY <1>4, <2>1, <2>2 DEF ScanEvent, client, TypeOK
  <1>5. CASE Answer
    <2>1. inbox' \in BoundedSeq(Requests, MaxQueue)
      <3>1. inbox \in Seq(Requests) /\ inbox # <<>> /\ Len(inbox) <= MaxQueue /\ MaxQueue \in Nat
        BY <1>5, TypesAre, WifiAssumption DEF Answer, TypeOK
      <3>2. Tail(inbox) \in Seq(Requests) /\ Len(Tail(inbox)) = Len(inbox) - 1
            /\ Len(inbox) \in Nat
        BY <3>1
      <3>3. Len(Tail(inbox)) <= MaxQueue
        BY <3>1, <3>2
      <3> QED
        BY <1>5, <3>2, <3>3, TypesAre DEF Answer
    <2>2. chan' \in BoundedSeq(Message, MaxQueue)
      BY <1>5, SentType, MessagesAre DEF Answer
    <2>3. monitor' \in BOOLEAN
      BY <1>5 DEF Answer, TypeOK
    <2> QED
      BY <1>5, <2>1, <2>2, <2>3 DEF Answer, client, TypeOK
  <1>6. CASE Ends
    <2>1. inbox' \in BoundedSeq(Requests, MaxQueue)
      <3>1. <<>> \in Seq(Requests) /\ Len(<<>>) = 0 /\ 0 <= MaxQueue
        BY WifiAssumption
      <3> QED
        BY <1>6, <3>1, TypesAre DEF Ends
    <2>2. found' \in Tables
      BY <1>6, TypesAre DEF Ends
    <2>3. running' \in BOOLEAN /\ monitor' \in BOOLEAN
          /\ announced' \in Events \cup {"none"} /\ missed' \in Requests \cup {"none", "overflow"}
      BY <1>6 DEF Ends
    <2> QED
      BY <1>6, <2>1, <2>2, <2>3 DEF Ends, client, TypeOK
  <1>7. CASE UNCHANGED vars
    BY <1>7 DEF vars, client, supplicant, TypeOK
  <1> QED
    BY <1>1, <1>2, <1>3, <1>4, <1>5, <1>6, <1>7 DEF Next, Scans

(* Every variable keeps its type: neither socket holds more datagrams than  *)
(* it has room for, and the buffer never more lines than the longest table. *)
THEOREM TypeCorrect == Spec => []TypeOK
  BY InitType, NextType, PTL DEF Spec

------------------------------------------------------------------------------
(* The history. *)

LEMMA InitHistory == Init => History
  <1> SUFFICES ASSUME Init PROVE History
    OBVIOUS
  <1>1. /\ chan = <<>> /\ announced = "none" /\ missed = "none" /\ stat = "Idle"
        /\ pc = "start"
    BY DEF Init
  <1>2. LastIs(chan, announced)
    <2>1. \A i \in 1 .. Len(chan) : FALSE
      BY <1>1
    <2> QED
      BY <2>1 DEF LastIs
  <1>3. stat = StatusOf[announced]
    BY <1>1 DEF StatusOf
  <1> QED
    BY <1>1, <1>2, <1>3
    DEF History, LastEventAnnounced, StatusCurrent, AnnouncedIfAttached, TablesCurrent,
        ListCurrent, AwaitsTable

(* A step that leaves the datagrams and what they are about alone. *)
LEMMA CalmHistory ==
    ASSUME History, UNCHANGED <<stat, list, supplicant, chan, missed, sound>>,
           pc' = "results" => pc = "results"
    PROVE  History'
  BY DEF History, LastEventAnnounced, StatusCurrent, AnnouncedIfAttached, TablesCurrent,
         ListCurrent, AwaitsTable, supplicant, NoneAfter, LastIs, TablesShow

(* ctrl_event() takes an event, or what came too late to be a reply. *)
LEMMA EventHistory ==
    ASSUME TypeOK, History, Event
    PROVE  History'
  <1> DEFINE kind == Head(chan).kind
  <1>1. /\ chan \in Seq(Message) /\ chan # <<>> /\ chan' = Tail(chan)
        /\ kind \in Events \cup {"OK", "TABLE"}
    BY TypesAre, TakenType DEF Event, TypeOK
  <1>2. /\ UNCHANGED <<list, running, monitor, found, announced>>
        /\ stat' = StatusAfter(kind)
        /\ missed' = IF kind \in Events /\ missed # "overflow" THEN "none" ELSE missed
        /\ sound' = IF kind = "RESULTS" THEN FALSE ELSE sound
    BY DEF Event, supplicant
  <1>3. pc' = "results" => kind = "RESULTS"
    BY DEF Event
  <1>4. /\ LastIs(chan, announced) => LastIs(chan', announced)
        /\ TablesShow(chan, found) => TablesShow(chan', found)
        /\ NoneAfter(chan', 0) =>
              /\ kind \notin Events => NoneAfter(chan, 0)
              /\ LastIs(chan, announced) /\ kind \in Events => kind = announced
    BY <1>1, Taken
  <1> HIDE DEF kind
  <1>5. LastEventAnnounced'
    BY <1>2, <1>4 DEF History, LastEventAnnounced
  <1>6. StatusCurrent'
    <2> SUFFICES ASSUME running', missed' = "none", NoneAfter(chan', 0)
                 PROVE  stat' = StatusOf[announced']
      BY DEF StatusCurrent
    <2>1. CASE kind \in Events
      <3>1. missed # "overflow"
        BY <1>2, <2>1
      <3>2. kind = announced
        BY <1>2, <1>4, <2>1, <3>1 DEF History, LastEventAnnounced
      <3> QED
        BY <1>2, <2>1, <3>2 DEF StatusAfter
    <2>2. CASE kind \notin Events
      BY <1>2, <1>4, <2>2 DEF StatusAfter, History, StatusCurrent
    <2> QED
      BY <2>1, <2>2
  <1>7. AnnouncedIfAttached'
    BY <1>2 DEF History, AnnouncedIfAttached
  <1>8. TablesCurrent'
    BY <1>2, <1>4 DEF History, TablesCurrent
  <1>9. ListCurrent'
    <2> SUFFICES ASSUME running', missed' \in {"none", "results"}, announced' = "RESULTS",
                        sound', NoneAfter(chan', 0)
                 PROVE  IsPrefix(found', list')
      BY DEF ListCurrent
    <2>1. kind # "RESULTS"
      BY <1>2
    <2>2. missed # "overflow"
      BY <1>2
    <2>3. kind \notin Events
      BY <1>2, <1>4, <2>1, <2>2 DEF History, LastEventAnnounced
    <2> QED
      BY <1>2, <1>4, <2>1, <2>3 DEF History, ListCurrent
  <1>10. AwaitsTable'
    BY <1>2, <1>3 DEF AwaitsTable
  <1> QED
    BY <1>5, <1>6, <1>7, <1>8, <1>9, <1>10 DEF History

(* A request meets an event and drops it. *)
LEMMA EventDroppedHistory ==
    ASSUME TypeOK, History, EventDropped
    PROVE  History'
  <1>1. /\ chan \in Seq(Message) /\ chan # <<>> /\ chan' = Tail(chan)
    BY TypesAre DEF EventDropped, TypeOK
  <1>2. /\ UNCHANGED <<pc, stat, list, running, monitor, found, announced, sound>>
        /\ missed' = IF missed = "overflow" THEN missed ELSE pc
        /\ pc \in Requests
    BY DEF EventDropped, client, supplicant
  <1>3. /\ LastIs(chan, announced) => LastIs(chan', announced)
        /\ TablesShow(chan, found) => TablesShow(chan', found)
    BY <1>1, Taken
  <1>4. missed' # "none" /\ (missed' = "results" => pc = "results")
        /\ (missed' # "overflow" => missed # "overflow")
    BY <1>2 DEF Requests
  <1> QED
    BY <1>2, <1>3, <1>4
    DEF History, LastEventAnnounced, StatusCurrent, AnnouncedIfAttached, TablesCurrent,
        ListCurrent, AwaitsTable

(* A request gets a reply, its own or that of an earlier one. *)
LEMMA ReplyHistory ==
    ASSUME TypeOK, History, Reply
    PROVE  History'
  <1> DEFINE kind == Head(chan).kind
             nets == Head(chan).nets
  <1>1. /\ chan \in Seq(Message) /\ chan # <<>> /\ chan' = Tail(chan)
        /\ kind \notin Events /\ nets \in Tables
    BY TypesAre, TakenType DEF Reply, IsReply, TypeOK
  <1>2. /\ UNCHANGED <<stat, running, monitor, found, announced, missed>>
        /\ pc' # "results"
    BY DEF Reply, supplicant, After
  <1>3. /\ LastIs(chan, announced) => LastIs(chan', announced)
        /\ TablesShow(chan, found) => TablesShow(chan', found)
        /\ NoneAfter(chan', 0) =>
              /\ NoneAfter(chan, 0)
              /\ TablesShow(chan, found) /\ kind = "TABLE" => nets = found
    BY <1>1, Taken
  <1>4. CASE pc = "results"
    <2>1. /\ sound' = (kind = "TABLE")
          /\ IsPrefix(nets, list')
      BY <1>1, <1>4, LeftoversType DEF Reply, Parsed, TypeOK
    <2> HIDE DEF kind, nets
    <2>2. ListCurrent'
      <3> SUFFICES ASSUME running', missed' \in {"none", "results"}, announced' = "RESULTS",
                          sound', NoneAfter(chan', 0)
                   PROVE  IsPrefix(found', list')
        BY DEF ListCurrent
      <3>1. TablesShow(chan, found)
        BY <1>2 DEF History, TablesCurrent
      <3>2. nets = found
        BY <1>3, <2>1, <3>1
      <3> QED
        BY <1>2, <2>1, <3>2
    <2> QED
      BY <1>2, <1>3, <2>2
      DEF History, LastEventAnnounced, StatusCurrent, AnnouncedIfAttached, TablesCurrent,
          AwaitsTable
  <1>5. CASE pc # "results"
    <2>1. UNCHANGED <<list, sound>>
      BY <1>5 DEF Reply
    <2> QED
      BY <1>2, <1>3, <2>1
      DEF History, LastEventAnnounced, StatusCurrent, AnnouncedIfAttached, TablesCurrent,
          ListCurrent, AwaitsTable
  <1> QED
    BY <1>4, <1>5

(* wpa_supplicant announces something. *)
LEMMA ScanEventHistory ==
    ASSUME TypeOK, History, NEW kind \in Events, NEW table \in Tables,
           ScanEvent(kind, table)
    PROVE  History'
  <1> DEFINE m == [kind |-> kind, nets |-> <<>>]
  <1>1. /\ UNCHANGED <<pc, stat, list, running, monitor, sound>>
        /\ kind = "RESULTS" \/ found' = found
        /\ running
    BY DEF ScanEvent, client
  <1>2. CASE ~monitor
    <2>1. UNCHANGED <<chan, missed, announced>> /\ announced = "none"
      BY <1>2 DEF ScanEvent, Emit, History, AnnouncedIfAttached
    <2> QED
      BY <1>1, <2>1
      DEF History, LastEventAnnounced, StatusCurrent, AnnouncedIfAttached, TablesCurrent,
          ListCurrent, AwaitsTable
  <1>3. CASE monitor /\ Len(chan) < MaxQueue
    <2>1. /\ chan' = Append(chan, m) /\ announced' = kind
          /\ missed' = IF missed = "overflow" THEN "none" ELSE missed
      BY <1>3 DEF ScanEvent, Emit
    <2>2. m \in Message /\ m.kind = kind /\ chan \in Seq(Message)
      BY MessagesAre, TypesAre DEF TypeOK
    <2> HIDE DEF m
    <2>3. /\ LastIs(chan', announced') /\ ~NoneAfter(chan', 0)
          /\ announced' = "RESULTS" => TablesShow(chan', found')
      BY <2>1, <2>2, EventSent
    <2> QED
      BY <1>1, <1>3, <2>1, <2>3
      DEF History, LastEventAnnounced, StatusCurrent, AnnouncedIfAttached, TablesCurrent,
          ListCurrent, AwaitsTable
  <1>4. CASE monitor /\ ~(Len(chan) < MaxQueue)
    <2>1. missed' = "overflow"
      BY <1>4 DEF ScanEvent, Emit
    <2> QED
      BY <1>1, <1>4, <2>1
      DEF History, LastEventAnnounced, StatusCurrent, AnnouncedIfAttached, TablesCurrent,
          ListCurrent, AwaitsTable
  <1> QED
    BY <1>2, <1>3, <1>4

(* wpa_supplicant answers a request. *)
LEMMA AnswerHistory ==
    ASSUME TypeOK, History, Answer
    PROVE  History'
  <1> DEFINE m == IF Head(inbox) = "results" THEN [kind |-> "TABLE", nets |-> found]
                  ELSE [kind |-> "OK", nets |-> <<>>]
  <1>1. /\ UNCHANGED <<pc, stat, list, running, found, announced, missed, sound>>
        /\ monitor => monitor'
        /\ chan' = Append(chan, m)
    BY DEF Answer, client
  <1>2. /\ m \in Message /\ m.kind \notin Events /\ (m.kind = "TABLE" => m.nets = found)
        /\ chan \in Seq(Message)
    BY MessagesAre, TypesAre DEF Events, TypeOK
  <1> HIDE DEF m
  <1>3. /\ LastIs(chan, announced) => LastIs(chan', announced)
        /\ NoneAfter(chan', 0) => NoneAfter(chan, 0)
        /\ TablesShow(chan, found) => TablesShow(chan', found)
    BY <1>1, <1>2, ReplySent
  <1> QED
    BY <1>1, <1>3
    DEF History, LastEventAnnounced, StatusCurrent, AnnouncedIfAttached, TablesCurrent,
        ListCurrent, AwaitsTable

LEMMA NextHistory == TypeOK /\ History /\ [Next]_vars => History'
  <1> SUFFICES ASSUME TypeOK, History, [Next]_vars PROVE History'
    OBVIOUS
  <1>1. CASE Start \/ StartScan \/ WpsConnect \/ CutLine \/ Timeout \/ EventsDone
    <2>1. UNCHANGED <<stat, list, supplicant, chan, missed, sound>>
      BY <1>1 DEF Start, StartScan, WpsConnect, CutLine, Timeout, EventsDone
    <2>2. pc' # "results"
      BY <1>1, SendsType
      DEF Start, StartScan, WpsConnect, CutLine, Timeout, EventsDone, After, Requests
    <2> QED
      BY <2>1, <2>2, CalmHistory
  <1>2. CASE Event
    BY <1>2, EventHistory
  <1>3. CASE EventDropped
    BY <1>3, EventDroppedHistory
  <1>4. CASE Reply
    BY <1>4, ReplyHistory
  <1>5. CASE Scans
    BY <1>5, ScanEventHistory DEF Scans
  <1>6. CASE Answer
    BY <1>6, AnswerHistory
  <1>7. CASE Ends
    BY <1>7
    DEF Ends, client, History, LastEventAnnounced, StatusCurrent, AnnouncedIfAttached,
        TablesCurrent, ListCurrent, AwaitsTable
  <1>8. CASE UNCHANGED vars
    BY <1>8, CalmHistory DEF vars, client
  <1> QED
    BY <1>1, <1>2, <1>3, <1>4, <1>5, <1>6, <1>7, <1>8 DEF Next, Client

LEMMA Invariance == Spec => [](TypeOK /\ History)
  <1>1. Init => TypeOK /\ History
    BY InitType, InitHistory
  <1>2. TypeOK /\ History /\ [Next]_vars => (TypeOK /\ History)'
    BY NextType, NextHistory
  <1> QED
    BY <1>1, <1>2, PTL DEF Spec

LEMMA QuietIsQuiet == Quiet => running /\ NoneAfter(chan, 0)
  <1> SUFFICES ASSUME Quiet PROVE running /\ NoneAfter(chan, 0)
    OBVIOUS
  <1>1. \A j \in 0 + 1 .. Len(chan) : FALSE
    BY DEF Quiet
  <1> QED
    BY <1>1 DEF Quiet, NoneAfter

(* Once nothing is under way, scan_status is what was announced last, unless *)
(* that very event was dropped by a request or found no room.               *)
THEOREM StatusFollowsHolds == Spec => []StatusFollows
  <1>1. History => StatusFollows
    BY QuietIsQuiet DEF History, StatusCurrent, StatusFollows
  <1> QED
    BY <1>1, Invariance, PTL

(* Once nothing is under way, the list begins with the networks of the last *)
(* scan, although replies come late and the buffer keeps lines of old ones. *)
THEOREM ListFollowsHolds == Spec => []ListFollows
  <1>1. History => ListFollows
    BY QuietIsQuiet DEF History, ListCurrent, ListFollows
  <1> QED
    BY <1>1, Invariance, PTL

==============================================================================
