------------------------------- MODULE WifiScan -------------------------------
(***************************************************************************)
(* WifiControl and wpa_ctrl, the list of networks, and wpa_supplicant as   *)
(* the code sees it.  One datagram socket carries the replies to requests  *)
(* and, after ATTACH, events.  A request blocks the thread until a reply   *)
(* comes or ten seconds pass, and drops the events it meets meanwhile; a   *)
(* reply that comes too late is read as an event, or taken for the reply   *)
(* to the next request.                                                    *)
(*                                                                         *)
(* A table of scan results is a sequence of networks: one line each, below *)
(* a header line.                                                          *)
(***************************************************************************)
EXTENDS Naturals, Sequences, SequencesExt

CONSTANTS
    Networks,       \* networks in reach
    Torn,           \* a line that lost its beginning but still has five fields
    MaxFound,       \* bound: networks of one scan
    MaxQueue        \* room for datagrams in a socket, each way

ASSUME WifiAssumption ==
    /\ Networks # {} /\ Torn \notin Networks
    /\ MaxFound \in Nat \ {0} /\ MaxQueue \in Nat \ {0}

VARIABLES
    pc,             \* what the thread does: start, idle, event, a request, crashed
    ctrl,           \* ctrl # nullptr
    stat,           \* scan_stat
    reply,          \* lines in the buffer reply, without the first
    list,           \* scan_results, here and in WifiListModel
    running,        \* wpa_supplicant still is the one that ctrl talks to
    monitor,        \* it has attached the client
    found,          \* its present table
    inbox,          \* requests on their way to it
    chan,           \* its datagrams on their way to the client
    announced,      \* history: the last event of a scan
    missed,         \* history: how the event announced last was lost, if it was:
                    \* dropped by a request, or for want of room
    sound           \* history: the last SCAN_RESULTS got its own reply

client     == <<pc, ctrl, stat, reply, list>>
supplicant == <<running, monitor, found, announced>>
vars == <<client, supplicant, inbox, chan, missed, sound>>

(* ATTACH, SCAN or WPS_PBC (whose replies are short texts), SCAN_RESULTS. *)
Requests == {"attach", "command", "results"}
Events   == {"STARTED", "RESULTS", "FAILED"}
Tables   == {t \in BoundedSeq(Networks, MaxFound) : IsInjective(t)}
Lines    == BoundedSeq(Networks \cup {Torn}, MaxFound)
Message  == [kind : Events \cup {"OK", "TABLE"}, nets : Tables]

(* The states of WifiControl::ScanStatus that the events lead to. *)
StatusOf == [none |-> "Idle", STARTED |-> "Scanning",
             RESULTS |-> "ScanOk", FAILED |-> "ScanFailed"]

TypeOK ==
    /\ pc \in Requests \cup {"start", "idle", "event", "crashed"}
    /\ ctrl \in BOOLEAN
    /\ stat \in {"Idle", "Scanning", "ScanFailed", "ScanOk"}
    /\ reply \in Lines /\ list \in Lines
    /\ running \in BOOLEAN /\ monitor \in BOOLEAN /\ sound \in BOOLEAN
    /\ found \in Tables
    /\ inbox \in BoundedSeq(Requests, MaxQueue)
    /\ chan \in BoundedSeq(Message, MaxQueue)
    /\ announced \in Events \cup {"none"}
    /\ missed \in Requests \cup {"none", "overflow"}

------------------------------------------------------------------------------
(* What is in the buffer after a shorter reply was written over a longer    *)
(* one: the first line below it may be whole, cut (and then too short to be *)
(* a network, or one with a wrong bssid), the others stay.                  *)
Leftovers(old, n) ==
    LET rest == SubSeq(old, n + 1, Len(old))
    IN  IF rest = <<>> THEN {<<>>} ELSE {rest, Tail(rest), <<Torn>> \o Tail(rest)}

(* Mutant: the first network is skipped with the header. *)
ParsedWithoutFirst(lines) == IF lines = <<>> THEN <<>> ELSE Tail(lines)

(* parse_scanresult(reply, reply_size): all lines of the buffer, however    *)
(* long the reply was, but the first and the text after the last.           *)
Parsed(lines) == lines

(* Where a request returns to. *)
After(request) == IF request = "results" THEN "event" ELSE "idle"

(* Mutant: a full socket takes more. *)
SendsUnchecked(request) == pc' = request /\ inbox' = Append(inbox, request)

(* wpa_ctrl_request(): send() retries while the socket is full, then fails. *)
Sends(request) ==
    IF running /\ Len(inbox) < MaxQueue
    THEN pc' = request /\ inbox' = Append(inbox, request)
    ELSE pc' = After(request) /\ UNCHANGED inbox

------------------------------------------------------------------------------
(* wpa_ctrl_open2() binds a socket of its own, whose path it removes if an  *)
(* earlier process left it; connect() fails without wpa_supplicant.         *)
Opens == running

(* get_instance(&config), once, from main(): the socket is opened, and      *)
(* ATTACH asks for events.  When it cannot be opened, ctrl stays null.      *)
Start ==
    /\ pc = "start"
    /\ IF Opens
       THEN ctrl' = TRUE /\ Sends("attach")
       ELSE ctrl' = FALSE /\ pc' = "idle" /\ UNCHANGED inbox
    /\ UNCHANGED <<stat, reply, list, supplicant, chan, missed, sound>>

(* start_scan(), by a button that is always there: assert(ctrl). *)
StartScan ==
    /\ pc = "idle"
    /\ IF ctrl THEN Sends("command") ELSE pc' = "crashed" /\ UNCHANGED inbox
    /\ UNCHANGED <<ctrl, stat, reply, list, supplicant, chan, missed, sound>>

(* wps_connect() and wps_pbc_auth(), by a long press on a network. *)
WpsConnect ==
    /\ pc = "idle" /\ list # <<>>
    /\ Sends("command")
    /\ UNCHANGED <<ctrl, stat, reply, list, supplicant, chan, missed, sound>>

------------------------------------------------------------------------------
(* Mutant: a failed scan is not noticed. *)
StatusWithoutFailed(kind) == IF kind \in Events \ {"FAILED"} THEN StatusOf[kind] ELSE stat

(* set_scan_status(), for the names of events that parse_event() looks for. *)
StatusAfter(kind) == IF kind \in Events THEN StatusOf[kind] ELSE stat

(* ctrl_event() takes a datagram; parse_event() looks for the name of an    *)
(* event in it, and calls read_scan_results() when there are results.       *)
Event ==
    /\ pc \in {"idle", "event"} /\ ctrl /\ chan # <<>>
    /\ chan' = Tail(chan)
    /\ LET kind == Head(chan).kind
       IN  /\ stat' = StatusAfter(kind)
           /\ missed' = IF kind \in Events /\ missed # "overflow"
                        THEN "none" ELSE missed
           /\ IF kind = "RESULTS"
              THEN Sends("results")
              ELSE pc' = "event" /\ UNCHANGED inbox
           /\ sound' = IF kind = "RESULTS" THEN FALSE ELSE sound
    /\ UNCHANGED <<ctrl, reply, list, supplicant>>

(* The loop of ctrl_event() ends when nothing is pending. *)
EventsDone ==
    /\ pc = "event" /\ chan = <<>>
    /\ pc' = "idle"
    /\ UNCHANGED <<ctrl, stat, reply, list, supplicant, inbox, chan, missed, sound>>

(* Mutant: an event is taken for the reply. *)
Anything(kind) == TRUE

(* reply[0] # '<'. *)
IsReply(kind) == kind \notin Events

(* wpa_ctrl_request() meets an event (a text that begins with '<') and,     *)
(* called without a callback, drops it.                                     *)
EventDropped ==
    /\ pc \in Requests /\ chan # <<>> /\ ~IsReply(Head(chan).kind)
    /\ chan' = Tail(chan)
    /\ missed' = IF missed = "overflow" THEN missed ELSE pc
    /\ UNCHANGED <<client, supplicant, inbox, sound>>

(* wpa_ctrl_request() returns with the first datagram that is no event.  A  *)
(* short text spoils the header line only.  read_scan_results() parses the  *)
(* buffer and networks_found() gives the networks to the list.              *)
Reply ==
    /\ pc \in Requests /\ chan # <<>> /\ IsReply(Head(chan).kind)
    /\ chan' = Tail(chan)
    /\ pc' = After(pc)
    /\ LET nets == Head(chan).nets
       IN  IF pc = "attach" THEN reply' = reply    \* a buffer of its own
           ELSE \E left \in Leftovers(reply, Len(nets)) : reply' = nets \o left
    /\ IF pc = "results"
       THEN list' = Parsed(reply') /\ sound' = (Head(chan).kind = "TABLE")
       ELSE UNCHANGED <<list, sound>>
    /\ UNCHANGED <<ctrl, stat, supplicant, inbox, missed>>

(* A cut line with four fields: line_to_network() reads beyond their list.  *)
CutLine ==
    /\ pc = "results" /\ chan # <<>> /\ Head(chan).kind = "TABLE"
    /\ Len(Head(chan).nets) < Len(reply)
    /\ pc' = "crashed"
    /\ UNCHANGED <<ctrl, stat, reply, list, supplicant, inbox, chan, missed, sound>>

(* select() times out: the exception is caught, and the networks of the     *)
(* last time are signalled again.  (Ten seconds without a datagram: events  *)
(* that keep coming keep the request waiting.)                              *)
Timeout ==
    /\ pc \in Requests /\ chan = <<>>
    /\ pc' = After(pc)
    /\ UNCHANGED <<ctrl, stat, reply, list, supplicant, inbox, chan, missed, sound>>

------------------------------------------------------------------------------
(* wpa_supplicant. *)

(* An event for an attached client; one that finds no room is lost. *)
Emit(kind) ==
    IF ~monitor THEN UNCHANGED <<chan, missed, announced>>
    ELSE /\ announced' = kind
         /\ IF Len(chan) < MaxQueue
            THEN /\ chan' = Append(chan, [kind |-> kind, nets |-> <<>>])
                 /\ missed' = IF missed = "overflow" THEN "none" ELSE missed
            ELSE missed' = "overflow" /\ UNCHANGED chan

ScanEvent(kind, table) ==
    /\ running
    /\ kind = "RESULTS" \/ table = found
    /\ found' = table
    /\ Emit(kind)
    /\ UNCHANGED <<client, running, monitor, inbox, sound>>

Answer ==
    /\ running /\ inbox # <<>> /\ Len(chan) < MaxQueue
    /\ inbox' = Tail(inbox)
    /\ monitor' = (monitor \/ Head(inbox) = "attach")
    /\ chan' = Append(chan, IF Head(inbox) = "results"
                            THEN [kind |-> "TABLE", nets |-> found]
                            ELSE [kind |-> "OK", nets |-> <<>>])
    /\ UNCHANGED <<client, running, found, announced, missed, sound>>

(* It ends, or starts again at another socket. *)
Ends ==
    /\ running
    /\ running' = FALSE /\ monitor' = FALSE /\ inbox' = <<>>
    /\ found' = <<>> /\ announced' = "none" /\ missed' = "none"
    /\ UNCHANGED <<client, chan, sound>>

------------------------------------------------------------------------------
Init ==
    /\ pc = "start" /\ ctrl = FALSE /\ stat = "Idle"
    /\ reply = <<>> /\ list = <<>>
    /\ running \in BOOLEAN /\ monitor = FALSE
    /\ found \in Tables
    /\ inbox = <<>> /\ chan = <<>>
    /\ announced = "none" /\ missed = "none" /\ sound = FALSE

Client == Start \/ Event \/ EventsDone \/ EventDropped \/ Reply
Scans  == \E kind \in Events, table \in Tables : ScanEvent(kind, table)

Next ==
    \/ Client \/ StartScan \/ WpsConnect \/ CutLine \/ Timeout
    \/ Scans \/ Answer \/ Ends

Spec     == Init /\ [][Next]_vars
FairSpec == Spec /\ WF_vars(Client)

------------------------------------------------------------------------------
(***************************************************************************)
(* Properties.                                                             *)
(***************************************************************************)

Quiet == pc = "idle" /\ running /\ monitor /\ chan = <<>> /\ inbox = <<>>

(* When nothing is under way and no event was dropped since, scan_status is *)
(* what wpa_supplicant announced last, whatever timed out before.           *)
StatusFollows == Quiet /\ missed = "none" => stat = StatusOf[announced]

(* When results were announced last, the request for them got its own reply *)
(* and no other request swallowed an event since, the list begins with the  *)
(* networks of the last scan, in their order.                               *)
ListFollows ==
    /\ Quiet /\ announced = "RESULTS" /\ stat = "ScanOk"
    /\ sound /\ missed \in {"none", "results"}
    => IsPrefix(found, list)

(* A network that is in reach for good gets on the list for good, if scans  *)
(* go on, requests are answered and nobody presses anything any more: late  *)
(* replies of requests that timed out before do not keep it away.           *)
Undisturbed == <>[][Client \/ Scans \/ Answer]_vars
Served      == SF_vars(Answer)
Announced   == \E table \in Tables : Len(chan) < MaxQueue /\ monitor /\ ScanEvent("RESULTS", table)
NetworkAppears ==
    Undisturbed /\ Served /\ []<><<Announced>>_vars =>
        \A n \in Networks : <>[](n \in Range(found)) => <>[](n \in Range(list))

==============================================================================
