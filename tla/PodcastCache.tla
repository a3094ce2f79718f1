----------------------------- MODULE PodcastCache -----------------------------
(***************************************************************************)
(* A podcast: its PodcastSource, the PodcastSerializer that keeps it in a  *)
(* cache file, the UpdateTask that downloads its feed, and the player that *)
(* moves the position of an episode (libsrc/PodcastSource.cpp,             *)
(* podcast_serializer.cpp, UpdateTask.cpp, mediaplayerproxy.cpp).          *)
(*                                                                         *)
(* A change starts a timer unless it runs; when it elapses, the source is  *)
(* written.  All of it happens on the GUI thread.                          *)
(***************************************************************************)
EXTENDS EpisodeList

CONSTANTS
    MaxPosition,    \* bound on positions
    WriteDelay,     \* interval of writeTimer, 1000 ms in the code
    MaxReplies,     \* bound on downloads under way
    MaxFeed,        \* bound on the episodes of a feed
    None            \* no episode was given to the player

ASSUME CacheAssumption ==
    /\ MaxPosition \in Nat /\ WriteDelay \in Nat
    /\ MaxReplies \in Nat \ {0} /\ MaxFeed \in Nat
    /\ None \notin Episode

VARIABLES
    running,        \* the program runs
    episodes,       \* PodcastSource::episodes
    position,       \* PlayableItem::position of the episodes in the list
    timer,          \* PodcastSerializer::writeTimer
    cache,          \* the cache file
    replies,        \* downloads under way in HttpClient
    playing         \* MediaPlayerProxy::current_item, and whose object it is

vars == <<running, episodes, position, timer, cache, replies, playing>>

Position == 0 .. MaxPosition
Start0   == [e \in Episode |-> 0]
Off      == [active |-> FALSE, left |-> 0]
NoCache  == [exists |-> FALSE, episodes |-> <<>>, position |-> Start0]
Nothing  == [item |-> None, owner |-> "nobody"]

(* What a feed brings; a guid may be there twice. *)
Feeds == BoundedSeq(Episode, MaxFeed)

TypeOK ==
    /\ running \in BOOLEAN
    /\ episodes \in Seq(Episode)
    /\ position \in [Episode -> Position]
    /\ timer \in [active : BOOLEAN, left : 0 .. WriteDelay]
    /\ cache \in [exists : BOOLEAN, episodes : Seq(Episode), position : [Episode -> Position]]
    /\ replies \in 0 .. MaxReplies
    /\ playing \in [item : Episode \cup {None}, owner : {"list", "source", "nobody"}]

------------------------------------------------------------------------------
(* Mutant: every change puts the write off. *)
DelayedWriteAgain ==
    timer' = [active |-> TRUE, left |-> WriteDelay]

(* PodcastSource::dataChanged is connected to delayed_write(), which does   *)
(* not restart a timer that runs.                                           *)
DelayedWrite ==
    timer' = IF timer.active THEN timer ELSE [active |-> TRUE, left |-> WriteDelay]

(* The positions of some episodes, the others at the start. *)
Only(S, pos) == [e \in Episode |-> IF e \in S THEN pos[e] ELSE 0]

(* An episode that leaves the list lives on in the player, and its signals  *)
(* still reach the source.                                                  *)
OnlyStay(S) ==
    playing' = IF playing.owner = "list" /\ playing.item \notin S
               THEN [playing EXCEPT !.owner = "source"] ELSE playing

(* PodcastSerializer::restore_info(): what the file says of the list.       *)
CachedEpisodes == AddAll(<<>>, cache.episodes)
CachedPosition == Only(ToSet(cache.episodes), cache.position)

(* Mutant: the positions of the file are not used. *)
RestoreAtStart ==
    /\ episodes' = AddAll(<<>>, cache.episodes)
    /\ position' = Start0
    /\ timer' = Off
    /\ replies' = 1
    /\ UNCHANGED cache

(* Mutant: the downloads of the old source go on for the new one. *)
RestoreKeepsDownloads ==
    /\ episodes' = AddAll(<<>>, cache.episodes)
    /\ position' = Only(ToSet(cache.episodes), cache.position)
    /\ timer' = Off
    /\ replies' = replies + 1
    /\ UNCHANGED cache

(* Configuration::read_podcasts(): a new source is restored from its cache  *)
(* file before the serializer hears of changes, and its first download is   *)
(* under way.                                                               *)
Restore ==
    /\ episodes' = AddAll(<<>>, cache.episodes)
    /\ position' = Only(ToSet(cache.episodes), cache.position)
    /\ timer' = Off
    /\ replies' = 1
    /\ UNCHANGED cache

Start ==
    /\ ~running
    /\ running' = TRUE
    /\ Restore
    /\ playing' = Nothing

(* Configuration::refresh_configuration(): the old source dies with its     *)
(* timer and its downloads; the player keeps the old episode.               *)
Reload ==
    /\ running
    /\ Restore
    /\ playing' = [playing EXCEPT !.owner = "nobody"]
    /\ UNCHANGED running

(* The program ends, by a crash or not: nothing is written. *)
Stop ==
    /\ running
    /\ running' = FALSE
    /\ episodes' = <<>>
    /\ position' = Start0
    /\ timer' = Off
    /\ replies' = 0
    /\ playing' = Nothing
    /\ UNCHANGED cache

------------------------------------------------------------------------------
(* UpdateTask::start(), by its timer or by the user. *)
Refresh ==
    /\ running /\ replies < MaxReplies
    /\ replies' = replies + 1
    /\ UNCHANGED <<running, episodes, position, timer, cache, playing>>

(* Mutant: nobody is told of what was read. *)
ReplyQuietly(feed) ==
    /\ replies > 0
    /\ replies' = replies - 1
    /\ episodes' = AddAll(episodes, feed)
    /\ position' = Only(Stay(episodes, feed), position)
    /\ OnlyStay(Stay(episodes, feed))
    /\ UNCHANGED <<running, cache, timer>>

(* A feed arrives: update_podcast() sets title and description, which       *)
(* signals a change, and adds the episodes.  An XML error ends the handler  *)
(* and leaves what was added before it; every feed is taken to begin with   *)
(* its title.                                                               *)
Reply(feed) ==
    /\ replies > 0
    /\ replies' = replies - 1
    /\ episodes' = AddAll(episodes, feed)
    /\ position' = Only(Stay(episodes, feed), position)
    /\ OnlyStay(Stay(episodes, feed))
    /\ DelayedWrite
    /\ UNCHANGED <<running, cache>>

(* The picture of the podcast arrives, and its path is stored with the rest. *)
Icon ==
    /\ running
    /\ DelayedWrite
    /\ UNCHANGED <<running, episodes, position, cache, replies, playing>>

(* The download fails, or what arrives is no feed. *)
ReplyFails ==
    /\ replies > 0
    /\ replies' = replies - 1
    /\ UNCHANGED <<running, episodes, position, timer, cache, playing>>

(* The update button of the list: PodcastSource::purge() removes episodes   *)
(* and cache file but not a write that is due, then refresh().              *)
Purge ==
    /\ running /\ replies < MaxReplies
    /\ episodes' = <<>>
    /\ position' = Start0
    /\ cache' = NoCache
    /\ replies' = replies + 1
    /\ OnlyStay({})
    /\ UNCHANGED <<running, timer>>

------------------------------------------------------------------------------
(* PodcastEpisodeModel::send_to_player(). *)
Play(e) ==
    /\ running /\ e \in ToSet(episodes)
    /\ playing' = [item |-> e, owner |-> "list"]
    /\ UNCHANGED <<running, episodes, position, timer, cache, replies>>

(* The backend reports a position, and PlayableItem::set_position() signals *)
(* a change: also one of an episode that is not in the list any more.       *)
PlayerMoves(p) ==
    /\ playing.item # None
    /\ position' = IF playing.owner = "list"
                   THEN [position EXCEPT ![playing.item] = p] ELSE position
    /\ IF playing.owner = "nobody" THEN UNCHANGED timer ELSE DelayedWrite
    /\ UNCHANGED <<running, episodes, cache, replies, playing>>

Tick ==
    /\ timer.active /\ timer.left > 0
    /\ timer' = [timer EXCEPT !.left = @ - 1]
    /\ UNCHANGED <<running, episodes, position, cache, replies, playing>>

(* writeTimer elapses: PodcastSerializer::write(). *)
Write ==
    /\ timer.active /\ timer.left = 0
    /\ timer' = Off
    /\ cache' = [exists |-> TRUE, episodes |-> episodes, position |-> position]
    /\ UNCHANGED <<running, episodes, position, replies, playing>>

------------------------------------------------------------------------------
(* A source of the configuration file that was never downloaded, before the *)
(* program starts.                                                          *)
Init ==
    /\ running = FALSE
    /\ episodes = <<>>
    /\ position = Start0
    /\ timer = Off
    /\ cache = NoCache
    /\ replies = 0
    /\ playing = Nothing

Serializer == Tick \/ Write

Network == Icon \/ ReplyFails \/ \E feed \in Feeds : Reply(feed)

User ==
    \/ Start \/ Stop \/ Reload
    \/ Refresh \/ Purge
    \/ \E e \in Episode : Play(e)

Player == \E p \in Position : PlayerMoves(p)

Next == Serializer \/ Network \/ User \/ Player

(* The event loop serves the timer; nothing is assumed of network, users    *)
(* and player.                                                              *)
Fairness == WF_vars(Tick) /\ WF_vars(Write)

Spec     == Init /\ [][Next]_vars
FairSpec == Spec /\ Fairness

------------------------------------------------------------------------------
(***************************************************************************)
(* Properties.                                                             *)
(***************************************************************************)

(* The cache file and the source have the same episodes at the same         *)
(* positions.                                                               *)
CacheAgrees ==
    /\ ToSet(cache.episodes) = ToSet(episodes)
    /\ position = CachedPosition

(* With no write due the source is what its file says: no                   *)
(* download, purge, position, reload or restart leaves a change behind      *)
(* that nothing will write.                                                 *)
CacheFollows == running /\ ~timer.active => CacheAgrees

(* Memory and file hold proper lists, through evictions and restarts.       *)
ListsAreProper == ProperList(episodes) /\ ProperList(cache.episodes)

(* A download leaves the newest of what was there and what it brought.      *)
DownloadKeepsNewest ==
    [][\A feed \in Feeds :
        Reply(feed) => KeepsNewest(episodes', ToSet(episodes) \cup ToSet(feed))]_vars

(* A reload of the configuration, at a moment when no write is due, changes *)
(* nothing of what the user sees: episodes and positions stay.              *)
ReloadIsTransparent ==
    [][Reload /\ ~timer.active =>
        ToSet(episodes') = ToSet(episodes) /\ position' = position]_vars

(* What changed is written, even while a playing episode changes its        *)
(* position all the time, unless a reload or the end of the program drops   *)
(* it first; then source and file agree at the next start.                  *)
ChangesReachTheFile == (running /\ ~CacheAgrees) ~> (CacheAgrees \/ ~running)

==============================================================================
