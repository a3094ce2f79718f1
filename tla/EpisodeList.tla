----------------------------- MODULE EpisodeList ------------------------------
(***************************************************************************)
(* The list of episodes of a PodcastSource: add_episode() of               *)
(* libsrc/PodcastSource.cpp.  An episode is its guid; the publisher gives  *)
(* each guid one date.                                                     *)
(***************************************************************************)
EXTENDS Naturals, SequencesExt

CONSTANTS
    Episode,        \* guids
    Date,           \* their publication dates
    MaxEpisodes     \* PodcastSource::max_episodes, set once at construction

ASSUME EpisodeAssumption ==
    /\ Date \in [Episode -> Nat]
    /\ MaxEpisodes \in Nat \ {0}

(* std::lower_bound(): the first place whose episode is not newer. *)
Place(list, e) ==
    CHOOSE i \in 1 .. Len(list) + 1 :
        /\ \A j \in 1 .. i - 1 : Date[list[j]] > Date[e]
        /\ i <= Len(list) => ~(Date[list[i]] > Date[e])

(* Mutant: one too many is kept. *)
ShortenLate(list) == IF Len(list) > MaxEpisodes + 1 THEN Front(list) ELSE list

(* pop_back(), once the list is too long. *)
Shorten(list) == IF Len(list) > MaxEpisodes THEN Front(list) ELSE list

(* Mutant: a full list takes no more. *)
AddEpisodeBelow(list, e) ==
    IF e \in ToSet(list) \/ Len(list) >= MaxEpisodes THEN list
    ELSE InsertAt(list, Place(list, e), e)

(* add_episode() *)
AddEpisode(list, e) ==
    IF e \in ToSet(list) THEN list
    ELSE IF Len(list) <= MaxEpisodes \/ Date[Last(list)] < Date[e]
    THEN Shorten(InsertAt(list, Place(list, e), e))
    ELSE list

(* The list after each prefix of a feed, or of the cache file, whose        *)
(* episodes are added in the order they have there.                         *)
Added(list, feed) ==
    LET f[n \in 0 .. Len(feed)] == IF n = 0 THEN list ELSE AddEpisode(f[n - 1], feed[n])
    IN  f

AddAll(list, feed) == Added(list, feed)[Len(feed)]

(* What stays in the list all the time.  An episode that leaves it and comes *)
(* back in the same feed is a new object.                                    *)
Stay(list, feed) ==
    LET at == Added(list, feed)
    IN  {e \in ToSet(list) : \A n \in 0 .. Len(feed) : e \in ToSet(at[n])}

------------------------------------------------------------------------------
Ordered(list) ==
    \A i, j \in DOMAIN list : i < j => Date[list[i]] >= Date[list[j]]

Distinct(list) ==
    \A i, j \in DOMAIN list : list[i] = list[j] => i = j

(* What the list of a source is: newest first, nothing twice, not too long. *)
ProperList(list) ==
    /\ Ordered(list)
    /\ Distinct(list)
    /\ Len(list) <= MaxEpisodes

(* The newest of the episodes offered are in the list: what is not is no    *)
(* newer than what is, and there was no room for it.                        *)
KeepsNewest(list, offered) ==
    /\ ToSet(list) \subseteq offered
    /\ \A e \in offered \ ToSet(list) :
        /\ Len(list) = MaxEpisodes
        /\ \A k \in ToSet(list) : Date[k] >= Date[e]

==============================================================================
