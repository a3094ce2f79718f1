---------------------------- MODULE MCPodcastCache ----------------------------
(* Instances of PodcastCache for TLC: three guids, the older two of one date. *)
EXTENDS PodcastCache

MCEpisode == 1 .. 3
MCDate    == <<1, 1, 2>>
==============================================================================
