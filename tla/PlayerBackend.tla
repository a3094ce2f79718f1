---------------------------- MODULE PlayerBackend ----------------------------
(***************************************************************************)
(* QMediaPlayer as MediaPlayerProxy uses it (libsrc/mediaplayerproxy.cpp). *)
(* The backend is not part of the repository: what it may do is read off   *)
(* the slots the proxy connects to it and the calls it makes.              *)
(*                                                                         *)
(* A call to play() may report PlayingState before it returns ("now") or   *)
(* from the event loop, if ever ("later": a stream that connects slowly).  *)
(***************************************************************************)

PlaybackState == {"Stopped", "Playing", "Paused"}
Media         == {"none", "alarm", "fallback", "user"}
Outcome       == {"now", "later"}

Player == [state : PlaybackState, media : Media, pending : BOOLEAN]

NoMedia == [state |-> "Stopped", media |-> "none", pending |-> FALSE]

(* setMedia() and setPlaylist() end what is playing. *)
SetMedia(m) == [state |-> "Stopped", media |-> m, pending |-> FALSE]

(* play() does nothing without media, and reports no change of state when   *)
(* the player plays already.                                                *)
Play(p, outcome) ==
    IF p.media = "none" \/ p.state = "Playing" THEN p
    ELSE IF outcome = "now" THEN [p EXCEPT !.state = "Playing", !.pending = FALSE]
    ELSE [p EXCEPT !.pending = TRUE]

Pause(p) == [p EXCEPT !.state = "Paused", !.pending = FALSE]

(* stop(), a failure of the stream and its end leave the media loaded. *)
Stop(p) == [p EXCEPT !.state = "Stopped", !.pending = FALSE]

(* stateChanged(PlayingState) is emitted between p and q. *)
Starts(p, q) == p.state # "Playing" /\ q.state = "Playing"

Silent(p) == p.state # "Playing" /\ ~p.pending

==============================================================================
