----------------------------- MODULE MCOnlineET -----------------------------
(* Two station names, so that a station object is reused after another one *)
(* became current.  Four handles: the live one, the one the channel holds  *)
(* and one remembered by each station never exhaust them.  A chunk of two  *)
(* and a queue of three: a timeout can end at the limit or before it.      *)
EXTENDS OnlineET
=============================================================================
