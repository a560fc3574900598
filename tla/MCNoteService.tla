-------------------------- MODULE MCNoteService ---------------------------
(* Small instances of NoteService. *)
EXTENDS NoteService, TLC

CONSTANTS n1, n2, me, you, video, s1, s2, h1, h2

\* Two students' notes on one video.
Mine == n1 :> me @@ n2 :> you
Of   == n1 :> video @@ n2 :> video

\* Two handlers of one server, where one thing fails; one handler of each of two
\* servers, without and with earlier notes.
OneOrTwo ==
  LET Apart == h1 :> s1 @@ h2 :> s2 IN
  [one  |-> [home |-> [h \in Handlers |-> s1], kept |-> {}, faults |-> 1],
   two  |-> [home |-> Apart, kept |-> {}, faults |-> 0],
   kept |-> [home |-> Apart, kept |-> Lists, faults |-> 0]]
=============================================================================
