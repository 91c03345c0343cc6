---------------------------- MODULE MCSyncQueue ----------------------------
(* Instances of SyncQueue for TLC.                                         *)
EXTENDS SyncQueue

CONSTANTS a, b

Song(f, size) == [file |-> f, size |-> size, subtitle |-> 0]
Video(f, size, subtitle) == [file |-> f, size |-> size, subtitle |-> subtitle]

\* A song of two blocks and a subtitled video, and a queue that follows it
\* and offers one of its transfer IDs again.
MCManifests == {<<Song(a, 2), Video(b, 1, 1)>>, <<Song(b, 1)>>}

\* Two items of one block each, for the liveness run.
MCLiveManifests == {<<Song(a, 1), Song(b, 1)>>, <<Video(b, 1, 1)>>}
=============================================================================
