-------------------------- MODULE MCCheckpointFiles -------------------------
(* Four saves: a file of one part, one of several, one with nothing in it  *)
(* and one that has more parts than are listed.                            *)
EXTENDS CheckpointFiles

CONSTANTS checkpoint_ext, temp_ext, temp_data

MCChunks == <<1, 3, 0, 5>>

MCTemp == [n \in Steps \cup {StateFile} |->
             IF n = StateFile THEN temp_ext ELSE temp_data]

MCReads == {<<0, 1>>, <<1, 3>>}

MCNames == Steps \cup {checkpoint_ext, temp_ext, temp_data}
=============================================================================
