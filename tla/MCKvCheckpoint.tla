--------------------------- MODULE MCKvCheckpoint ---------------------------
(***************************************************************************)
(* Instances of KvCheckpoint for TLC.  The payloads are the ones the       *)
(* exports write, so the sets the imports of KvStore choose from are empty.*)
(***************************************************************************)
EXTENDS KvCheckpoint, TLC

NoPayload == {}

KeySymmetry == Permutations(Keys)
=============================================================================
