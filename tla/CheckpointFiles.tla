-------------------------- MODULE CheckpointFiles --------------------------
(***************************************************************************)
(* Checkpoints in files of ObjectFiles and the list of them that           *)
(* CheckpointStateManager (checkpoint_manager.py) keeps in memory and in   *)
(* the file checkpoint_ext.  One process saves, records and removes        *)
(* checkpoints, may crash between two requests, and starts again from what *)
(* checkpoint_ext says; another one reads checkpoints.                     *)
(*                                                                         *)
(* The saver that calls the manager is not in the repository: it writes a  *)
(* checkpoint to a temporary file, renames it, records it, and goes on     *)
(* after an error if it likes.  A checkpoint is one object here, named by  *)
(* the step it was saved at.                                               *)
(***************************************************************************)
EXTENDS ObjectFiles

CONSTANTS
  MaxStep,     \* bound on the steps training saves at
  Chunks,      \* number of chunks of the first, the second, ... save
  MaxCrashes,  \* bound on crashes
  Reads,       \* offsets and lengths that are read
  StateFile,   \* checkpoint_ext
  Temp         \* the temporary name of each file

Steps == 1 .. MaxStep

ASSUME CheckpointsAssumption ==
  /\ MaxStep \in Nat \ {0}
  /\ Chunks \in Seq(Nat)
  /\ MaxCrashes \in Nat
  /\ Reads \subseteq Nat \X (Nat \ {0})
  /\ StateFile \notin Steps
  /\ Temp \in [Steps \cup {StateFile} -> Names \ (Steps \cup {StateFile})]
  /\ Names = Steps \cup {StateFile} \cup Range(Temp)

\* What the list can be, and how it was recorded.
Entries == [name : Steps, save : Nat, kind : {"full", "delta"}, kept : BOOLEAN]

Lists ==
  [full : Steps, deltas : Seq(Steps),
   history_versions : UNION {[D -> Seq(Steps)] : D \in SUBSET Steps},
   log : Seq(Entries)]

\* None is neither the chunks of a file nor a list.
ASSUME NoneAssumption ==
  None \notin Seq(Nat \X Nat) \cup Lists \cup Seq(Lists)

VARIABLES
  state,    \* _ckpt_state_ext, or None; its log is a history variable
  job,      \* what the saving process is doing
  up,       \* it runs
  step,     \* the step of its last save or of the checkpoint it began from
  fresh,    \* it has not saved yet since it started
  saves,    \* saves begun
  crashes,
  (* history variables *)
  acked,       \* saves whose recording has returned without an error
  orphans,     \* checkpoints that an error or a crash has left behind
  dropped,     \* checkpoints that were deleted and not saved again
  interrupted, \* of these, the ones a restart has found in the list again
  exposed      \* deleted while checkpoint_ext had them as current

ghosts == <<acked, orphans, dropped, interrupted, exposed>>

saver == <<state, job, up, step, fresh, saves, crashes, ghosts>>

vars == <<objects, file, reader, faults, saver>>

Idle == [op |-> "idle", target |-> None, kind |-> "none", save |-> 0, queue |-> <<>>]

-----------------------------------------------------------------------------
(* The list: the current full checkpoint, its deltas, and per older full   *)
(* checkpoint the deltas it had.                                           *)

EmptyState == [full |-> None, deltas |-> <<>>, history_versions |-> <<>>, log |-> <<>>]

Current(s) == {s.full} \cup Range(s.deltas)

OfVersion(s, f) == {f} \cup Range(s.history_versions[f])

History(s) == UNION {OfVersion(s, f) : f \in DOMAIN s.history_versions}

Listed(s) == IF s = None THEN {} ELSE Current(s) \cup History(s)

LatestCheckpoint(s) == IF s.deltas = <<>> THEN s.full ELSE Last(s.deltas)

Logged(log) == Append(log, [name |-> job.target, save |-> job.save,
                            kind |-> job.kind, kept |-> TRUE])

\* The deltas a history version has.
GetDeltas(s, f) ==
  IF f \in DOMAIN s.history_versions THEN s.history_versions[f] ELSE <<>>

\* Mutant: the deltas are cleared before they are moved to the history.
UpdateLatestFullClearsFirst(s, name) ==
  IF s = None THEN [EmptyState EXCEPT !.full = name, !.log = Logged(@)]
  ELSE [full |-> name,
        deltas |-> <<>>,
        history_versions |-> Entered(s.history_versions, s.full, GetDeltas(s, s.full)),
        log |-> Logged(s.log)]

UpdateLatestFullCheckpoint(s, name) ==
  IF s = None THEN [EmptyState EXCEPT !.full = name, !.log = Logged(@)]
  ELSE [full |-> name,
        deltas |-> <<>>,
        history_versions |-> Entered(s.history_versions, s.full,
                                     GetDeltas(s, s.full) \o s.deltas),
        log |-> Logged(s.log)]

AddDeltaCheckpoint(s, name) ==
  [s EXCEPT !.deltas = Append(@, name), !.log = Logged(@)]

\* The full checkpoint that the i-th recorded checkpoint belongs to.
BaseAt(log, i) == Max({j \in 1 .. i : log[j].kind = "full"})

OfOldVersion(log, i, f) ==
  log[BaseAt(log, i)].name = f /\ BaseAt(log, i) # BaseAt(log, Len(log))

NotKept(log, f) ==
  [i \in DOMAIN log |-> [log[i] EXCEPT !.kept = @ /\ ~OfOldVersion(log, i, f)]]

DropVersion(s, f) ==
  [s EXCEPT !.history_versions = [g \in DOMAIN @ \ {f} |-> @[g]],
            !.log = NotKept(@, f)]

-----------------------------------------------------------------------------
(* Writing a file and putting it in place.                                 *)

\* Mutant: what is written is the list as it was.
WriteStale(s) ==
  /\ file' = NewWritableFile(Temp[StateFile],
                             <<IF state = None THEN s ELSE state>>)
  /\ job' = [Idle EXCEPT !.op = "write", !.target = StateFile]

\* update_checkpiont_state_ext: a copy of the list, through a temporary file.
UpdateCheckpointStateExt(s) ==
  /\ file' = NewWritableFile(Temp[StateFile], <<s>>)
  /\ job' = [Idle EXCEPT !.op = "write", !.target = StateFile]

\* An error ends the call; what was being saved stays as it is.
Raise ==
  /\ job' = Idle
  /\ orphans' = orphans \cup Range(job.queue) \cup ({job.target} \cap Steps)
  /\ UNCHANGED <<acked, dropped, interrupted, exposed>>

\* The temporary file is put in the place of the file.
Placed ==
  /\ CopyObject(Temp[job.target], job.target)
  /\ dropped' = dropped \ {job.target}

Bytes(save) == [i \in 1 .. Chunks[save] |-> <<save, i>>]

\* A process that begins from a checkpoint may save it again at once.
Save(kind) ==
  /\ up
  /\ job = Idle
  /\ saves < Len(Chunks)
  /\ \E name \in Steps \cap {step + 1, IF fresh THEN step ELSE step + 1} :
       /\ job' = [op |-> "write", target |-> name, kind |-> kind, save |-> saves + 1,
                  queue |-> <<>>]
       /\ file' = NewWritableFile(Temp[name], Bytes(saves + 1))
       /\ step' = name
       /\ orphans' = orphans \ {name}
  /\ saves' = saves + 1
  /\ fresh' = FALSE
  /\ UNCHANGED <<objects, reader, faults, state, up, crashes, acked, dropped,
                 interrupted, exposed>>

WriteFile ==
  /\ AppendChunk
  /\ UNCHANGED saver

CloseFile ==
  /\ Close
  /\ job' = [job EXCEPT !.op = "rename"]
  /\ UNCHANGED <<state, up, step, fresh, saves, crashes, ghosts>>

CloseFileFails ==
  /\ CloseFails
  /\ UNCHANGED saver

\* The caller of a file that returned an error does not try again.
GiveUp ==
  /\ file # None
  /\ file.failed
  /\ file' = None
  /\ Raise
  /\ UNCHANGED <<objects, reader, faults, state, up, step, fresh, saves, crashes>>

\* RenameFile of the temporary file: the copy ...
RenameCopy ==
  /\ job.op = "rename"
  /\ Placed
  /\ job' = [job EXCEPT !.op = "unlink"]
  /\ UNCHANGED <<file, reader, faults, state, up, step, fresh, saves, crashes,
                 acked, orphans, interrupted, exposed>>

\* ... and the deletion.  Then a checkpoint is complete, and a list recorded.
RenameDelete ==
  /\ job.op = "unlink"
  /\ DeleteObjectInternal(Temp[job.target])
  /\ IF job.target = StateFile
     THEN /\ job' = Idle
          /\ acked' = {state.log[i].save : i \in DOMAIN state.log}
     ELSE /\ job' = [job EXCEPT !.op = "record"]
          /\ UNCHANGED acked
  /\ UNCHANGED <<file, reader, faults, state, up, step, fresh, saves, crashes,
                 orphans, dropped, interrupted, exposed>>

\* Either request fails, with its effect or without it; where the list is
\* written the temporary file is deleted then, or not even that.
RenameFails ==
  /\ job.op \in {"rename", "unlink"}
  /\ Fault
  /\ LET temp == Temp[job.target]
         copied == IF job.op = "rename"
                   THEN {objects[job.target], RenameFileInternal(objects[temp])}
                   ELSE {objects[job.target]}
         left == IF job.op = "unlink" \/ job.target = StateFile
                 THEN {objects[temp], None} ELSE {objects[temp]}
     IN \E c \in copied, l \in left :
          objects' = [objects EXCEPT ![job.target] = c, ![temp] = l]
  /\ job' = Idle
  /\ orphans' = orphans \cup ({job.target} \cap Steps)
  /\ dropped' = IF objects'[job.target] = objects[job.target] THEN dropped
                ELSE dropped \ {job.target}
  /\ UNCHANGED <<file, reader, state, up, step, fresh, saves, crashes, acked,
                 interrupted, exposed>>

\* A delta without a full checkpoint is refused.
Record ==
  /\ job.op = "record"
  /\ IF job.kind = "delta" /\ state = None
     THEN /\ Raise
          /\ UNCHANGED <<file, state>>
     ELSE /\ state' = IF job.kind = "full"
                      THEN UpdateLatestFullCheckpoint(state, job.target)
                      ELSE AddDeltaCheckpoint(state, job.target)
          /\ UpdateCheckpointStateExt(state')
          /\ UNCHANGED ghosts
  /\ UNCHANGED <<objects, reader, faults, up, step, fresh, saves, crashes>>

-----------------------------------------------------------------------------
(* Removing.                                                               *)

Durable == IF objects[StateFile] = None THEN None ELSE objects[StateFile][1]

CanDrop(f) ==
  /\ up
  /\ job = Idle
  /\ state # None
  /\ f \in DOMAIN state.history_versions

\* Mutant: the deltas of the version are not removed.
ToBeRemovedFullOnly(s, f) == <<f>>

ToBeRemoved(s, f) == <<f>> \o s.history_versions[f]

\* Mutant: the version stays in the list while its files go.
RemoveLater(f) ==
  /\ CanDrop(f)
  /\ f # state.full
  /\ job' = [Idle EXCEPT !.op = "remove", !.queue = ToBeRemoved(state, f)]
  /\ UNCHANGED <<objects, file, reader, faults, state, up, step, fresh, saves,
                 crashes, ghosts>>

\* remove_old_checkpoint, which refuses the current one: the version leaves
\* the list, then its files are deleted one by one, then the list is written.
RemoveOldCheckpoint(f) ==
  /\ CanDrop(f)
  /\ f # state.full
  /\ job' = [Idle EXCEPT !.op = "remove", !.queue = ToBeRemoved(state, f)]
  /\ state' = DropVersion(state, f)
  /\ exposed' = IF Durable # None /\ Durable.full # state.full
                THEN exposed \cup (Range(ToBeRemoved(state, f)) \cap Current(Durable))
                ELSE exposed
  /\ UNCHANGED <<objects, file, reader, faults, up, step, fresh, saves, crashes,
                 acked, orphans, dropped, interrupted>>

RemoveCheckpoint ==
  /\ job.op = "remove"
  /\ job.queue # <<>>
  /\ DeleteObjectInternal(Head(job.queue))
  /\ dropped' = dropped \cup {Head(job.queue)}
  /\ job' = [job EXCEPT !.queue = Tail(@)]
  /\ UNCHANGED <<file, reader, faults, state, up, step, fresh, saves, crashes,
                 acked, orphans, interrupted, exposed>>

RemoveCheckpointFails ==
  /\ job.op = "remove"
  /\ job.queue # <<>>
  /\ objects[Head(job.queue)] # None
  /\ Fault
  /\ \/ /\ DeleteObjectInternal(Head(job.queue))
        /\ dropped' = dropped \cup {Head(job.queue)}
     \/ UNCHANGED <<objects, dropped>>
  /\ job' = Idle
  /\ orphans' = orphans \cup Range(job.queue)
  /\ UNCHANGED <<file, reader, state, up, step, fresh, saves, crashes, acked,
                 interrupted, exposed>>

AllRemoved ==
  /\ job.op = "remove"
  /\ job.queue = <<>>
  /\ UpdateCheckpointStateExt(state)
  /\ UNCHANGED <<objects, reader, faults, state, up, step, fresh, saves, crashes,
                 ghosts>>

\* The version leaves the list and its files stay.
DeleteSpecifiedHistoryVersion(f) ==
  /\ CanDrop(f)
  /\ state' = DropVersion(state, f)
  /\ UpdateCheckpointStateExt(state')
  /\ orphans' = orphans \cup OfVersion(state, f)
  /\ UNCHANGED <<objects, reader, faults, up, step, fresh, saves, crashes, acked,
                 dropped, interrupted, exposed>>

-----------------------------------------------------------------------------
(* Crash and restart.                                                      *)

Crash ==
  /\ up
  /\ crashes < MaxCrashes
  /\ crashes' = crashes + 1
  /\ up' = FALSE
  /\ state' = None
  /\ file' = None
  /\ job' = Idle
  /\ UNCHANGED <<objects, reader, faults, step, fresh, saves, ghosts>>

\* Training goes on from the latest checkpoint in the list s.
Restart(s) ==
  /\ up' = TRUE
  /\ state' = s
  /\ step' = IF s = None THEN 0 ELSE LatestCheckpoint(s)
  /\ fresh' = TRUE
  /\ orphans' = orphans \cup {c \in Steps : objects[c] # None /\ c \notin Listed(s)}
  /\ interrupted' = interrupted \cup (dropped \cap Listed(s))
  /\ UNCHANGED <<objects, file, reader, job, saves, crashes, dropped, exposed>>

\* load_checkpoint_state_ext: a list that cannot be read is no list.
Load ==
  /\ ~up
  /\ \/ /\ Restart(Durable)
        /\ UNCHANGED <<faults, acked>>
     \/ /\ Durable # None
        /\ Fault
        /\ Restart(None)
        /\ acked' = {}

\* Its length is asked for first; if that fails the file counts as empty,
\* and the manager is not constructed.
LoadInvalid ==
  /\ ~up
  /\ Durable # None
  /\ Fault
  /\ UNCHANGED <<objects, file, reader, saver>>

-----------------------------------------------------------------------------
Init ==
  /\ objects = [n \in Names |-> None]
  /\ file = None
  /\ reader = None
  /\ faults = 0
  /\ state = None
  /\ job = Idle
  /\ up = TRUE
  /\ step = 0
  /\ fresh = TRUE
  /\ saves = 0
  /\ crashes = 0
  /\ acked = {}
  /\ orphans = {}
  /\ dropped = {}
  /\ interrupted = {}
  /\ exposed = {}

SaverNext ==
  \/ Save("full")
  \/ Save("delta")
  \/ WriteFile
  \/ CloseFile
  \/ CloseFileFails
  \/ GiveUp
  \/ RenameCopy
  \/ RenameDelete
  \/ RenameFails
  \/ Record
  \/ \E f \in Steps : RemoveOldCheckpoint(f)
  \/ RemoveCheckpoint
  \/ RemoveCheckpointFails
  \/ AllRemoved
  \/ \E f \in Steps : DeleteSpecifiedHistoryVersion(f)
  \/ Crash
  \/ Load
  \/ LoadInvalid

ReaderNext ==
  /\ \/ Durable # None /\ \E c \in Current(Durable) : NewRandomAccessFile(c)
     \/ \E r \in Reads : ReadFile(r[1], r[2])
     \/ CloseReader
  /\ UNCHANGED saver

Next == SaverNext \/ ReaderNext

Spec == Init /\ [][Next]_vars

-----------------------------------------------------------------------------
(* Properties.                                                             *)

\* One type invariant.
TypeOK ==
  /\ \A n \in Names : objects[n] = None \/ Len(objects[n]) > 0
  /\ file # None => /\ file.name \in Range(Temp)
                    /\ Len(file.buffer) <= PartSize
  /\ reader # None => reader.name \in Steps /\ reader.start \in 0 .. reader.length
  /\ job.op \in {"idle", "write", "rename", "unlink", "record", "remove"}
  /\ Listed(state) \subseteq Steps
  /\ UNION {acked, {job.save}} \subseteq 0 .. saves
  /\ UNION {orphans, dropped, interrupted, exposed} \subseteq Steps
  /\ faults \in 0 .. MaxFaults /\ crashes \in 0 .. MaxCrashes

Named(s, c) == {i \in DOMAIN s.log : s.log[i].name = c}

\* The object of a listed checkpoint is the whole of what was saved there
\* when it was recorded, or later.  A checkpoint recorded twice under one
\* name, and one of more parts than are listed, are not spoken for.
Sound(s, c) ==
  \/ Cardinality(Named(s, c)) > 1
  \/ /\ objects[c] # None
     /\ LET save == objects[c][1][1]
        IN /\ \A i \in Named(s, c) : save >= s.log[i].save
           /\ objects[c] = Bytes(save) \/ Chunks[save] > PartSize * MaxListed

\* Every checkpoint that the list in memory or the one in checkpoint_ext has
\* as current, the full one and each of its deltas, is a complete object,
\* whatever requests failed and wherever the process crashed, unless it was
\* removed as an old one while checkpoint_ext lagged behind, its name was
\* recorded twice, or its save has more parts than a listing returns.  (With
\* the types, which bound what a file buffers.)
CurrentIsComplete ==
  /\ TypeOK
  /\ \A s \in {state, Durable} \ {None} :
       \A c \in Current(s) \ exposed : Sound(s, c)

\* Every old version in the list can still be restored, unless its removal
\* was cut short and a restart has found it in the list again.
HistoryIsComplete ==
  state # None => \A c \in History(state) \ interrupted : Sound(state, c)

Fulls(log) == {i \in DOMAIN log : log[i].kind = "full"}

\* Where the log has the deltas upon the full checkpoints at bases.
DeltasUpon(log, bases) ==
  {i \in DOMAIN log : log[i].kind = "delta" /\ BaseAt(log, i) \in bases}

\* The names are those of the entries at the places, one by one in that order.
InOrder(log, places, names) ==
  \E at \in [DOMAIN names -> places] :
    /\ Range(at) = places
    /\ \A j, k \in DOMAIN names : j < k => at[j] < at[k]
    /\ \A k \in DOMAIN names : names[k] = log[at[k]].name

\* The full checkpoints before the last one that were not removed.
KeptBefore(log) == {i \in Fulls(log) \ {Max(Fulls(log))} : log[i].kept}

FollowsLog(s) ==
  LET last == Max(Fulls(s.log))
      old == KeptBefore(s.log)
  IN /\ s.full = s.log[last].name
     /\ InOrder(s.log, DeltasUpon(s.log, {last}), s.deltas)
     /\ DOMAIN s.history_versions = {s.log[i].name : i \in old}
     /\ \A f \in DOMAIN s.history_versions :
          InOrder(s.log, DeltasUpon(s.log, {i \in old : s.log[i].name = f}),
                  s.history_versions[f])

\* The list is a view of what was recorded, in the order it was: the last
\* full checkpoint is the current one, with the deltas recorded after it,
\* and each one before it that was not removed has the deltas recorded
\* between it and the next.
ChainFollowsLog == \A s \in {state, Durable} \ {None} : FollowsLog(s)

\* No checkpoint is left that nobody knows of: every object of a checkpoint
\* is in the list, being saved or being removed, unless an error, a crash or
\* a call to forget a version has left it behind.
NothingOrphaned ==
  up => \A c \in Steps :
          objects[c] # None =>
            c \in UNION {Listed(state), {job.target}, Range(job.queue), orphans}

\* What was recorded without an error is in checkpoint_ext for good, until a
\* restart could not read it.
RecordedSurvives ==
  acked # {} => /\ Durable # None
                /\ acked \subseteq {Durable.log[i].save : i \in DOMAIN Durable.log}

\* A read returns the chunks at its offset as they were when the file was
\* opened, as many as were asked for and there are, and the end of the file
\* only at its end, as long as the buffer was last loaded without an error
\* and from that very object.
ReadsAreFaithful ==
  (reader # None /\ reader.exact /\ reader.got # None) =>
    LET got == reader.got
    IN got.result = SubSeq(reader.opened, got.offset + 1,
                           Min({got.offset + got.n, reader.length}))
=============================================================================
