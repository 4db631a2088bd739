---------------------------- MODULE ObjectFiles ----------------------------
(***************************************************************************)
(* Files of the OSS file system (oss_file_system.cc): objects of a bucket  *)
(* that are written in parts and put in place whole, renamed by a copy and *)
(* a deletion, and read through a buffer that is loaded by ranges.  The    *)
(* service is external; each request to it may fail, and may fail after it *)
(* has taken effect, when only its answer is lost.                         *)
(*                                                                         *)
(* The unit of length is one append: parts, ranges and the buffer of a     *)
(* reader are counted in appended chunks.                                  *)
(***************************************************************************)
EXTENDS Integers, Sequences, SequencesExt, FiniteSetsExt

CONSTANTS
  Names,      \* names of objects
  PartSize,   \* upload_part_bytes_, in chunks
  MaxListed,  \* parts one answer lists
  ReadAhead,  \* read_ahead_bytes_, in chunks
  MaxFaults,  \* bound on the requests that fail
  None,       \* no object, no open file, an error
  Garbage     \* what is in memory nobody has written to

ASSUME FilesAssumption ==
  /\ {PartSize, MaxListed, ReadAhead} \subseteq Nat \ {0}
  /\ MaxFaults \in Nat
  /\ None \notin Names

VARIABLES
  objects,  \* per name: the chunks of the object, or None
  file,     \* the writable file, or None
  reader,   \* the random access file, or None
  faults    \* requests that have failed

\* The function f with v at x.
Entered(f, x, v) == [y \in DOMAIN f \cup {x} |-> IF y = x THEN v ELSE f[y]]

Fault ==
  /\ faults < MaxFaults
  /\ faults' = faults + 1

-----------------------------------------------------------------------------
(* Writing.  left is what the caller has still to append, failed that the  *)
(* last call on the file returned an error.  An upload begins with its     *)
(* first part, so an upload id and no part is no upload.                   *)

NewWritableFile(name, data) ==
  [name |-> name, left |-> data, buffer |-> <<>>, parts |-> <<>>, part |-> 1,
   failed |-> FALSE]

\* Mutant: the part number stays.
FlushSamePart(f) ==
  IF f.buffer = <<>> THEN f
  ELSE [f EXCEPT !.parts = Entered(@, f.part, f.buffer), !.buffer = <<>>]

FlushInternal(f) ==
  IF f.buffer = <<>> THEN f
  ELSE [f EXCEPT !.parts = Entered(@, f.part, f.buffer),
                 !.part = @ + 1,
                 !.buffer = <<>>]

\* The parts are listed once and the object is made of what was listed.
CompleteMultipartUpload(parts) ==
  FlattenSeq(SubSeq(parts, 1, Min({Len(parts), MaxListed})))

AppendChunk ==
  /\ file # None
  /\ file.left # <<>>
  /\ LET mustFlush == Len(file.buffer) >= PartSize
         f == IF mustFlush THEN FlushInternal(file) ELSE file
     IN \/ /\ file' = [f EXCEPT !.buffer = Append(@, Head(f.left)),
                                !.left = Tail(@),
                                !.failed = FALSE]
           /\ UNCHANGED faults
        \/ /\ mustFlush
           /\ Fault
           /\ file' = [file EXCEPT !.failed = TRUE]
  /\ UNCHANGED <<objects, reader>>

CanClose == file # None /\ file.left = <<>>

Close ==
  /\ CanClose
  /\ LET f == FlushInternal(file)
     IN /\ f.parts # <<>>
        /\ objects' = [objects EXCEPT ![f.name] = CompleteMultipartUpload(f.parts)]
  /\ file' = None
  /\ UNCHANGED <<reader, faults>>

\* The last part is not uploaded; or the parts are not listed, as always
\* where there is no upload, or the upload is not completed; or it is, the
\* answer is lost, and the upload is gone.
CloseFails ==
  /\ CanClose
  /\ LET f == FlushInternal(file)
     IN \/ /\ file.buffer # <<>>
           /\ Fault
           /\ file' = [file EXCEPT !.failed = TRUE]
           /\ UNCHANGED objects
        \/ /\ IF f.parts = <<>> THEN UNCHANGED faults ELSE Fault
           /\ file' = [f EXCEPT !.failed = TRUE]
           /\ UNCHANGED objects
        \/ /\ f.parts # <<>>
           /\ Fault
           /\ file' = [f EXCEPT !.parts = <<>>, !.failed = TRUE]
           /\ objects' = [objects EXCEPT ![f.name] = CompleteMultipartUpload(f.parts)]
  /\ UNCHANGED reader

-----------------------------------------------------------------------------
(* Renaming and deleting.  An object longer than a part is copied part by  *)
(* part into an upload of its own.                                         *)

Ranges(data) ==
  [i \in 1 .. ((Len(data) + PartSize - 1) \div PartSize) |->
     SubSeq(data, (i - 1) * PartSize + 1, Min({i * PartSize, Len(data)}))]

RenameFileInternal(data) ==
  IF Len(data) > PartSize THEN CompleteMultipartUpload(Ranges(data)) ELSE data

CopyObject(src, dst) ==
  objects' = [objects EXCEPT ![dst] = RenameFileInternal(objects[src])]

DeleteObjectInternal(name) == objects' = [objects EXCEPT ![name] = None]

-----------------------------------------------------------------------------
(* Reading.  Offsets count from 0.  opened, exact and got are history      *)
(* variables: the object when it was opened, that the buffer was loaded    *)
(* from it without an error, and the last read with its result: the        *)
(* chunks, <<>> for the end of the file, None for a failed request.        *)

NewRandomAccessFile(name) ==
  /\ reader = None
  /\ objects[name] # None
  /\ reader' = [name |-> name, length |-> Len(objects[name]), start |-> 0,
                buffer |-> <<>>, capacity |-> 0,
                opened |-> objects[name], exact |-> TRUE, got |-> None]
  /\ UNCHANGED <<objects, file, faults>>

CloseReader ==
  /\ reader # None
  /\ reader' = None
  /\ UNCHANGED <<objects, file, faults>>

\* What a read up to the end of the file can return.
Clamped(offset, n) ==
  IF offset + n >= reader.length THEN reader.length - offset ELSE n

Buffered(offset, n) ==
  /\ offset >= reader.start
  /\ offset + n <= reader.start + Len(reader.buffer)

\* The buffer after its storage was made larger, if it had to be: clear()
\* has left no element for reserve() to keep.
Reserve(desired, n) ==
  IF n > reader.capacity \/ desired > 2 * reader.capacity
  THEN [reader EXCEPT !.capacity = desired,
                      !.buffer = [i \in DOMAIN reader.buffer |-> Garbage]]
  ELSE reader

\* Mutant: the buffer keeps the offset it was first loaded at.
LoadBufferAtFirstOffset(r, offset, desired) ==
  LET end == Min({offset + Min({r.capacity, desired}), r.length})
      ok == objects[r.name] # None
  IN [r EXCEPT !.buffer = IF ok THEN SubSeq(objects[r.name], offset + 1,
                                            Min({end, Len(objects[r.name])}))
                         ELSE @,
               !.exact = ok /\ objects[r.name] = r.opened]

\* The range of the file from offset; no request fails here but for want of
\* the object.
LoadBufferFromOSS(r, offset, desired) ==
  LET end == Min({offset + Min({r.capacity, desired}), r.length})
      ok == objects[r.name] # None
  IN [r EXCEPT !.start = offset,
               !.buffer = IF ok THEN SubSeq(objects[r.name], offset + 1,
                                            Min({end, Len(objects[r.name])}))
                         ELSE @,
               !.exact = ok /\ objects[r.name] = r.opened]

Got(r, offset, n, result) ==
  [r EXCEPT !.got = [offset |-> offset, n |-> n, result |-> result]]

\* Fewer chunks than asked for are reported as the end of the file.
ResultOf(chunks, n) == IF Len(chunks) < n THEN <<>> ELSE chunks

Read(offset, asked) ==
  LET n == Clamped(offset, asked)
      desired == Min({n + Min({ReadAhead, reader.length}), reader.length})
      reserved == Reserve(desired, n)
      loaded == LoadBufferFromOSS(reserved, offset, desired)
  IN \/ /\ n <= 0
        /\ reader' = Got(reader, offset, asked, <<>>)
        /\ UNCHANGED faults
     \/ /\ n > 0
        /\ Buffered(offset, n)
        /\ LET first == offset - reader.start
           IN reader' = Got(reader, offset, asked,
                            ResultOf(SubSeq(reader.buffer, first + 1, first + n), n))
        /\ UNCHANGED faults
     \/ /\ n > 0
        /\ ~Buffered(offset, n)
        /\ reader' = Got(loaded, offset, asked,
                         IF objects[reader.name] = None THEN None
                         ELSE ResultOf(SubSeq(loaded.buffer, 1,
                                              Min({n, Len(loaded.buffer)})), n))
        /\ UNCHANGED faults
     \/ /\ n > 0
        /\ ~Buffered(offset, n)
        /\ Fault
        /\ reader' = Got([reserved EXCEPT !.start = offset, !.exact = FALSE],
                         offset, asked, None)

ReadFile(offset, asked) ==
  /\ reader # None
  /\ Read(offset, asked)
  /\ UNCHANGED <<objects, file>>
=============================================================================
