----------------------------- MODULE KvAtomic -----------------------------
(***************************************************************************)
(* What concurrent calls on one key of a KvVariable promise: each call     *)
(* takes effect in one step between its beginning and its return, except   *)
(* for the two that may be seen half done.  An insert-or-update or scatter *)
(* that finds no row gives the key up before it inserts, so it may later   *)
(* overwrite the row another call inserted meanwhile; and an import first  *)
(* empties the key and then fills it.                                      *)
(***************************************************************************)
EXTENDS KvCalls

VARIABLES
  row,      \* the row of the key, or NoRow
  call,     \* the call every thread is in, or Idle
  missed,   \* whether the call saw that there is no row
  reply     \* what the call gives back, or NoReply before its effect

vars == <<row, call, missed, reply>>

Init ==
  /\ row = NoRow
  /\ call = [t \in Threads |-> Idle]
  /\ missed = [t \in Threads |-> FALSE]
  /\ reply = [t \in Threads |-> NoReply]

Pending(t, kinds) == call[t].kind \in kinds /\ reply[t] = NoReply

Begin(t, c) ==
  /\ call[t] = Idle
  /\ call' = [call EXCEPT ![t] = c]
  /\ UNCHANGED <<row, missed, reply>>

\* The thread takes effect: the new row and what is given back.
Effect(t, newRow, r) ==
  /\ row' = newRow
  /\ reply' = [reply EXCEPT ![t] = r]
  /\ missed' = [missed EXCEPT ![t] = FALSE]
  /\ UNCHANGED call

\* A lookup that inserts: every caller is given the row that is there.
Gather(t) ==
  /\ Pending(t, {"gather"})
  /\ \/ row # NoRow /\ Effect(t, row, row)
     \/ row = NoRow /\ \E v \in Values : Effect(t, v, v)

\* A lookup for prediction: zeros (NoRow) when there is no row.
Lookup(t) == Pending(t, {"lookup"}) /\ Effect(t, row, row)

Count(t) == Pending(t, {"count"}) /\ Effect(t, row, Done)

Update(t) ==
  /\ Pending(t, {"update"})
  /\ row # NoRow \/ missed[t]
  /\ Effect(t, call[t].arg, Done)

Add(t) ==
  /\ Pending(t, {"scatter", "train"})
  /\ row # NoRow
  /\ Effect(t, Plus(row, call[t].arg), Done)

\* An optimizer keeps the key locked, so it inserts only where there is no row.
AddToNew(t) ==
  /\ \/ Pending(t, {"train"}) /\ row = NoRow
     \/ Pending(t, {"scatter"}) /\ missed[t]
  /\ \E v \in Values : Effect(t, Plus(v, call[t].arg), Done)

Delete(t) == Pending(t, {"delete"}) /\ Effect(t, NoRow, Done)

\* The call sees that there is no row, or (import) makes it so.
Miss(t) ==
  /\ ~missed[t]
  /\ \/ Pending(t, {"update", "scatter"}) /\ row = NoRow
     \/ Pending(t, {"import"})
  /\ row' = NoRow
  /\ missed' = [missed EXCEPT ![t] = TRUE]
  /\ UNCHANGED <<call, reply>>

Fill(t) ==
  /\ Pending(t, {"import"})
  /\ missed[t]
  /\ row = NoRow
  /\ Effect(t, call[t].arg, Done)

Return(t) ==
  /\ reply[t] # NoReply
  /\ call' = [call EXCEPT ![t] = Idle]
  /\ reply' = [reply EXCEPT ![t] = NoReply]
  /\ UNCHANGED <<row, missed>>

Next ==
  \E t \in Threads :
    \/ \E c \in Calls : Begin(t, c)
    \/ Gather(t) \/ Lookup(t) \/ Count(t) \/ Update(t) \/ Add(t) \/ AddToNew(t)
    \/ Delete(t) \/ Miss(t) \/ Fill(t) \/ Return(t)

Spec == Init /\ [][Next]_vars
=============================================================================
