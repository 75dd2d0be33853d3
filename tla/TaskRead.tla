------------------------------ MODULE TaskRead ------------------------------
(***************************************************************************)
(* GET /tasks/{id} (and the body DELETE answers with): Get looks the task  *)
(* up under the read lock but returns the pointer, so respondJSON encodes  *)
(* the live Task after the lock is gone, while runTask, Cancel and         *)
(* CancelAll write to it.                                                  *)
(*                                                                         *)
(* That is a data race.  The encoder reads each field once, and a string   *)
(* in two words (pointer, length); without synchronisation the loads may   *)
(* be taken in any order, so every order is a step here.                   *)
(***************************************************************************)
EXTENDS TaskManager

CONSTANT Nobody

ASSUME NobodyAssumption == Nobody \notin TaskId

VARIABLES
    reading, \* the task being encoded, Nobody when the handler is idle
    ended,    \* the task had finished when Get looked it up
    view,    \* what the encoder has read of each field so far
    snaps    \* history: the states the task went through while it was encoded

readVars == <<reading, ended, view, snaps>>

Field == {"pointer", "length", "result", "finished"}
NothingRead == [f \in {} |-> "unread"]

\* The lengths of the status strings decide which mixtures are readable.
StatusLength(s) ==
    CASE s \in {"pending", "running", "timeout"} -> 7
      [] s = "completed" -> 9
      [] s \in {"failed", "killed"} -> 6

IsSet(t) == IF t \in finished THEN "set" ELSE "nil"

FieldOf(t, f) ==
    CASE f = "pointer" -> status[t]
      [] f = "length" -> StatusLength(status[t])
      [] f \in {"result", "finished"} -> IsSet(t)

Snapshot(t) == [status |-> status[t], result |-> IsSet(t), finished |-> IsSet(t)]

Shown == [status |-> IF StatusLength(view["pointer"]) = view["length"]
                     THEN view["pointer"] ELSE "torn",
          result |-> view["result"], finished |-> view["finished"]]

Encoded == reading # Nobody /\ DOMAIN view = Field

-----------------------------------------------------------------------------
ReadInit == reading = Nobody /\ ended = FALSE /\ view = NothingRead /\ snaps = {}

\* Get: under tm.mu.RLock. A task that is not in the map is a 404.
Get(t) ==
    /\ reading = Nobody
    /\ t \in tasks
    /\ reading' = t
    /\ ended' = (t \in finished)
    /\ view' = NothingRead
    /\ snaps' = {Snapshot(t)}
    /\ UNCHANGED vars

\* The encoder loads one word of the live task.
ReadField(f) ==
    /\ reading # Nobody
    /\ f \notin DOMAIN view
    /\ view' = [g \in DOMAIN view \cup {f} |->
                    IF g = f THEN FieldOf(reading, f) ELSE view[g]]
    /\ UNCHANGED <<vars, reading, ended, snaps>>

Respond ==
    /\ Encoded
    /\ reading' = Nobody /\ ended' = FALSE /\ view' = NothingRead /\ snaps' = {}
    /\ UNCHANGED vars

\* A step of the task manager, seen by the history.
ManagerStep ==
    /\ Next
    /\ UNCHANGED <<reading, ended, view>>
    /\ snaps' = IF reading = Nobody THEN {} ELSE snaps \cup {Snapshot(reading)'}

ReadNext ==
    \/ ManagerStep
    \/ \E t \in TaskId : Get(t)
    \/ \E f \in Field : ReadField(f)
    \/ Respond

ReadSpec == Init /\ ReadInit /\ [][ReadNext]_<<vars, readVars>>

-----------------------------------------------------------------------------
\* "Get returns a copy of the task": the encoded body is a state the task was
\* in at some moment of the request.
\* The code does not satisfy this; the README says where it departs.
ViewIsSnapshot == Encoded => Shown \in snaps

\* A client that polls until the status is final may stop: if the body shows
\* an outcome that only runTask writes, the task has ended with that outcome,
\* although the body may still lack the result.
ShownOutcomeIsFinal ==
    Encoded /\ Shown.status \in Terminal \ {"killed"} =>
        reading \in finished /\ status[reading] = Shown.status

\* A GET that begins after the task has ended answers with its outcome, its
\* result and its finish time, even if the sweep forgets the task meanwhile.
LateGetExact ==
    Encoded /\ ended => Shown = Snapshot(reading) /\ Shown.finished = "set"

-----------------------------------------------------------------------------
(* The inductive invariant *)

\* The types of the reader's variables that the proof needs.
ReadTypeOK ==
    /\ reading \in TaskId \cup {Nobody}
    /\ ended \in BOOLEAN
    /\ DOMAIN view \subseteq Field

\* A status that only runTask writes, once read, is the outcome of the task.
PointerFinal ==
    reading # Nobody /\ "pointer" \in DOMAIN view
        /\ view["pointer"] \in Terminal \ {"killed"} =>
            reading \in finished /\ status[reading] = view["pointer"]

\* After the end of the task, every word read is the word as it stands.
EndedExact ==
    reading # Nobody /\ ended =>
        /\ reading \in finished
        /\ \A f \in DOMAIN view : view[f] = FieldOf(reading, f)

ReadInv == IndInv /\ ReadTypeOK /\ PointerFinal /\ EndedExact
=============================================================================
