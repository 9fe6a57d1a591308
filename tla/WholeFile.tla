----------------------------- MODULE WholeFile -----------------------------
(***************************************************************************)
(* A list of records kept in one JSONL file.  Every writer reads the whole *)
(* file, changes one record and writes the whole file back, and nothing    *)
(* locks it.  Opening the file for writing empties it, and what was        *)
(* prepared is written later.                                              *)
(***************************************************************************)
EXTENDS Naturals, Sequences

VARIABLES
    file,        \* the rows by id; empty while a writer has the file open
    torn,        \* it does not parse
    todo,        \* what is left of each caller's handler
    prepared,    \* the contents a caller is about to write
    writing      \* a caller's progress in one write

Empty == [i \in {} |-> {}]

Extend(rows, id, row) == [i \in DOMAIN rows \cup {id} |-> IF i = id THEN row ELSE rows[i]]

(* One step of a handler: it reads the file and goes on, prepares a write, *)
(* or returns.                                                             *)
At(c, stage) == todo[c] # << >> /\ Head(todo[c]) = stage /\ writing[c] = "no"

Reads(c, stage) == At(c, stage) /\ ~torn

GoesOn(c, n) ==
    /\ todo' = [todo EXCEPT ![c] = SubSeq(@, n + 1, Len(@))]
    /\ UNCHANGED <<file, torn, prepared, writing>>

Returns(c) ==
    /\ todo' = [todo EXCEPT ![c] = << >>]
    /\ prepared' = [prepared EXCEPT ![c] = Empty]
    /\ UNCHANGED <<file, torn, writing>>

Writes(c, rows) ==
    /\ prepared' = [prepared EXCEPT ![c] = rows]
    /\ writing' = [writing EXCEPT ![c] = "opens"]
    /\ UNCHANGED <<file, torn, todo>>

(* _replace_record, from a read of its own; an unknown id raises.          *)
Replaces(c, id, row) ==
    IF id \in DOMAIN file THEN Writes(c, [file EXCEPT ![id] = row]) ELSE Returns(c)

(* open("w") empties the file.                                             *)
Empties(c) ==
    /\ writing[c] = "opens"
    /\ file' = Empty /\ torn' = FALSE
    /\ writing' = [writing EXCEPT ![c] = "fills"]
    /\ UNCHANGED <<todo, prepared>>

(* The rows go out.  Where another writer has filled the file since, the   *)
(* two handles overlap from the first byte on and the lines may be torn.   *)
GoOut(c) ==
    /\ writing[c] = "fills"
    /\ file' = prepared[c]
    /\ torn' \in {FALSE, DOMAIN file # {} /\ file # prepared[c]}
    /\ writing' = [writing EXCEPT ![c] = "no"]
    /\ todo' = [todo EXCEPT ![c] = Tail(@)]
    /\ prepared' = [prepared EXCEPT ![c] = Empty]

(* The process ends: the threads with it, the file as it is.               *)
Stops ==
    /\ todo' = [c \in DOMAIN todo |-> << >>] /\ writing' = [c \in DOMAIN writing |-> "no"]
    /\ prepared' = [c \in DOMAIN prepared |-> Empty]
    /\ UNCHANGED <<file, torn>>
=============================================================================
