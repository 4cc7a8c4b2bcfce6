------------------------------ MODULE AtomicLog ------------------------------
(***************************************************************************)
(* What log.c promises its callers: a call of log_write puts its record    *)
(* into the log file, and onto stderr if its level asks for it, in one     *)
(* step. A process that dies may leave the beginnings of one record.       *)
(***************************************************************************)
EXTENDS Naturals, Sequences

CONSTANTS
    Calls,      \* the calls of log_write
    Loud,       \* those that stderr shows as well (ERROR and DEBUG)
    CrashTears  \* TRUE if the process may die

VARIABLES
    file,       \* the pieces of records in the log file
    console     \* and on stderr

vars == <<file, console>>

Record(c) == <<[call |-> c, part |-> "head"], [call |-> c, part |-> "body"],
               [call |-> c, part |-> "end"]>>
Cuts(c) == {SubSeq(Record(c), 1, n) : n \in 0..3}

\* The record's piece of the file and of stderr for a call that returns: all of
\* it, or nothing in a file that could not be opened or for a quiet level.
FilePieces(c) == {<<>>, Record(c)}
ConsolePiece(c) == IF c \in Loud THEN Record(c) ELSE <<>>

Init == file = <<>> /\ console = <<>>

Write(c) ==
    /\ \E piece \in FilePieces(c) : file' = file \o piece
    /\ console' = console \o ConsolePiece(c)

\* stderr gets its piece only after the file got the whole of its own.
Tear(c) ==
    /\ CrashTears
    /\ \/ \E piece \in Cuts(c) : file' = file \o piece /\ UNCHANGED console
       \/ \E piece \in FilePieces(c), cut \in Cuts(c) :
             /\ c \in Loud
             /\ file' = file \o piece
             /\ console' = console \o cut

Next == \E c \in Calls : Write(c) \/ Tear(c)

Spec == Init /\ [][Next]_vars
=============================================================================
