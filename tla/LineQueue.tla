----------------------------- MODULE LineQueue ------------------------------
(***************************************************************************)
(* What the console's input (kernel/console.c) promises to its readers: a  *)
(* line being typed, which can be edited, and behind it the queue of       *)
(* finished input, which no editing reaches.  Together they never hold     *)
(* more than SIZE characters; what does not fit is dropped as it is typed. *)
(***************************************************************************)
EXTENDS Sequences, Naturals

CONSTANTS Ordinary, Ends, SIZE   \* characters; those that finish a line; capacity

VARIABLES finished, typing

lineVars == <<finished, typing>>

LineInit == finished = <<>> /\ typing = <<>>

\* A character that ends a line, or fills the buffer, finishes it.
Put(c) ==
  /\ Len(finished) + Len(typing) < SIZE
  /\ IF c \in Ends \/ Len(finished) + Len(typing) + 1 = SIZE
     THEN finished' = finished \o Append(typing, c) /\ typing' = <<>>
     ELSE typing' = Append(typing, c) /\ UNCHANGED finished

Erase     == typing # <<>> /\ typing' = SubSeq(typing, 1, Len(typing) - 1) /\ UNCHANGED finished
EraseLine == typing' = <<>> /\ UNCHANGED finished
Take      == finished # <<>> /\ finished' = Tail(finished) /\ UNCHANGED typing

LineNext == Erase \/ EraseLine \/ Take \/ \E c \in Ordinary \union Ends : Put(c)
LineSpec == LineInit /\ [][LineNext]_lineVars
=============================================================================
