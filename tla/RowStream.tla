----------------------------- MODULE RowStream -----------------------------
(***************************************************************************)
(* What the ingest loop is promised by stream_items: the rows of the file, *)
(* in their order, each once.  The stream is complete only when every row  *)
(* was handed on, and fails only on a file that cannot be parsed; the      *)
(* reader may turn away at any moment.                                     *)
(***************************************************************************)
EXTENDS InputFile

VARIABLES
  file,    \* the input file
  pos,     \* the last row handed on, or 0
  ending   \* open, complete, failed, or left by its reader

Init == pos = 0 /\ ending = "open"

Hand(q) ==
  /\ ending = "open" /\ Follows(file, pos, q)
  /\ pos' = q /\ UNCHANGED <<file, ending>>

Complete == ending = "open" /\ NoMore(file, pos) /\ ending' = "complete" /\ UNCHANGED <<file, pos>>
Failed == ending = "open" /\ BreaksAfter(file, pos) /\ ending' = "failed" /\ UNCHANGED <<file, pos>>
Leave == ending = "open" /\ ending' = "left" /\ UNCHANGED <<file, pos>>

Next == (\E q \in Places(file) : Hand(q)) \/ Complete \/ Failed \/ Leave

Spec == Init /\ [][Next]_<<file, pos, ending>>
=============================================================================
