----------------------------- MODULE InputFile -----------------------------
(***************************************************************************)
(* What iter_items_sync of core/ingest.py makes of an input file.  A file  *)
(* is a JSON array or JSON lines, and a sequence of pieces: elements of    *)
(* the array or lines.  A row is named by its place in that sequence.      *)
(***************************************************************************)
EXTENDS Integers, Sequences

(* An object with a string "prompt"; JSON of another kind; text that is    *)
(* not JSON; an empty line; bytes that are not UTF-8.                      *)
Pieces == {"prompt", "noPrompt", "notJson", "blank", "garbled"}

(* A line of its own that is not JSON is an error of that row; in an array *)
(* it ends the parse.                                                      *)
Parsed(array, piece) ==
  CASE piece = "prompt" -> "PromptItem"
    [] piece = "noPrompt" -> "RowError"
    [] piece = "notJson" -> IF array THEN "raises" ELSE "RowError"
    [] piece = "blank" -> "nothing"
    [] piece = "garbled" -> "raises"

(* White space between the elements of an array is no piece.               *)
Files(n) ==
  {f \in [array : BOOLEAN, pieces : UNION {[1..k -> Pieces] : k \in 0..n}] :
     f.array => \A p \in DOMAIN f.pieces : f.pieces[p] # "blank"}

Kind(file, p) == Parsed(file.array, file.pieces[p])
Places(file) == DOMAIN file.pieces
IsRow(file, p) == p \in Places(file) /\ Kind(file, p) \in {"PromptItem", "RowError"}

(* Row q is the one that comes after place p.                              *)
Follows(file, p, q) ==
  /\ q > p /\ IsRow(file, q)
  /\ \A m \in Places(file) : p < m /\ m < q => Kind(file, m) = "nothing"

(* Nothing is left behind place p.                                         *)
NoMore(file, p) == \A m \in Places(file) : m > p => Kind(file, m) = "nothing"

(* The parse of the file fails somewhere behind place p.                   *)
BreaksAfter(file, p) == \E m \in Places(file) : m > p /\ Kind(file, m) = "raises"
=============================================================================
