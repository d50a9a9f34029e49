------------------------------- MODULE Absent -------------------------------
(* The value of an optional field, map entry or pointer that holds nothing: *)
(* Go's nil, a missing key, an empty file.                                  *)
CONSTANT None
=============================================================================
