------------------------------ MODULE MCViews -------------------------------
(* A file of up to three bytes, and ranges that begin and end in it, at its *)
(* ends and beyond, one around the other.                                  *)
EXTENDS Views

MCRangeOffs == {-1, 0, 1, 2}
MCOffsets == {-1, 0, 1, 3}
=============================================================================
