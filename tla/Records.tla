------------------------------ MODULE Records ------------------------------
(* The records of a sequence, wherever a log keeps one. *)
RecordsIn(s) == {s[i] : i \in DOMAIN s}
=============================================================================
