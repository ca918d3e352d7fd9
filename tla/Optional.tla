------------------------------ MODULE Optional ------------------------------
(* The one value that stands for what is absent: an absent member of a      *)
(* request or a file, an address that is none, a result that is not there   *)
(* yet.                                                                     *)
CONSTANT None
=============================================================================
