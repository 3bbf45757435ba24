--------------------------- MODULE MCDocumentUpload ---------------------------
(* A small instance of DocumentUpload for TLC: two uploads in one process and  *)
(* one in another.                                                             *)
EXTENDS DocumentUpload

CONSTANT u3

TwoProcesses == {"p1", "p2"}
Placement    == [u \in Uploads |-> IF u = u3 THEN "p2" ELSE "p1"]
=============================================================================
