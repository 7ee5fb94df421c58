----------------------------- MODULE MCDownload -----------------------------
(* Three bodies of one URL: two of one length, and a shorter one.          *)
EXTENDS Download

MCLength == [v \in Versions |-> IF v = "c" THEN 2 ELSE 3]
=============================================================================
