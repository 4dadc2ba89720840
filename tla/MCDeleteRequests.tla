------------------------- MODULE MCDeleteRequests --------------------------
(* DeleteRequests for TLC: two backups and three requests, so that a list   *)
(* runs over requests of both backups and over two of the same backup.      *)
(* The names are 63 and 64 characters long, on both sides of the longest   *)
(* label value.                                                             *)
EXTENDS DeleteRequests

CONSTANTS b1, b2, backupNameKey

MCBackups == {b1, b2}
MCMaxRequests == 3
MCNameLength == [b \in MCBackups |-> IF b = b1 THEN 63 ELSE 64]

=============================================================================
