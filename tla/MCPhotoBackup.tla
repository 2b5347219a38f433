---------------------------- MODULE MCPhotoBackup ----------------------------
(* TLC instances of PhotoBackup.                                             *)
EXTENDS PhotoBackup
=============================================================================
