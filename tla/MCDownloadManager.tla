-------------------------- MODULE MCDownloadManager --------------------------
(* Three downloads with two priorities, of which one or two may transfer.  *)
EXTENDS DownloadManager

CONSTANTS f1, f2, f3

MCId       == {f1, f2, f3}
MCPriority == {0, 4}
=============================================================================
