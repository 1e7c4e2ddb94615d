--------------------------- MODULE MCUploadManager ---------------------------
(* One place and no queue, which makes two places: a peer each.            *)
EXTENDS UploadManager

MCUploader == 1 .. 2
=============================================================================
