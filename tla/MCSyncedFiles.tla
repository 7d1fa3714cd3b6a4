--------------------------- MODULE MCSyncedFiles ---------------------------
(* One gateway scans a file over the backend's limit and a smaller one.     *)
EXTENDS SyncedFiles

CONSTANTS k1, k2, big, page

ScannedContents == (k1 :> big) @@ (k2 :> page)
=============================================================================
