---------------------------- MODULE MCSingleDownload ----------------------------
(* Answers for TLC: those of MCWorker. *)
EXTENDS SingleDownload, MCWorker

=============================================================================
