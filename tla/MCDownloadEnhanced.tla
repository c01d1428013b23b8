------------------------- MODULE MCDownloadEnhanced -------------------------
(* DownloadEnhanced with two packages that have a checksum and one without. *)
EXTENDS DownloadEnhanced

MCModes    == Mode
===============================================================================
