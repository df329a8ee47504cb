------------------------------- MODULE MCAta -------------------------------
(* Ata.tla with address registers of one bit: 16 sectors, of which the     *)
(* file system uses two that differ in the third register only.            *)
EXTENDS Ata
=============================================================================
