---------------------------- MODULE MCLogManager -----------------------------
(* Records of one or two bytes in buffers of three: a record fills the     *)
(* buffer exactly, leaves a byte, or does not fit.  The name in the header *)
(* page reads as an LSN that no record gets.                               *)
EXTENDS LogManager

MCRecordSize == 1..2
MCNameLsn == {MaxRecords + 1}
=============================================================================
