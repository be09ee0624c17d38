---------------------------- MODULE MCSimDialog ----------------------------
(***************************************************************************)
(* Small instances of SimDialog: two windows, a schematic with an          *)
(* optimisation and a VHDL text.  A window is used once and a document is  *)
(* changed at most MaxEdits times; nothing else needs a bound.             *)
(***************************************************************************)
EXTENDS SimDialog

CONSTANTS s1, s2, d1, d2, nosim

MCWindows == {s1, s2}
MCDocs == {d1, d2}
MCTextDoc == {d2}
MCOptDoc == {d1}
MCUnnoticed == {"start", "directory", "copy"}
MCCrash == {"crash"}
============================================================================
