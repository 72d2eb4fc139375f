---------------------------- MODULE MCServiceStart ----------------------------
(***************************************************************************)
(* Two URLs, so that a list has a first, a last and an only entry, and two *)
(* pp commands at a time.  The limit of the download is 1; an archive, or  *)
(* the binary in it, may be longer.                                        *)
(***************************************************************************)
EXTENDS ServiceStart

MCSizes == {1, 2}
=============================================================================
