---------------------------- MODULE MCLineServer ----------------------------
(* Values for LineServer: one letter, so that a line is three bytes.  Its second *)
(* newline, when it is read alone, is an empty line.                             *)
EXTENDS LineServer

MCLines == {<<"a">>}
=============================================================================
