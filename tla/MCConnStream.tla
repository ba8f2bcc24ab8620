---- MODULE MCConnStream ----
(* Three messages: the first with a newline where a short opening line     *)
(* ends, the second without a body.  rbuf starts at eight bytes, a message *)
(* has up to ten.                                                          *)
EXTENDS ConnStream

MCBodies ==
  LET x == Sym("byte", 1) IN << <<x, x, NL>>, <<>>, <<x>> >>
MCGarbage == {NUL}
=============================================================================
