----------------------------- MODULE MCStrings -----------------------------
(* Strings on inputs of up to five bytes over two ordinary bytes, a space *)
(* and a newline.                                                          *)
EXTENDS Strings

CONSTANTS a, b, sp, lf

MCBytes == {a, b, sp, lf}
MCAsciiWhitespace == {sp, lf}
====
