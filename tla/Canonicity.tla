----------------------------- MODULE Canonicity -----------------------------
(***************************************************************************)
(* Canonicity, what decoding says of the bytes, and the minimum a context  *)
(* restricts it to (enum Canonicity and RestrictedDecodeContext of         *)
(* src/encoding/mod.rs).                                                   *)
(***************************************************************************)
EXTENDS Integers

(* Relaxed is the minimum that relaxed decoding does not have.             *)
Relaxed == 0
NotCanonical == 1
HasExtensions == 2
Canonical == 3

(* The error of RestrictedDecodeContext::check, if that canonicity is too  *)
(* low.                                                                    *)
CheckError(canon, min) ==
  IF canon >= min THEN "none"
  ELSE IF canon = NotCanonical THEN "NotCanonical" ELSE "UnknownField"

Lower(a, b) == IF a <= b THEN a ELSE b
=============================================================================
