---------------------------- MODULE MCUrlDecode ----------------------------
(***************************************************************************)
(* A small alphabet for UrlDecode: a letter, and two digits of which one   *)
(* is also used outside of escapes; %25 is the percent sign.               *)
(***************************************************************************)
EXTENDS UrlDecode

SmallPlain == {"x", "2"}
SmallHex   == {"2", "5"}

=============================================================================
