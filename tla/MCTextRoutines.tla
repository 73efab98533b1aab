--------------------------- MODULE MCTextRoutines ---------------------------
(***************************************************************************)
(* Small alphabets for TextRoutines, one for each routine, with every      *)
(* string up to a length at which all its special cases occur.             *)
(***************************************************************************)
EXTENDS TextRoutines

SmallPlain == {"x", "2"}
SmallHex   == {"2", "5"}
SmallAlpha == {"a"}
SmallDigit == {"1"}

Strings(chars, n) == BoundedSeq({<<c>> : c \in chars}, n)

\* An address, with and without what a host name could go on with.
LongHosts == {<< <<"1">>, <<".">>, <<"1">>, <<".">>, <<"1">>, <<".">>, <<"1">> >> \o t :
                 t \in Strings({"a", "1", ".", "-", ":"}, 3)}

SmallInputs ==
    [r \in Routines |->
        CASE r = "urldecode"            -> BoundedSeq(Units, MaxUnits)
          [] r = "escape_html_specials" -> Strings({"<", ">", "&", "x"}, 4)
          [] r = "escape_quotes"        -> Strings({Quote, Backslash, "x"}, 5)
          [] r = "get_content_type"     -> Strings({"/", ".", "a", "r", "t", "T"}, 6)
          [] r = "parse_host_header"    -> Strings({"a", "1", "-", ".", ":"}, 7) \cup LongHosts
          [] r = "parse_request_line"   -> Strings({"http://", "a", "1", "-", ".", "/", "?", ":"}, 5)
          [] r = "parse_header"         -> Strings({"a", ":", "SP", "CR", "LF"}, 7)]

=============================================================================
