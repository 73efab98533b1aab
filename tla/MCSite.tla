------------------------------- MODULE MCSite -------------------------------
(***************************************************************************)
(* Two virtual hosts, one of them spelled in two ways, for Site.           *)
(***************************************************************************)
EXTENDS Site

SmallNames == {"a", "A", "b"}
SmallLower == [n \in SmallNames |-> IF n = "A" THEN "a" ELSE n]

\* http://host, http://host/, http://host/name and http://host/name/
SmallPaths == {<<>>, <<"/">>, <<"/", "name">>, <<"/", "name", "/">>}

=============================================================================
