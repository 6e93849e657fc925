---------------------------- MODULE MCLuaBindings ----------------------------
(* One VM: three paths of which one is a spooled upload, one image, two     *)
(* statements, a deadline of three ticks; base 3 and words below 8 stand    *)
(* for base 62 and 64 bits, so that the largest two-digit number overflows. *)
EXTENDS LuaBindings

MCPaths   == {"x.jp2", "y.jpg", "upload"}
MCUploads == <<"upload">>
MCExt     == [p \in MCPaths |-> CASE p = "x.jp2" -> "jp2" [] p = "y.jpg" -> "jpg" [] OTHER -> "none"]
MCArgs    == {<<>>, <<"str">>, <<"table">>, <<"num", "str">>, <<"str", "str">>, <<"int", "str">>,
              <<"str", "int">>, <<"str", "table">>, <<"str", "str", "table">>, <<"str", "str", "int">>}

\* Tables of up to three fields, nested once.
MCScalars == {Scalar(t) : t \in {"int", "whole", "frac", "string", "bool", "function"}}
MCInner   == {Table(<<>>)} \cup {Table([k \in K |-> Scalar("int")]) :
                K \in {{Index(1)}, {Index(1), Index(2)}, {<<"s", "k">>}, {<<"s", "k">>, Index(1)}}}
MCSamples ==
    UNION {{Table(f) : f \in [K -> MCScalars \cup MCInner]} :
             K \in {{Index(0), Index(1)}, {<<"s", "k">>, <<"s", "l">>}, {<<"s", "k">>, Index(1)},
                    {<<"o", "true">>}}} \cup {Table(<<>>)}
MCHttpTimeouts == {-1, 1, 9}
MCValues == MCScalars \cup MCInner \cup MCSamples
=============================================================================
