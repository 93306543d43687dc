---------------------------- MODULE MCResponder ----------------------------
(* Instances of Responder for TLC. *)
EXTENDS Responder

MCNames    == {"", "*", "app", "text", "html", "json", "xml", "octet", "plain", "x+json"}
MCVendored == {"x+json"}

UTF8(type, sub) == [MediaTypeFromString(type, sub) EXCEPT !.params = 1]

MCFormatMedia ==
    [f \in {"html", "json", "xml", "bytes", "text"} |->
        CASE f = "html"  -> UTF8("text", "html")
          [] f = "json"  -> UTF8("app", "json")
          [] f = "xml"   -> UTF8("text", "xml")
          [] f = "bytes" -> MediaTypeFromString("app", "octet")
          [] f = "text"  -> UTF8("text", "plain")]

\* None, one, two new types, and one that collides with a format.
MCCustoms ==
    {<<>>,
     <<MediaTypeFromString("app", "x+json")>>,
     <<MediaTypeFromString("app", "json")>>,
     <<MediaTypeFromString("app", "x+json"), MediaTypeFromString("app", "json")>>}

MCAcceptedRanges ==
    {ParsedRange("text", "*", <<>>, 0), ParsedRange("text", "xml", <<2>>, 0),
     ParsedRange("app", "json", <<>>, 1), ParsedRange("app", "x+json", <<>>, 0),
     ParsedRange("*", "*", <<1>>, 0)}

MCAccepts ==
    [kind : {"blank", "malformed"}, medias : {<<>>}]
    \cup [kind : {"ranges"}, medias : UNION {[1 .. n -> MCAcceptedRanges] : n \in 1 .. 2}]
=============================================================================
