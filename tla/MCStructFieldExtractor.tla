----------------------- MODULE MCStructFieldExtractor -----------------------
(***************************************************************************)
(* Two struct types of two and three members, two of which share an index, *)
(* and elements with attributes that are missing, doubled or share one.    *)
(***************************************************************************)
EXTENDS StructFieldExtractor

MCTexts == {"", "type", "name", "value", "kind", "far", "Image", "Extent",
            "Gone", "uint", "bool", "flags", "layout", "width", "7", "1",
            "&id:1"}

\* "kind" shares the index of "value"; "width" that of "flags"; "far" has the
\* index past the end.
MCAttrIndex ==
    [text \in MCTexts |->
        CASE text \in {"type", "layout"}           -> 0
          [] text \in {"name", "flags", "width"}   -> 1
          [] text \in {"value", "kind", "1"}       -> 2
          [] text = "far"                          -> 4
          [] OTHER                                 -> 3]

\* The smaller factor moves one text.
MCFieldIndex == [MCAttrIndex EXCEPT !["Gone"] = 0]

MCMembersOf == [type \in {"Image", "Extent"} |->
                    IF type = "Image" THEN <<"flags", "layout", "width">>
                                      ELSE <<"width", "1">>]

Struct(type) == <<"struct", <<<<"type", type>>>>>>
Field(type, name, value) ==
    <<"field", <<<<"type", type>>, <<"name", name>>, <<"value", value>>>>>>

MCElements ==
    {Struct("Image"), Struct("Extent"), Struct("Gone"),
     <<"field", <<<<"name", "flags">>, <<"value", "7">>>>>>,
     <<"field", <<<<"type", "uint">>, <<"value", "1">>>>>>,
     <<"field", <<<<"type", "uint">>, <<"name", "layout">>>>>>,
     <<"field", <<<<"type", "bool">>, <<"name", "layout">>, <<"value", "1">>,
                  <<"kind", "7">>>>>>,
     <<"field", <<<<"far", "1">>>>>>,
     Field("uint", "far", "7")}
    \cup {Field("uint", name, value) :
            name \in {"flags", "layout", "width", "1", "Gone"}, value \in {"7", "1"}}
    \cup {Field("bool", "layout", "Gone"), Field("Gone", "layout", "1"),
          Field("uint", "layout", "&id:1")}
=============================================================================
