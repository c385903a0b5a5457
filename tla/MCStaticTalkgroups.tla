--------------------------- MODULE MCStaticTalkgroups ---------------------------
(******************************************************************************)
(* Rows of the master with every form of its fields, and rows with one or two *)
(* hotspots and every form of their options.                                  *)
(******************************************************************************)
EXTENDS StaticTalkgroups

CONSTANTS a, b

missing == [is |-> "missing", of |-> <<>>]
null == [is |-> "none", of |-> <<>>]
text(pieces) == [is |-> "text", of |-> <<pieces>>]
list(texts) == [is |-> "list", of |-> texts]

mcTalkgroups == {a, b}

\* "", "a,,b", ["b", "a"], ["", "a"], ["a,b"].
fields ==
    {missing, null, text(EmptyText), text(<<a, Blank, b>>), list(<<<<b>>, <<a>>>>),
     list(<<EmptyText, <<a>>>>), list(<<<<a, b>>>>)}

set(key, value) == [key |-> key, text |-> value]

optionForms ==
    {<<>>,
     <<set("TS1", <<a, b>>)>>,
     <<set("TS1", <<a>>), set("TS1_STATIC", EmptyText)>>,
     <<set("TS1_STATIC", <<a, a>>), set("TS1", <<b>>)>>,
     <<set("TS1_STATIC", <<a>>), set("TS1_STATIC", <<b>>)>>,
     <<set("TS1_1", <<b>>), set("TS1_STATIC", <<a>>)>>,
     <<set("TS1_1", EmptyText), set("TS1_9", <<a, b>>)>>,
     <<set("TS1_2", <<a>>)>>}

hotspot(field, upper, options) ==
    [ts1_static |-> field, TS1_STATIC |-> upper, options |-> options]

crews ==
    {<<>>} \cup {<<hotspot(missing, missing, options)>> : options \in optionForms}
          \cup {<<hotspot(list(<<<<b>>>>), missing, <<>>), hotspot(missing, text(<<a>>), options)>> :
                    options \in {<<set("TS1", <<b>>)>>, <<set("TS1_1", <<a, b>>)>>}}

mcRows ==
    {[ts1_static |-> field, TS1_STATIC |-> upper, hotspots |-> <<>>] :
        field \in fields, upper \in {missing, text(<<b>>)}}
    \cup {[ts1_static |-> field, TS1_STATIC |-> missing, hotspots |-> crew] :
        field \in {missing, list(<<EmptyText, <<a>>>>)}, crew \in crews}
===============================================================================
