---------------------------- MODULE StaticTalkgroups ----------------------------
(******************************************************************************)
(* The static talkgroups that CONFIG shows for one master, on one of its two  *)
(* slots: how they are read from the rows of the documents, in which order    *)
(* they are merged, and how they change from document to document.            *)
(*                                                                            *)
(* A text is its pieces between commas, a piece being a talkgroup or Blank;   *)
(* the empty text is <<Blank>>.  A field of a row is missing, null (or a      *)
(* Boolean), a text, or a list of texts.  The options of a hotspot are the    *)
(* assignments that its string holds between semicolons, in their order.      *)
(* V2ToV1Mapper has the rest of the CONFIG: which masters there are.          *)
(******************************************************************************)
EXTENDS Naturals, Sequences, Functions

CONSTANTS
    Talkgroups,
    Blank,          \* nothing between two commas
    Rows,           \* rows of the master: [ts1_static, TS1_STATIC, hotspots]
    Unseen,         \* no such document yet
    Omitted,        \* the document has no row of the master
    Absent          \* CONFIG has no row of the master

Pieces == Talkgroups \cup {Blank}
Texts == Seq(Pieces) \ {<<>>}

\* A missing and a null field hold no text, a text one, a list any number.
Field ==
    {field \in [is : {"missing", "none", "text", "list"}, of : Seq(Texts)] :
        /\ field.is \in {"missing", "none"} => field.of = <<>>
        /\ field.is = "text" => Len(field.of) = 1}

Option == [key : STRING, text : Texts]
Hotspot == [ts1_static : Field, TS1_STATIC : Field, options : Seq(Option)]
Row == [ts1_static : Field, TS1_STATIC : Field, hotspots : Seq(Hotspot)]

ASSUME RowTypes == Rows \subseteq Row
ASSUME BlankIsNoTalkgroup == Blank \notin Talkgroups
ASSUME NoRow == Unseen \notin Rows \cup {Omitted} /\ Omitted \notin Rows
ASSUME NoValue == Absent \notin Seq(Pieces)

VARIABLES
    topology,       \* the master's row in the cached topology
    dashboard,      \* the master's row in the last dashboard document
    known,          \* the master is in known_masters
    shown           \* TS1_STATIC of the master in last_config, <<>> being False

vars == <<topology, dashboard, known, shown>>

-----------------------------------------------------------------------------
(* Reading fields. *)

EmptyText == <<Blank>>

\* list.append(item), unless the item is unwanted.
Kept(list, item, unwanted) == IF item \in unwanted THEN list ELSE Append(list, item)

\* The items of a list other than one.
Without(list, item) ==
    LET kept[i \in 0..Len(list)] ==
            IF i = 0 THEN <<>> ELSE Kept(kept[i - 1], list[i], {item})
    IN  kept[Len(list)]

\* text.split(",") without the empty parts.
Split(text) == Without(text, Blank)

\* The same as a list of texts.
SplitTexts(text) == [i \in 1..Len(Split(text)) |-> <<Split(text)[i]>>]

NonEmpty(texts) == Without(texts, EmptyText)

\* _static_tg_list: a text is split, the texts of a list are not.
StaticTgList(field) ==
    IF field.is = "text" THEN SplitTexts(field.of[1]) ELSE NonEmpty(field.of)

\* dict: the last assignment to a key counts.
Parsed(options) ==
    [key \in {options[i].key : i \in DOMAIN options} |->
        options[CHOOSE i \in DOMAIN options :
                    /\ options[i].key = key
                    /\ \A j \in DOMAIN options : options[j].key = key => j <= i].text]

Numbered == <<"TS1_1", "TS1_2", "TS1_3", "TS1_4", "TS1_5", "TS1_6", "TS1_7", "TS1_8", "TS1_9">>

\* Mutant: TS1_STATIC hides the numbered keys, not they it.
OptionTextsStaticFirst(options) ==
    LET parsed == Parsed(options)
    IN  IF "TS1_STATIC" \in DOMAIN parsed THEN SplitTexts(parsed["TS1_STATIC"])
        ELSE NonEmpty([i \in 1..9 |-> IF Numbered[i] \in DOMAIN parsed
                                      THEN parsed[Numbered[i]] ELSE EmptyText])

\* _parse_options_static_tgs.  TS1 stands in for a missing TS1_STATIC.  With a
\* TS1_1, even an empty one, the numbered keys count instead; their texts are not
\* split.
OptionTexts(options) ==
    LET parsed == Parsed(options)
        keys == DOMAIN parsed
        static == IF "TS1_STATIC" \in keys THEN parsed["TS1_STATIC"]
                  ELSE IF "TS1" \in keys THEN parsed["TS1"] ELSE EmptyText
        numbered == [i \in 1..9 |-> IF Numbered[i] \in keys THEN parsed[Numbered[i]]
                                    ELSE EmptyText]
    IN  IF "TS1_1" \in keys THEN <<numbered[1]>> \o NonEmpty(SubSeq(numbered, 2, 9))
        ELSE SplitTexts(static)

\* What one hotspot adds to the list of its master.
HotspotTexts(hotspot) ==
    StaticTgList(hotspot.ts1_static) \o StaticTgList(hotspot.TS1_STATIC)
        \o OptionTexts(hotspot.options)

-----------------------------------------------------------------------------
(* Merging. *)

\* Mutant: nothing is taken out.
AllTexts(texts) == texts

\* _merge_static_tg_lists keeps the first of equal texts.
FirstOccurrences(texts) ==
    LET merged[i \in 0..Len(texts)] ==
            IF i = 0 THEN <<>> ELSE Kept(merged[i - 1], texts[i], Range(merged[i - 1]))
    IN  merged[Len(texts)]

\* ",".join on texts; extend on lists of texts.
Joined(lists) ==
    LET joined[i \in 0..Len(lists)] == IF i = 0 THEN <<>> ELSE joined[i - 1] \o lists[i]
    IN  joined[Len(lists)]

\* _apply_legacy_master_static_tgs: the row's own fields, then its hotspots; and
\* ",".join, which is False for an empty list.
MasterValue(row) ==
    LET hotspots == Joined([i \in 1..Len(row.hotspots) |-> HotspotTexts(row.hotspots[i])])
    IN  Joined(FirstOccurrences(
            StaticTgList(row.ts1_static) \o StaticTgList(row.TS1_STATIC) \o NonEmpty(hotspots)))

-----------------------------------------------------------------------------
(* Documents. *)

\* Mutant: the cached topology does not count.
RowOnly(row) == row

\* dashboard_state_to_config: ts1_static of the cached topology, if its row has the
\* field at all, replaces that of the dashboard row.
WithTopologyField(row) ==
    IF topology \notin {Unseen, Omitted} /\ topology.ts1_static.is # "missing"
    THEN [row EXCEPT !.ts1_static = topology.ts1_static]
    ELSE row

\* _ensure_known_master_shells.
Shell(isKnown) == IF isKnown THEN <<>> ELSE Absent

\* Mutant: an omitted master is shown as it was, whatever the topology says.
FromDashboardKeeping(row, isKnown) ==
    IF row # Omitted THEN MasterValue(WithTopologyField(row))
    ELSE IF shown # Absent THEN shown ELSE Shell(isKnown)

\* The CONFIG of a dashboard document: its row; without one, that of the cached
\* topology, or, when none is cached, the row of the last CONFIG.
FromDashboard(row, isKnown) ==
    IF row # Omitted THEN MasterValue(WithTopologyField(row))
    ELSE IF topology \notin {Unseen, Omitted} THEN MasterValue(topology)
    ELSE IF topology = Unseen /\ shown # Absent THEN shown
    ELSE Shell(isKnown)

StateSnd(row) ==
    /\ dashboard' = row
    /\ shown' = FromDashboard(row, known)
    /\ known' = (known \/ shown' # Absent)
    /\ UNCHANGED topology

\* Mutant: the master of a topology is not noted.
NewTopologyUntracked(row) ==
    /\ topology' = row
    /\ shown' = IF row # Omitted THEN MasterValue(row) ELSE Shell(known)
    /\ UNCHANGED <<dashboard, known>>

\* A topology, received or merged from a delta.
NewTopology(row) ==
    /\ topology' = row
    /\ shown' = IF row # Omitted THEN MasterValue(row) ELSE Shell(known)
    /\ known' = (known \/ shown' # Absent)
    /\ UNCHANGED dashboard

\* A routing table that names the master: the CONFIG of the last dashboard document
\* is built again.
NewRouting ==
    /\ known' = TRUE
    /\ shown' = IF dashboard = Unseen THEN shown ELSE FromDashboard(dashboard, TRUE)
    /\ UNCHANGED <<topology, dashboard>>

Init ==
    /\ topology = Unseen
    /\ dashboard = Unseen
    /\ known = FALSE
    /\ shown = Absent

Next ==
    \/ \E row \in Rows \cup {Omitted} : StateSnd(row)
    \/ \E row \in Rows \cup {Omitted} : NewTopology(row)
    \/ NewRouting

Spec == Init /\ [][Next]_vars

-----------------------------------------------------------------------------
(* Properties. *)

\* The talkgroups of a set of texts.
In(texts) == (UNION {Range(text) : text \in texts}) \ {Blank}

Fields(row) == {row.ts1_static, row.TS1_STATIC}
HotspotFields(row) ==
    UNION {{row.hotspots[i].ts1_static, row.hotspots[i].TS1_STATIC} : i \in DOMAIN row.hotspots}

OwnTexts(row) == UNION {Range(field.of) : field \in Fields(row)}

Uses(options, key) == \E i \in DOMAIN options : options[i].key = key
ValueOf(options, key) ==
    IF Uses(options, key) THEN In({Parsed(options)[key]}) ELSE {}

\* The talkgroups a hotspot asks for in its options: those of the numbered keys if
\* it uses TS1_1, else those of TS1_STATIC or TS1.
AskedFor(options) ==
    IF Uses(options, "TS1_1") THEN UNION {ValueOf(options, key) : key \in Range(Numbered)}
    ELSE ValueOf(options, IF Uses(options, "TS1_STATIC") THEN "TS1_STATIC" ELSE "TS1")

HotspotsAskFor(row) ==
    In(UNION {Range(field.of) : field \in HotspotFields(row)})
        \cup UNION {AskedFor(row.hotspots[i].options) : i \in DOMAIN row.hotspots}

Documents == {topology, dashboard} \ {Unseen, Omitted}

TypeOK ==
    /\ topology \in Rows \cup {Unseen, Omitted}
    /\ dashboard \in Rows \cup {Unseen, Omitted}
    /\ known \in BOOLEAN
    /\ shown = Absent \/ (known /\ shown \in Seq(Pieces))

\* A talkgroup that nobody has any more goes: what is shown is declared by the row
\* of the cached topology or of the last dashboard document.  Only while no topology
\* is cached, a master that the dashboard omits keeps the talkgroups it had, those of
\* hotspots that have left included: its PEERS are cleared, its TS1_STATIC is not.
StaleOnlyWithoutTopology ==
    shown # Absent =>
        \/ topology = Unseen /\ dashboard = Omitted
        \/ In({shown}) \subseteq
               UNION {In(OwnTexts(row)) \cup HotspotsAskFor(row) : row \in Documents}

\* No hotspot's talkgroup is lost: whatever the order, the duplicates and the form in
\* which its row declares them, all are in the CONFIG of a dashboard document, next
\* to those of the master itself unless the cached topology has others for it.
HotspotsAreHeard ==
    [][dashboard' \in Rows /\ StateSnd(dashboard') =>
          HotspotsAskFor(dashboard') \cup In(Range(dashboard'.TS1_STATIC.of))
             \subseteq In({shown'})]_vars

\* A dashboard document in the slim form, without the master's own talkgroups, does
\* not take them away: those of the cached topology are still shown.
SlimStateKeepsTalkgroups ==
    [][dashboard' \in Rows /\ topology \in Rows /\ StateSnd(dashboard') =>
          In(Range(topology.ts1_static.of)) \subseteq In({shown'})]_vars

\* The dashboard, which splits the value at its commas, lists no talkgroup twice,
\* unless a list or a numbered option has a text with a comma in it: such a text is
\* compared and shown as one.
TwiceOnlyByCommas ==
    shown # Absent =>
        \/ \A i, j \in DOMAIN shown : shown[i] = shown[j] /\ shown[i] # Blank => i = j
        \/ topology = Unseen /\ dashboard = Omitted
        \/ \E row \in Documents :
              \/ \E field \in Fields(row) \cup HotspotFields(row) :
                    field.is = "list" /\ \E text \in Range(field.of) : Len(text) > 1
              \/ \E i \in DOMAIN row.hotspots : \E j \in DOMAIN row.hotspots[i].options :
                    LET option == row.hotspots[i].options[j]
                    IN  option.key \in Range(Numbered) /\ Len(option.text) > 1
===============================================================================
