------------------------------- MODULE Screen -------------------------------
(***************************************************************************)
(* The content model: a screen of programs of areas of items, how it is    *)
(* built and what AddProgram carries of it.                                *)
(* crates/huidu/src/screen/{mod,config}.rs.                                *)
(*                                                                         *)
(* A screen is the sequence of its programs.  A colour is what to_hex      *)
(* makes of it; an enum is the name of its variant.                        *)
(***************************************************************************)
EXTENDS Messages

CONSTANTS Indices  \* bound: the indices that nodes have among their siblings

Colors == [RED |-> "#ff0000", GREEN |-> "#00ff00", BLUE |-> "#0000ff", WHITE |-> "#ffffff",
           BLACK |-> "#000000", YELLOW |-> "#ffff00", CYAN |-> "#00ffff", MAGENTA |-> "#ff00ff"]

\* Effect::code and Effect::is_continuous_scroll.
EffectCode == [Immediate |-> 0, MoveLeft |-> 1, MoveRight |-> 2, MoveUp |-> 3, MoveDown |-> 4,
               LeftScrollLoop |-> 5, RightScrollLoop |-> 6, UpScrollLoop |-> 7,
               DownScrollLoop |-> 8, FadeIn |-> 9, FadeOut |-> 10, Flicker |-> 11]
ContinuousScroll == {"LeftScrollLoop", "RightScrollLoop", "UpScrollLoop", "DownScrollLoop"}

HAligns == [Left |-> "left", Center |-> "center", Right |-> "right"]
VAligns == [Top |-> "top", Middle |-> "middle", Bottom |-> "bottom"]

\* TextConfig::default.
TextConfig == [color |-> Colors.WHITE, font_name |-> "Arial", font_size |-> 12,
               bold |-> FALSE, italic |-> FALSE, underline |-> FALSE,
               effect |-> "Immediate", out_effect |-> "Immediate", speed |-> 4, hold_secs |-> 3,
               h_align |-> "Center", v_align |-> "Middle"]

TimeFormatCode == [Hour24 |-> 0, Hour12 |-> 1]

\* ClockConfig::default.
ClockConfig == [show_time |-> TRUE, show_date |-> FALSE, show_week |-> FALSE,
                time_color |-> Colors.WHITE, date_color |-> Colors.WHITE,
                week_color |-> Colors.WHITE, time_format |-> "Hour24", multi_line |-> FALSE]

-----------------------------------------------------------------------------
(* Building the tree.                                                      *)

NewScreen == <<>>
PushProgram(screen, program) == Append(screen, program)

\* PlayControl.
Count(n)     == [by |-> "count", n |-> n]
Duration(ms) == [by |-> "duration", n |-> ms]

NewProgram(name) == [name |-> name, play |-> Count(1), areas |-> <<>>]
WithDurationSecs(program, secs) == [program EXCEPT !.play = Duration(1000 * secs)]
WithPlayCount(program, count)   == [program EXCEPT !.play = Count(count)]
PushArea(program, area)         == [program EXCEPT !.areas = Append(@, area)]

NewArea(x, y, width, height) ==
  [x |-> x, y |-> y, width |-> width, height |-> height, items |-> <<>>]
FullScreen(width, height) == NewArea(0, 0, width, height)
AddText(area, text, config) ==
  [area EXCEPT !.items = Append(@, [is |-> "text", text |-> text, config |-> config])]
AddClock(area, config) == [area EXCEPT !.items = Append(@, [is |-> "clock", config |-> config])]

\* The types: a list of every kind of child, and a hold time in a u32.
Siblings(nodes) == IsList(nodes) /\ \A i \in DOMAIN nodes : i - 1 \in Indices
IsScreen(screen) ==
  /\ Siblings(screen)
  /\ \A program \in ToSet(screen) :
        /\ Siblings(program.areas)
        /\ \A area \in ToSet(program.areas) :
              /\ Siblings(area.items)
              /\ \A item \in ToSet(area.items) :
                    item.is = "text" => item.config.hold_secs \in Values("u32")

ASSUME ScreenAssumption == 0 \in Indices /\ TextConfig.hold_secs \in Values("u32")

-----------------------------------------------------------------------------
(* to_program_xml.                                                         *)

\* A guid tells where in the tree its node is: text-0-1-2.
Guid(kind, path) == FoldLeft(LAMBDA guid, n : guid \o "-" \o ToString(n), kind, path)

\* No two places are written alike, where every index is a number in digits.
Places == {<<i>> : i \in Indices} \cup {<<i, j>> : i, j \in Indices}
            \cup {<<i, j, k>> : i, j, k \in Indices}
ASSUME GuidAssumption ==
  \A kind, other \in {"program", "area", "text", "clock"} : \A path, way \in Places :
     Guid(kind, path) = Guid(other, way) => kind = other /\ path = way

\* The children of a node, each told its index.
Children(nodes, Xml(_, _)) == FlattenSeq([i \in DOMAIN nodes |-> Xml(nodes[i], i - 1)])

\* hold_secs * 10 in a u32, which wraps in a release build.
HoldDs(secs) == (secs * 10) % U32

\* ... and panics in any other.
Overflows(screen) ==
  \E p \in ToSet(screen) : \E a \in ToSet(p.areas) : \E item \in ToSet(a.items) :
     item.is = "text" /\ item.config.hold_secs * 10 >= U32

WriteText(item, path) ==
  LET c == item.config IN
  <<Open("text", [guid |-> Guid("text", path),
                  singleLine |-> BoolStr(c.effect \in ContinuousScroll)]),
    Empty("style", [align |-> HAligns[c.h_align], valign |-> VAligns[c.v_align]]),
    Open("string", <<>>), Text(item.text), Close("string"),
    Empty("font", [name |-> c.font_name, size |-> ToString(c.font_size), color |-> c.color,
                   bold |-> BoolStr(c.bold), italic |-> BoolStr(c.italic),
                   underline |-> BoolStr(c.underline)]),
    Empty("effect", [in |-> ToString(EffectCode[c.effect]), inSpeed |-> ToString(c.speed),
                     out |-> ToString(EffectCode[c.out_effect]), outSpeed |-> ToString(c.speed),
                     duration |-> ToString(HoldDs(c.hold_secs))]),
    Close("text")>>

WriteClock(item, path) ==
  LET c == item.config IN
  <<Open("clock", [guid |-> Guid("clock", path), type |-> "0",
                   multiLine |-> BoolStr(c.multi_line)]),
    Empty("time", [display |-> BoolStr(c.show_time), color |-> c.time_color,
                   format |-> ToString(TimeFormatCode[c.time_format])]),
    Empty("date", [display |-> BoolStr(c.show_date), color |-> c.date_color]),
    Empty("week", [display |-> BoolStr(c.show_week), color |-> c.week_color]),
    Close("clock")>>

WriteItem(item, path) == IF item.is = "text" THEN WriteText(item, path) ELSE WriteClock(item, path)

WriteArea(area, path) ==
  <<Open("area", [guid |-> Guid("area", path), alpha |-> "255"]),
    Empty("rectangle", [x |-> ToString(area.x), y |-> ToString(area.y),
                        width |-> ToString(area.width), height |-> ToString(area.height)]),
    Open("resources", <<>>)>>
  \o Children(area.items, LAMBDA item, i : WriteItem(item, Append(path, i)))
  \o <<Close("resources"), Close("area")>>

\* Deciseconds, from milliseconds.
PlayControl(play) == Empty("playControl",
                           IF play.by = "count" THEN [count |-> ToString(play.n)]
                           ELSE [duration |-> ToString(play.n \div 100)])

WriteProgram(program, i) ==
  <<Open("program", [type |-> "normal", id |-> ToString(i), guid |-> Guid("program", <<i>>),
                     name |-> program.name]),
    PlayControl(program.play)>>
  \o Children(program.areas, LAMBDA area, j : WriteArea(area, <<i, j>>))
  \o <<Close("program")>>

ToProgramXml(screen) ==
  <<Open("screen", <<>>)>> \o Children(screen, WriteProgram) \o <<Close("screen")>>
=============================================================================
