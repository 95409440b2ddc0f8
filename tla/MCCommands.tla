----------------------------- MODULE MCCommands -----------------------------
(* TLC instance of Commands: for every message bodies that say everything,  *)
(* little, too much, or what cannot be read, and screens of every shape.    *)
EXTENDS Commands

MCSamples ==
  [logo |-> {[exists |-> TRUE, name |-> "boot.png", md5 |-> "m1"]},
   luminance |-> {[Default(Luminance.rows) EXCEPT !.items =
                     <<[enabled |-> TRUE, start |-> "08:00:00", percent |-> 80],
                       [enabled |-> FALSE, start |-> "22:00:00", percent |-> 5]>>]},
   ethernet |-> {[enabled |-> TRUE, auto_dhcp |-> FALSE, ip |-> "ip", netmask |-> "mask",
                  gateway |-> "gw", dns |-> "dns"]},
   wifi |-> {[has_wifi |-> TRUE, enabled |-> FALSE, mode |-> "Station", ssid |-> "net",
              password |-> "secret", channel |-> "6", encryption |-> "wpa2"]},
   server |-> {[host |-> "host", port |-> 80]},
   switch |-> {[open_enabled |-> TRUE, ploy_enabled |-> TRUE, items |->
                  <<[enabled |-> FALSE, start |-> "23:00:00", end |-> "06:00:00"]>>]},
   time |-> {[timezone |-> "UTC", summer |-> TRUE, sync |-> "none", time |-> "noon"]},
   files |-> {<<"a.png">>, <<"a.png", "b.png">>}]

MCBodies ==
  [logo |-> {<<Empty("logo", [exist |-> "TRUE", name |-> "old.png"])>>},
   files |-> {<<Open("files", <<>>), Empty("file", [name |-> "a.png", size |-> "80"]),
                Empty("file", [name |-> "b.png", size |-> "lots", existSize |-> "-5"]),
                Empty("file", [md5 |-> "m2"]), Close("files")>>},
   luminance |-> {<<Empty("default", [value |-> "0300"]), Empty("sensor", [min |-> "5"]),
                    Empty("item", [enable |-> "True"]), Empty("mode", [value |-> "sensor"])>>},
   ethernet |-> {<<Empty("enable", [value |-> "True"]), Empty("dhcp", [auto |-> "yes"]),
                   Empty("address", [ip |-> "old"])>>,
                 <<Empty("address", [ip |-> Unreadable])>>},
   wifi |-> {<<Empty("wifi", [valid |-> "true"]), Empty("mode", [value |-> "STATION"]),
               Empty("ssid", [value |-> "old"]), Empty("ssid", [value |-> "older"])>>},
   server |-> {<<Empty("server", [host |-> "old", port |-> "65536"])>>},
   switch |-> {<<Empty("item", [end |-> "06:00:00"])>>},
   time |-> {<<Empty("time", [value |-> "midnight"]), Empty("summer", [enable |-> "TRUE"])>>},
   device |-> {<<Empty("device", [id |-> "d1"]), Empty("screen", [width |-> "80", height |-> "-5"])>>,
               <<Empty("screen", [width |-> " +80 ", height |-> "0300"])>>},
   program |-> {<<>>}]

MCSpellings == {<<" +80 ", 80>>, <<"0300", 300>>}
MCNumbers == {-5, 0, 1, 5, 10, 42, 80, 100, 300, 10001, 65536}

\* Together where a reply could be mistaken, alone where one topic says enough.
MCFocuses == {{"ethernet", "wifi"}, {"server", "device"}, {"time", "switch"},
              {"luminance"}, {"logo"}, {"files"}, {"program"}}

Hold(secs) == [TextConfig EXCEPT !.hold_secs = secs, !.effect = "LeftScrollLoop"]
MCScreens ==
  {NewScreen,
   PushProgram(
     PushProgram(NewScreen,
       PushArea(PushArea(WithDurationSecs(NewProgram("first"), 5),
                         AddText(AddClock(NewArea(0, 0, 5, 6), ClockConfig), "one", Hold(6))),
                AddText(AddText(NewArea(5, 0, 6, 6), "two", TextConfig), "three", TextConfig))),
     PushArea(WithPlayCount(NewProgram("second"), 2), AddText(FullScreen(5, 5), "four", TextConfig))),
   PushProgram(NewScreen, PushArea(NewProgram("long"), AddText(FullScreen(5, 5), "five", Hold(100))))}

MCPanel == [screen_width |-> 80, screen_height |-> 5]

Symmetry == Permutations(Callers)
=============================================================================
