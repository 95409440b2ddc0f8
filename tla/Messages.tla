------------------------------ MODULE Messages ------------------------------
(***************************************************************************)
(* The bodies of SDK messages: what each says, how it is written and what  *)
(* is read out of it.  crates/huidu-proto/src/sdk/messages/*.rs.           *)
(*                                                                         *)
(* A body is a list of rows, each an element and the fields its attributes *)
(* hold; one way of writing and one of reading serve them all, as every    *)
(* write_body and parse_body repeats them.  Info structs are records with  *)
(* the fields of the source; an enum is the name of its variant.           *)
(***************************************************************************)
EXTENDS Envelope, Integers, TLC

CONSTANTS Numbers,   \* the numbers that occur in attributes
          Spellings, \* texts that read as one, other than its usual text: <<text, number>>
          U32,       \* how many values a u32 has
          I63        \* and how many values of an i64 are negative

\* The defaults are among the numbers.
ASSUME WidthAssumption == /\ {0, 1, 10, 100, 10001} \subseteq Numbers /\ Numbers \subseteq Int
                          /\ {U32, I63} \subseteq Nat \ {0}

\* str::parse takes a plus sign and leading zeros, and parse_int_or trims.
Spells(text, n) == text = ToString(n) \/ <<text, n>> \in Spellings

ASSUME TextAssumption ==
  /\ \A n \in Numbers : ToString(n) # Absent
  /\ \A m, n \in Numbers : ToString(m) = ToString(n) => m = n
  /\ \A s \in Spellings : \A n \in Numbers : Spells(s[1], n) => n = s[2]

Values(kind) == CASE kind = "u8"  -> 0..255
                 [] kind = "u16" -> 0..65535
                 [] kind = "u32" -> 0..(U32 - 1)
                 [] kind = "i64" -> (-I63)..(I63 - 1)
Integral == {"u8", "u16", "u32", "i64"}

\* Names that begin with Slip are mistakes this code could have made: the next
\* definition with a slip in its place breaks a property.  No action uses one.

SlipExact(text) == text = "True"
SlipTruncated(kind, text, default) ==
  IF \E n \in Numbers : Spells(text, n) THEN CHOOSE n \in Numbers : Spells(text, n)
  ELSE default

\* parse_int_or: a text that is not a number of that width is the default.
ParseIntOr(kind, text, default) ==
  IF \E n \in Numbers \cap Values(kind) : Spells(text, n)
  THEN CHOOSE n \in Numbers \cap Values(kind) : Spells(text, n) ELSE default

\* bool_str, and parse_bool in any case.
BoolStr(b) == IF b THEN "true" ELSE "false"
ParseBool(text) == text \in {"true", "True", "TRUE"}

\* LuminanceMode and WifiMode: another text is the default variant.
LuminanceModes == [Fixed |-> "default", Scheduled |-> "ploys", Sensor |-> "sensor"]
ParseLuminance(text) == CASE text = "ploys"  -> "Scheduled"
                          [] text = "sensor" -> "Sensor"
                          [] OTHER           -> "Fixed"
WifiModes == [Ap |-> "ap", Station |-> "station"]
ParseWifi(text) == IF text \in {"station", "Station", "STATION"} THEN "Station" ELSE "Ap"

-----------------------------------------------------------------------------
(* Fields and rows.                                                        *)

Field(attr, name, kind, default) ==
  [attr |-> attr, name |-> name, kind |-> kind, default |-> default]
Str(attr, name)  == Field(attr, name, "text", "")
Flag(attr, name) == Field(attr, name, "flag", FALSE)

Row(form, tag, fields) == [form |-> form, tag |-> tag, fields |-> fields, list |-> ""]
One(tag, fields)        == Row("one", tag, fields)
Opening(tag, fields)    == Row("open", tag, fields)
Closing(tag)            == Row("close", tag, {})
Each(tag, list, fields) == [Row("each", tag, fields) EXCEPT !.list = list]

\* What the methods of a setting are, and its body.
Setting(get, set, rows) == [get |-> get, set |-> set, rows |-> rows]

ToText(kind, value) == CASE kind = "flag"      -> BoolStr(value)
                         [] kind \in Integral  -> ToString(value)
                         [] kind = "luminance" -> LuminanceModes[value]
                         [] kind = "wifi"      -> WifiModes[value]
                         [] OTHER              -> value

FromText(f, text) == CASE f.kind = "flag"      -> ParseBool(text)
                       [] f.kind \in Integral  -> ParseIntOr(f.kind, text, f.default)
                       [] f.kind = "luminance" -> ParseLuminance(text)
                       [] f.kind = "wifi"      -> ParseWifi(text)
                       [] OTHER                -> text

Of(fields, P(_)) == CHOOSE f \in fields : P(f)

\* An attribute that is written and never read.
Fixed(attr, text) == Field(attr, "", "fixed", text)

Attributes(fields, values) ==
  [attr \in {f.attr : f \in fields} |->
     LET f == Of(fields, LAMBDA g : g.attr = attr) IN
     IF f.kind = "fixed" THEN f.default ELSE ToText(f.kind, values[f.name])]

\* write_body.
WriteRow(row, info) ==
  CASE row.form = "one"   -> <<Empty(row.tag, Attributes(row.fields, info))>>
    [] row.form = "open"  -> <<Open(row.tag, Attributes(row.fields, info))>>
    [] row.form = "close" -> <<Close(row.tag)>>
    [] row.form = "each"  -> [i \in DOMAIN info[row.list] |->
                                Empty(row.tag, Attributes(row.fields, info[row.list][i]))]
WriteBody(rows, info) == FlattenSeq([i \in DOMAIN rows |-> WriteRow(rows[i], info)])

Read(fields) == {f \in fields : f.kind # "fixed"}
Defaults(fields) == [name \in {f.name : f \in Read(fields)} |->
                       Of(fields, LAMBDA f : f.name = name).default]

\* The fields and the lists of a struct.
Plain(rows) == UNION {row.fields : row \in {r \in ToSet(rows) : r.form # "each"}}
Lists(rows) == {row.list : row \in {r \in ToSet(rows) : r.form = "each"}}

\* The info a body with nothing in it is read as.
Default(rows) ==
  LET plain == Defaults(Plain(rows)) IN
  [name \in DOMAIN plain \cup Lists(rows) |-> IF name \in Lists(rows) THEN <<>> ELSE plain[name]]

\* The types of the structs: what a field can hold, and what an info is.
Fits(f, value) == CASE f.kind = "flag"      -> value \in BOOLEAN
                    [] f.kind \in Integral  -> value \in Numbers \cap Values(f.kind)
                    [] f.kind = "luminance" -> value \in DOMAIN LuminanceModes
                    [] f.kind = "wifi"      -> value \in DOMAIN WifiModes
                    [] OTHER                -> value # Absent
HasFields(fields, item) == /\ item = [name \in {f.name : f \in Read(fields)} |-> item[name]]
                           /\ \A f \in Read(fields) : Fits(f, item[f.name])
IsInfo(rows, info) ==
  /\ info = [name \in DOMAIN Default(rows) |-> info[name]]
  /\ \A f \in Read(Plain(rows)) : Fits(f, info[f.name])
  /\ \A row \in ToSet(rows) : row.form = "each" =>
        IsList(info[row.list]) /\ \A item \in ToSet(info[row.list]) : HasFields(row.fields, item)

\* The values with those that an element names: what it does not name stays.
Named(fields, values, e) ==
  [name \in DOMAIN values |->
     IF \E f \in Read(fields) : f.name = name /\ Attr(e, f.attr) # Absent
     THEN LET f == Of(fields, LAMBDA g : g.name = name) IN FromText(f, Attr(e, f.attr))
     ELSE values[name]]

\* One element: one that names a row of the body, or none of them.
ReadElement(rows, info, e) ==
  LET row == CHOOSE r \in ToSet(rows) : r.tag = e.tag /\ r.form # "close" IN
  IF ~\E r \in ToSet(rows) : r.tag = e.tag /\ r.form # "close" THEN info
  ELSE IF row.form = "each"
  THEN [info EXCEPT ![row.list] = Append(@, Named(row.fields, Defaults(row.fields), e))]
  ELSE Named(row.fields, info, e)

\* An attribute that is asked for and cannot be read fails the whole body.
Faulty(rows, doc) ==
  \E e \in Elements(doc), row \in ToSet(rows) :
     row.tag = e.tag /\ \E f \in Read(row.fields) : Attr(e, f.attr) = Unreadable

\* parse_body.
ParseBody(rows, doc) ==
  LET info[k \in 0..Len(doc)] ==
        IF k = 0 THEN Default(rows)
        ELSE IF IsElement(doc[k]) THEN ReadElement(rows, info[k - 1], doc[k]) ELSE info[k - 1]
  IN info[Len(doc)]

\* decode: what the device says is wrong comes before what the body says.
Decode(rows, doc) == IF Verdict(doc) = "ok" /\ Faulty(rows, doc) THEN "proto" ELSE Verdict(doc)

-----------------------------------------------------------------------------
(* The messages.                                                           *)

BootLogo == Setting("GetBootLogo", "SetBootLogoName",
  <<One("logo", {Flag("exist", "exists"), Str("name", "name"), Str("md5", "md5")})>>)

ClearBootLogo == "ClearBootLogo"

FileList == Setting("GetFiles", Absent,
  <<Opening("files", {}),
    Each("file", "files", {Str("name", "name"), Field("size", "size", "i64", 0),
                           Field("existSize", "exist_size", "i64", 0),
                           Str("md5", "md5"), Str("type", "file_type")}),
    Closing("files")>>)

\* The body of DeleteFiles, and the names read out of one.
DeleteFiles(names) ==
  <<Open("files", <<>>)>> \o [i \in DOMAIN names |-> Empty("file", [name |-> names[i]])]
    \o <<Close("files")>>
DeletedNames(doc) == {Attr(e, "name") : e \in {e \in Elements(doc) : e.tag = "file"}}
                       \ {Absent}

Luminance == Setting("GetLuminancePloy", "SetLuminancePloy",
  <<One("mode", {Field("value", "mode", "luminance", "Fixed")}),
    One("default", {Field("value", "default_value", "u8", 100)}),
    Opening("ploy", {}),
    Each("item", "items", {Field("enable", "enabled", "flag", TRUE),
                           Field("start", "start", "text", "00:00:00"),
                           Field("percent", "percent", "u8", 100)}),
    Closing("ploy"),
    One("sensor", {Field("min", "sensor_min", "u8", 1), Field("max", "sensor_max", "u8", 100),
                   Field("time", "sensor_time", "u8", 10)})>>)

Ethernet == Setting("GetEth0Info", "SetEth0Info",
  <<Opening("eth", {Fixed("valid", "true")}),
    One("enable", {Flag("value", "enabled")}),
    One("dhcp", {Flag("auto", "auto_dhcp")}),
    One("address", {Str("ip", "ip"), Str("netmask", "netmask"), Str("gateway", "gateway"),
                    Str("dns", "dns")}),
    Closing("eth")>>)

Wifi == Setting("GetWifiInfo", "SetWifiInfo",
  <<One("wifi", {Flag("valid", "has_wifi")}),
    One("enable", {Flag("value", "enabled")}),
    One("mode", {Field("value", "mode", "wifi", "Ap")}),
    Opening("ap", {}),
    One("ssid", {Str("value", "ssid")}), One("passwd", {Str("value", "password")}),
    One("channel", {Str("value", "channel")}), One("encryption", {Str("value", "encryption")}),
    Closing("ap")>>)

Server == Setting("GetSDKTcpServer", "SetSDKTcpServer",
  <<One("server", {Str("host", "host"), Field("port", "port", "u16", 10001)})>>)

SwitchTime == Setting("GetSwitchTime", "SetSwitchTime",
  <<One("open", {Flag("enable", "open_enabled")}),
    Opening("ploy", {Flag("enable", "ploy_enabled")}),
    Each("item", "items", {Field("enable", "enabled", "flag", TRUE), Str("start", "start"),
                           Str("end", "end")}),
    Closing("ploy")>>)

Time == Setting("GetTimeInfo", "SetTimeInfo",
  <<One("timezone", {Str("value", "timezone")}), One("summer", {Flag("enable", "summer")}),
    One("sync", {Str("value", "sync")}), One("time", {Str("value", "time")})>>)

DeviceInfo == Setting("GetDeviceInfo", Absent,
  <<One("device", {Str("cpu", "cpu"), Str("model", "model"), Str("id", "device_id"),
                   Str("name", "device_name")}),
    One("version", {Str("fpga", "fpga_version"), Str("app", "app_version"),
                    Str("kernel", "kernel_version")}),
    One("screen", {Field("width", "screen_width", "u32", 0),
                   Field("height", "screen_height", "u32", 0),
                   Field("rotation", "screen_rotation", "u32", 0)})>>)

\* ProgramPush: a screen tree, or nothing, as it is.
ProgramPush(method, screen) == [method |-> method, screen |-> screen]
EncodePush(guid, push)      == EncodeRequest(guid, push.method, push.screen)
DecodePush(doc)             == ProgramPush(DecodeReply(doc).method, ExtractElement(doc, "screen"))
=============================================================================
