----------------------------- MODULE ConfigFile ------------------------------
(***************************************************************************)
(* What becomes of an INI file: ini_parser reads its lines and guesses the *)
(* type of each value, ini_config_provider looks the names up and turns    *)
(* the values into integers, and the synchronisation compares and sends    *)
(* them as raw 64-bit patterns.  Here every frame arrives; commands that   *)
(* fail and answers that are late are ConfigSync.                          *)
(*                                                                         *)
(* A line is <<"blank">> (or a comment), <<"section", s>>, <<"invalid">>   *)
(* (no separator or nothing in front of it; a header with a dot in it) or  *)
(* <<"setting", name, text>>.  A text is <<sort, n>>, the sort one of      *)
(*   integer    digits, a number of 32 bits                                *)
(*   fraction   with a decimal point; n is the number cut to an integer    *)
(*   begins     a number and something after it ("1000 ; ms", "0x10")      *)
(*   huge       digits, a number of more than 32 bits                      *)
(*   word       no number in front, or nothing at all                      *)
(*   true, false, null                                                     *)
(***************************************************************************)
EXTENDS UbxCodec, CfgKeys

\* Sections in alphabetical order, as their names stand to those of the settings: a setting
\* without a section comes after those of some sections and before those of others.
Sections == {1, 3}
NoSection == 2

-----------------------------------------------------------------------------
(* ini_parser.                                                             *)

ParseValue(text) ==
    CASE text[1] = "integer" -> [type |-> "int", n |-> text[2]]
      [] text[1] = "fraction" -> [type |-> "double", n |-> text[2]]
      [] text[1] = "true" -> [type |-> "bool", n |-> 1]
      [] text[1] = "false" -> [type |-> "bool", n |-> 0]
      [] text[1] = "null" -> [type |-> "null"]
      [] OTHER -> [type |-> "string", text |-> text]

\* load(): settings under their full name; a later line replaces an earlier one.
ParseLine(st, line) ==
    CASE ~st.ok \/ line[1] = "blank" -> st
      [] line[1] = "section" -> [st EXCEPT !.section = line[2]]
      [] line[1] = "setting" ->
            [st EXCEPT !.data = (<<st.section, line[2]>> :> ParseValue(line[3])) @@ @]
      [] OTHER -> [st EXCEPT !.ok = FALSE]

Parse(file) == FoldLeft(ParseLine, [ok |-> TRUE, section |-> NoSection, data |-> <<>>], file)

\* get_keys(): in the order of std::map.
GetKeys(data) ==
    SetToSortSeq(DOMAIN data, LAMBDA a, b: a[1] < b[1] \/ (a[1] = b[1] /\ a[2] < b[2]))

\* as_int(): the number, a config_error, or an exception of std::stoi, which is none.
Converted(n) == <<"int", n>>
AsInt(value) ==
    CASE value.type \in {"int", "double", "bool"} -> Converted(value.n)
      [] value.type = "null" -> <<"config_error">>
      [] OTHER -> IF value.text[1] = "begins" THEN Converted(value.text[2]) ELSE <<"stoi_error">>

-----------------------------------------------------------------------------
(* ini_config_provider_impl.                                               *)

\* config_value(int32_t): a pattern of 32 bits in 64.
ConfigValue(n) == Bytes(n, 4) \o Times(4, 0)

Provide(data, st, full) ==
    IF st.outcome = "throws" \/ full[2] = UnknownName THEN st
    ELSE LET v == AsInt(data[full])
         IN  CASE v[1] = "int" ->
                    [st EXCEPT !.entries =
                        Append(@, [key |-> LookupByName(full[2]), value |-> ConfigValue(v[2])])]
               [] v[1] = "config_error" -> st
               [] OTHER -> [st EXCEPT !.outcome = "throws"]

\* Bug: a line that is no setting is left out.
BugLoadDefaultConfig(file) ==
    LET data == Parse(SelectSeq(file, LAMBDA line: line[1] # "invalid")).data
        st == FoldLeft(LAMBDA s, full: Provide(data, s, full),
                       [outcome |-> "true", entries |-> <<>>], GetKeys(data))
    IN  IF st.outcome = "true" /\ st.entries = <<>> THEN [st EXCEPT !.outcome = "false"] ELSE st

\* load_default_config(): true with the entries, false if the file cannot be parsed or has
\* none, or an exception for the command that called it.
LoadDefaultConfig(file) ==
    LET parsed == Parse(file)
        st == FoldLeft(LAMBDA s, full: Provide(parsed.data, s, full),
                       [outcome |-> "true", entries |-> <<>>], GetKeys(parsed.data))
    IN  IF ~parsed.ok THEN [outcome |-> "false", entries |-> <<>>]
        ELSE IF st.outcome = "true" /\ st.entries = <<>> THEN [st EXCEPT !.outcome = "false"]
        ELSE st

-----------------------------------------------------------------------------
(* The commands with the chip at the other end.                            *)

Layer == 1
Filled(payload, pair) == (pair.key :> pair.value) @@ payload

\* The chip takes the settings of a VALSET one after the other, and answers a VALGET with
\* the value of each key, in the bytes of its size.
Taken(chip, valset) == FoldLeft(Filled, chip, DecodeValget(valset))
Asked(valget) ==
    [i \in 1..((Len(valget) - 4) \div 4) |->
        <<Number(From(valget, 4 * i + 1, 3)), valget[4 * i + 4] \div 16>>]
Answer(chip, valget) ==
    <<1, 0, 0, 0>> \o FlattenSeq([i \in DOMAIN Asked(valget) |->
        Pair([key |-> Asked(valget)[i], value |-> chip[Asked(valget)[i]]])])

\* force_sync_config() and poll_config(), then the settings sync_config() would send.
ForceApply(entries) == BuildValset(entries, Layer)
StartPoll(entries) == BuildValget([i \in DOMAIN entries |-> entries[i].key], 0)
Repository(answer) == FoldLeft(Filled, <<>>, DecodeValget(answer))
ApplyConfiguration(entries, repository) ==
    SelectSeq(entries, LAMBDA e: e.key \notin DOMAIN repository \/ repository[e.key] # e.value)

\* poll_config() takes an exception for a failure; force_sync_config() lets it out.
PollConfig(loaded) == IF loaded.outcome = "throws" THEN "false" ELSE loaded.outcome
ForceSyncConfig(loaded) == loaded.outcome

\* Each command with the file, on a controller of its own, and the chip after the second.
Configured(file) ==
    LET loaded == LoadDefaultConfig(file)
        forced == ForceSyncConfig(loaded)
        chip == IF forced = "true" THEN Taken(<<>>, ForceApply(loaded.entries)) ELSE <<>>
    IN  [of |-> "file", from |-> file, polled |-> PollConfig(loaded), forced |-> forced,
         chip |-> chip,
         left |-> IF forced = "true"
                  THEN ApplyConfiguration(loaded.entries,
                                          Repository(Answer(chip, StartPoll(loaded.entries))))
                  ELSE <<>>]
=============================================================================
