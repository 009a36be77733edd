-------------------------------- MODULE Settings --------------------------------
(***************************************************************************)
(* What a command line asks for (cli/args.ts) and where each effective     *)
(* setting comes from (cli/config.ts): defaults, the global and the        *)
(* project configuration file, the environment and the command line, one   *)
(* after the other, each reading only what has the form it expects.        *)
(* Settings of one kind are read alike, so each kind stands for them all.  *)
(***************************************************************************)
EXTENDS Integers, Sequences, SequencesExt, FiniteSetsExt

CONSTANTS
    CliWords,      \* words of a command line
    MaxCliWords,   \* bound: words of a command line
    NoSetting,
    RawValues,     \* [kind -> what a source may hold: type and value]
    McpFiles       \* what an MCP configuration file may hold

\* Nothing that is set, and no word, is NoSetting.
ASSUME SettingsAssumption ==
    /\ MaxCliWords \in Nat
    /\ NoSetting \notin CliWords
          \union {"doctor", "resume", "sessions", "profile", "help", "dry-run", "repl",
                  "one-shot", "last"}

-----------------------------------------------------------------------------
(* The command line.                                                        *)

Commands == {"doctor", "resume", "sessions", "profile"}
ModeFlags == [w \in {"--help", "--dry-run", "--repl"} |->
                 CASE w = "--help" -> "help" [] w = "--dry-run" -> "dry-run" [] OTHER -> "repl"]
SwitchFlags == {"--json", "--output-json", "--json-events", "--fake"}
\* -p, --prompt-file, --cwd, ... and the ones whose value is checked.
ValueFlags == {"-p", "--prompt-file", "--max-steps"}
PositiveIntegers == {"7"}
IsFlag(word) == word \in DOMAIN ModeFlags \union SwitchFlags \union ValueFlags
                           \union {"--sandbox", "--last", "--bogus"}

StartOfArgs == [mode |-> NoSetting, wants |-> NoSetting, on |-> {}, values |-> <<>>,
                resume |-> NoSetting, index |-> 0, error |-> FALSE]

Failed(s) == [s EXCEPT !.error = TRUE]

\* A value may look like a flag; an empty one, or a number below 1, is refused.
TakeValue(s, word) ==
    IF word = "" \/ (s.wants = "--max-steps" /\ word \notin PositiveIntegers) THEN Failed(s)
    ELSE [s EXCEPT !.values = Append(@, <<s.wants, word>>), !.wants = NoSetting]

\* A word where a flag is expected; commands are known in the first place only.
TakeWord(s, word) ==
    CASE s.index = 1 /\ word \in Commands ->
            [s EXCEPT !.mode = word, !.resume = IF word = "resume" THEN "last" ELSE @,
                      !.wants = IF word \in {"resume", "profile"} THEN word ELSE @]
      [] word \in DOMAIN ModeFlags -> [s EXCEPT !.mode = ModeFlags[word]]
      [] word \in SwitchFlags -> [s EXCEPT !.on = @ \union {word}]
      [] word \in ValueFlags -> [s EXCEPT !.wants = word]
      [] word = "--sandbox" /\ s.mode = "doctor" -> [s EXCEPT !.on = @ \union {word}]
      [] word = "--last" /\ s.mode = "resume" -> [s EXCEPT !.resume = "last"]
      [] OTHER -> Failed(s)

\* The word after resume or profile is its own, unless it is empty or a flag.
ParseWord(previous, word) ==
    LET s == [previous EXCEPT !.index = @ + 1] IN
    IF s.error THEN s
    ELSE IF s.wants \in {"resume", "profile"}
    THEN LET free == [s EXCEPT !.wants = NoSetting] IN
         IF word = "" \/ IsFlag(word) THEN TakeWord(free, word)
         ELSE IF s.wants = "resume" THEN [free EXCEPT !.resume = word]
         ELSE [free EXCEPT !.values = Append(@, <<"profile", word>>)]
    ELSE IF s.wants # NoSetting THEN TakeValue(s, word)
    ELSE TakeWord(s, word)

\* The last value given for a flag.
ValueOf(args, flag) ==
    LET given == {i \in DOMAIN args.values : args.values[i][1] = flag}
    IN  IF given = {} THEN NoSetting ELSE args.values[Max(given)][2]

HasPrompt(args) == ValueOf(args, "-p") # NoSetting \/ ValueOf(args, "--prompt-file") # NoSetting

\* Wrong: outputs are not told apart once a mode was asked for.
ConflictingOnlyIfImplicit(args) ==
    \/ args.wants \in ValueFlags
    \/ /\ args.mode = NoSetting
       /\ Cardinality(args.on \intersect {"--json", "--output-json", "--json-events"}) > 1
    \/ args.mode = "profile" /\ ValueOf(args, "profile") = NoSetting

Conflicting(args) ==
    \/ args.wants \in ValueFlags
    \/ "--json" \in args.on /\ args.mode \notin {NoSetting, "doctor", "profile"}
    \/ Cardinality(args.on \intersect {"--json", "--output-json", "--json-events"}) > 1
    \/ args.mode = "profile" /\ ValueOf(args, "profile") = NoSetting

\* The mode, or NoSetting where parseCliArgs throws.
ModeOf(args, tty) ==
    IF args.error \/ Conflicting(args) THEN NoSetting
    ELSE IF args.mode # NoSetting THEN args.mode
    ELSE IF HasPrompt(args) THEN "one-shot"
    ELSE IF tty /\ "--json" \notin args.on THEN "repl" ELSE NoSetting

ParseCliArgs(words) == FoldLeft(ParseWord, StartOfArgs, words)

-----------------------------------------------------------------------------
(* The settings.  A kind stands for: text - baseUrl, model, transcript,     *)
(* sandboxSettings, mcpConfig; number - maxSteps, maxContextTokens,         *)
(* compactThreshold; choice - permissionMode, osSandbox; list - the sandbox *)
(* lists and skillDirs; switch - fake, verbose; profile; key - apiKeyEnv.   *)

Kinds == {"text", "number", "choice", "list", "switch", "profile", "key"}

\* What a source holds, of any kind, has these fields.
IsRaw(r) ==
    /\ r = [type |-> r.type, ok |-> r.ok, empty |-> r.empty, value |-> r.value]
    /\ r.ok \in BOOLEAN /\ r.empty \in BOOLEAN
ASSUME RawValuesAssumption == \A k \in Kinds : \A r \in RawValues[k] : IsRaw(r)

\* The order in which sources are applied; a variable of the OPENAI_ family, or
\* --artifact-dir for the transcript, counts less than the one for the setting.
SourceOrder == <<"global config", "project config", "fallback", "env", "cli">>

Value(v) == [set |-> TRUE, bad |-> FALSE, value |-> v]
Unset == [set |-> FALSE, bad |-> FALSE, value |-> NoSetting]
Bad == [Unset EXCEPT !.bad = TRUE]

\* applyConfigObject: another type is ignored, a wrong choice or item is not.
FromFile(kind, raw) ==
    LET type == [text |-> "string", number |-> "number", list |-> "array",
                 switch |-> "boolean", profile |-> "boolean", key |-> "string"]
    IN  IF kind = "choice"
        THEN IF raw.type = "undefined" THEN Unset
             ELSE IF raw.type = "string" /\ raw.ok THEN Value(raw) ELSE Bad
        ELSE IF raw.type # type[kind] THEN Unset
        ELSE IF kind = "list" /\ ~raw.ok THEN Bad ELSE Value(raw)

\* applyEnvironment: every variable is a string and an empty one is not set; of
\* a switch only profile has one, and it can only turn it on.
FromEnvironment(kind, raw) ==
    IF raw.type # "string" \/ raw.empty \/ kind = "switch" THEN Unset
    ELSE CASE kind = "profile" -> IF raw.ok THEN Value([raw EXCEPT !.type = "boolean"]) ELSE Unset
           [] kind \in {"number", "choice"} -> IF raw.ok THEN Value(raw) ELSE Bad
           [] OTHER -> Value(raw)

\* applyCliArgs, on values parseCliArgs has let through; a flag turns a switch on.
FromCli(kind, raw) ==
    IF kind \in {"switch", "profile"}
    THEN IF raw.type = "boolean" /\ raw.ok THEN Value(raw) ELSE Unset
    ELSE IF raw.type = "string" /\ ~raw.empty /\ (kind \in {"number", "choice"} => raw.ok)
    THEN Value(raw) ELSE Unset

Read(source, kind, raw) ==
    CASE source = "project config" /\ kind = "key" ->
            IF raw.type = "string" THEN Bad ELSE Unset
      [] source = "global config" \/ (source = "project config" /\ kind # "key") ->
            FromFile(kind, raw)
      [] source = "fallback" -> IF kind = "text" THEN FromCli(kind, raw) ELSE Unset
      [] source = "env" -> FromEnvironment(kind, raw)
      [] OTHER -> FromCli(kind, raw)

\* What is set so far, with one source more.
ApplySource(acc, source, kind, raws) ==
    LET r == Read(source, kind, raws[source])
    IN  [error |-> acc.error \/ r.bad,
         setting |-> IF r.set THEN [value |-> r.value, source |-> source] ELSE acc.setting]
DefaultSetting == [error |-> FALSE, setting |-> [value |-> NoSetting, source |-> "default"]]

\* Wrong: a file overrules the environment.
ApplyFilesLast(kind, raws) ==
    FoldLeft(LAMBDA acc, source : ApplySource(acc, source, kind, raws), DefaultSetting,
             <<"fallback", "env", "global config", "project config", "cli">>)

\* resolveConfig, for one setting.
Apply(kind, raws) ==
    FoldLeft(LAMBDA acc, source : ApplySource(acc, source, kind, raws), DefaultSetting,
             SourceOrder)

\* loadMcpConfig: a list, possibly under mcpServers or servers; one entry
\* without a name or a command, or with a field of another type, refuses all.
LoadMcpConfig(file) ==
    IF file.shape \notin {"array", "mcpServers", "servers"} THEN NoSetting
    ELSE IF \E i \in DOMAIN file.entries : ~file.entries[i].named \/ ~file.entries[i].typed
    THEN NoSetting ELSE file.entries

-----------------------------------------------------------------------------
VARIABLES
    cliWords,    \* the command line typed so far
    lookedAt     \* the setting looked at: its kind and what each source holds

settingsVars == <<cliWords, lookedAt>>

Sources == {SourceOrder[i] : i \in DOMAIN SourceOrder}
Absent == [type |-> "undefined", ok |-> FALSE, empty |-> TRUE, value |-> NoSetting]

SettingsInit ==
    /\ cliWords = <<>>
    /\ \E k \in Kinds : lookedAt = [kind |-> k, raws |-> [s \in Sources |-> Absent]]

\* A word is typed, or a source comes to hold something.
SettingsNext ==
    \/ /\ Len(cliWords) < MaxCliWords
       /\ \E w \in CliWords : cliWords' = Append(cliWords, w)
       /\ lookedAt.kind = "key" /\ lookedAt.raws = [s \in Sources |-> Absent]
       /\ UNCHANGED lookedAt
    \/ /\ cliWords = <<>>
       /\ \E s \in Sources, r \in RawValues[lookedAt.kind] :
             /\ lookedAt.raws[s] = Absent
             /\ lookedAt' = [lookedAt EXCEPT !.raws[s] = r]
       /\ UNCHANGED cliWords

SettingsSpec == SettingsInit /\ [][SettingsNext]_settingsVars

-----------------------------------------------------------------------------
\* A command line that is accepted has what its mode needs, and asks for one
\* form of output; and it is accepted only if the same line without a terminal
\* is, unless it has no prompt (args.ts:56-172).
CommandsAreComplete ==
    LET args == ParseCliArgs(cliWords)
        mode == ModeOf(args, FALSE)
    IN  /\ mode # NoSetting =>
              /\ mode = "one-shot" => HasPrompt(args)
              /\ mode = "profile" => ValueOf(args, "profile") # NoSetting
              /\ mode = "resume" => args.resume # NoSetting
              /\ "--json" \in args.on => mode \in {"doctor", "profile", "one-shot"}
              /\ Cardinality(args.on \intersect {"--json", "--output-json", "--json-events"}) <= 1
              /\ \A i \in DOMAIN args.values : args.values[i][2] # ""
              /\ "--sandbox" \in args.on => cliWords[1] = "doctor"
        /\ ModeOf(args, TRUE) # mode => ~HasPrompt(args) /\ ModeOf(args, TRUE) = "repl"

\* A setting has the value of the source that counts most among those that hold
\* a usable one, and says so; a project file never names the key, a switch is
\* turned off by a file only; and a value that is refused anywhere refuses the
\* configuration, however it is overruled (config.ts:61-99, 131-270).
SourcesAreRanked ==
    LET raws == lookedAt.raws
        k == lookedAt.kind
        result == Apply(k, raws)
        usable(s) == Read(s, k, raws[s]).set
        rank(s) == CHOOSE i \in DOMAIN SourceOrder : SourceOrder[i] = s
    IN  /\ result.error = \E s \in Sources : Read(s, k, raws[s]).bad
        /\ ~result.error =>
              /\ result.setting.source = "default" <=> ~\E s \in Sources : usable(s)
              /\ \A s \in Sources : usable(s) => rank(s) <= rank(result.setting.source)
              /\ k = "key" => result.setting.source # "project config"
              /\ result.setting.source # "default" =>
                    result.setting.value.value = raws[result.setting.source].value
        /\ k \in {"switch", "profile"} /\ result.setting.source \in {"env", "cli"} =>
              raws[result.setting.source].ok

\* Both, and a list of servers is complete or refused (sessionFactory.ts:143-191).
SettingsAreTraceable ==
    /\ CommandsAreComplete
    /\ SourcesAreRanked
    /\ \A f \in McpFiles : LoadMcpConfig(f) # NoSetting =>
          \A i \in DOMAIN f.entries : f.entries[i].named
===============================================================================
