------------------------------ MODULE Permissions ------------------------------
(***************************************************************************)
(* PermissionPolicy.decide (permissions/policy.ts) and what it reads of a   *)
(* shell command (permissions/shellPolicy.ts).  A command is a sequence of  *)
(* words; one word after the other is added, whatever it is.                *)
(***************************************************************************)
EXTENDS Integers, Sequences, SequencesExt, FiniteSets

CONSTANTS
    Words,      \* words of commands
    ToolNames,  \* [tool -> [readOnly, mcp]]
    MaxWords    \* bound: words in a command

ASSUME PermissionsAssumption == MaxWords \in Nat

Modes == {"read-only", "workspace-write", "danger-full-access"}

-----------------------------------------------------------------------------
(* Reading a command.                                                       *)

Operators == {";", "|", "&&", "||", "backquote", "$("}
HasShellControlOperator(words) == \E k \in DOMAIN words : words[k] \in Operators

\* hasDangerousRm, for each part between the operators that end a command.
HasDangerousRm(words) ==
    \E i \in DOMAIN words :
        /\ words[i] = "rm"
        /\ LET part == {k \in DOMAIN words :
                          k > i /\ \A l \in i..k : words[l] \notin {";", "|", "&&", "||"}}
               given == {words[k] : k \in part}
           IN  /\ given \intersect {"/", "~"} # {}
               /\ "-rf" \in given \/ {"-r", "-f"} \subseteq given

\* The options of git itself: some take the next word as their value.
WithValue == {"-C", "-c", "--git-dir", "--work-tree"}
Alone == {"-cx", "--no-pager", "--paginate", "--bare", "--git-dir=", "--work-tree="}

\* How many words of global options there are at the start.
Skipped[rest \in Seq(STRING)] ==
    IF rest = <<>> THEN 0
    ELSE IF rest[1] \in WithValue
         THEN 2 + (IF Len(rest) < 2 THEN 0 ELSE Skipped[SubSeq(rest, 3, Len(rest))])
    ELSE IF rest[1] \in Alone THEN 1 + Skipped[Tail(rest)]
    ELSE 0

NoGit == [subcommand |-> "", args |-> <<>>]

ParseGitInvocation(words) ==
    IF words = <<>> \/ words[1] # "git" THEN NoGit
    ELSE LET n == 2 + Skipped[Tail(words)]
         IN  IF n > Len(words) THEN NoGit
             ELSE [subcommand |-> words[n], args |-> SubSeq(words, n + 1, Len(words))]

IsMutatingGit(git) ==
    \/ git.subcommand \in {"push", "commit", "clean", "rebase", "merge", "restore", "stash"}
    \/ (git.subcommand = "reset" /\ Contains(git.args, "--hard"))
    \/ (git.subcommand = "checkout" /\ Contains(git.args, "--"))

HardDenyShellCommand(words) ==
    \/ words = <<>>
    \/ HasDangerousRm(words)
    \/ \E k \in DOMAIN words : words[k] \in {"mkfs", "mkswap"}
    \/ \E k, l \in DOMAIN words :
          /\ k < l /\ words[k] = "dd" /\ words[l] = "of=/dev/disk"
          /\ \A m \in k..l : words[m] \notin {";", "|", "&&", "||"}
    \/ \E k, l \in DOMAIN words :
          /\ k < l /\ words[k] \in {"curl", "wget"} /\ words[l] \in {"sh", "bash"}
          /\ \/ words[l - 1] = "|"
             \/ (words[l - 1] = "env" /\ l > k + 2 /\ words[l - 2] = "|")
    \/ IsMutatingGit(ParseGitInvocation(words))

IsGitInspectionCommand(words) ==
    LET git == ParseGitInvocation(words)
    IN  /\ ~HasShellControlOperator(words)
        /\ \/ git.subcommand \in {"status", "diff", "log", "show", "rev-parse", "grep"}
           \/ git.subcommand = "branch" /\ git.args # <<>> /\ git.args[1] = "--show-current"

-----------------------------------------------------------------------------
(* decide: a request has a tool, a command if it is bash, and tells whether *)
(* a path it names is sensitive.                                            *)

\* Wrong: what is always denied is looked for only where bash is asked for.
DecideByMode(mode, r) ==
    IF r.sensitive THEN "deny"
    ELSE IF mode = "danger-full-access" THEN "allow"
    ELSE IF r.tool = "bash" /\ HardDenyShellCommand(r.command) THEN "deny"
    ELSE IF mode = "read-only"
         THEN IF ToolNames[r.tool].readOnly THEN "allow" ELSE "deny"
    ELSE IF \/ r.tool = "bash" /\ ~IsGitInspectionCommand(r.command)
            \/ ToolNames[r.tool].mcp /\ ~ToolNames[r.tool].readOnly
         THEN "ask" ELSE "allow"

Decide(mode, r) ==
    IF r.sensitive THEN "deny"
    ELSE IF r.tool = "bash" /\ HardDenyShellCommand(r.command) THEN "deny"
    ELSE IF mode = "read-only"
    THEN IF ToolNames[r.tool].readOnly \/ r.tool \in {"read", "grep", "glob"} THEN "allow" ELSE "deny"
    ELSE IF mode = "danger-full-access" THEN "allow"
    ELSE IF r.tool = "bash"
    THEN IF IsGitInspectionCommand(r.command) THEN "allow" ELSE "ask"
    ELSE IF ToolNames[r.tool].mcp /\ ~ToolNames[r.tool].readOnly THEN "ask" ELSE "allow"

-----------------------------------------------------------------------------
VARIABLE typed

PermissionsInit == typed = <<>>
PermissionsNext == Len(typed) < MaxWords /\ \E w \in Words : typed' = Append(typed, w)

Requested == {[tool |-> t, command |-> IF t = "bash" THEN typed ELSE <<>>, sensitive |-> s] :
                  t \in DOMAIN ToolNames, s \in BOOLEAN}

\* A mode never refuses or asks for what a stricter one allows; nothing is
\* asked for except in workspace-write; what is denied with full access is
\* denied in every mode.  A command is judged by its subcommand, whatever
\* global options come before it: an inspection stays one and a changing
\* command stays denied (policy.ts:8-51, shellPolicy.ts:65-95).
PermissionsAreOrdered ==
    /\ \A r \in Requested :
          LET in(mode) == Decide(mode, r)
          IN  /\ in("read-only") = "allow" => in("workspace-write") = "allow"
              /\ in("workspace-write") \in {"allow", "ask"} => in("danger-full-access") = "allow"
              /\ in("danger-full-access") = "deny" => \A mode \in Modes : in(mode) = "deny"
              /\ \A mode \in Modes : in(mode) = "ask" => mode = "workspace-write"
    /\ typed # <<>> /\ typed[1] = "git" =>
          \A o \in WithValue, v \in Words :
              LET more == <<"git", o, v>> \o Tail(typed)
              IN  /\ IsMutatingGit(ParseGitInvocation(typed)) => HardDenyShellCommand(more)
                  /\ IsGitInspectionCommand(typed) /\ v \notin Operators =>
                        IsGitInspectionCommand(more)
=============================================================================
