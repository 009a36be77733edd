-------------------------------- MODULE Search --------------------------------
(***************************************************************************)
(* The two tools that look for things (tools/builtins/glob.ts, grep.ts):   *)
(* a glob pattern turned into a regular expression and tried on every file *)
(* of the tree below a directory, and the lines ripgrep reports put into   *)
(* one capped list.                                                        *)
(*                                                                         *)
(* Names and patterns are sequences of characters, a path a sequence of    *)
(* names.  Ripgrep itself is modelled by what it prints: for each file     *)
(* with a match its lines in order, a line near a match as context.        *)
(***************************************************************************)
EXTENDS Integers, Sequences, FiniteSets, SequencesExt

CONSTANTS
    Tree,          \* the workspace: path |-> "file", "dir" or "link"
    IgnoredDirs,   \* names walk does not enter
    Repos,         \* a name walk does not enter below a name that
    References,    \* ends in "references": the set of those names
    Characters,    \* of patterns, "*", "?" and "/" among them
    GrepFiles,     \* the files of a search, in rg's order: 1, 2, ...
    MaxPattern,    \* bound: characters of a pattern
    MaxLines,      \* bound: lines of a file
    MaxContext,    \* bound: lines of context asked for
    MaxResults     \* bound: results asked for

VARIABLE search    \* what is asked: a glob or a grep

Roots == {<<>>} \cup {p \in DOMAIN Tree : Tree[p] = "dir"}

SearchInit ==
    \/ \E root \in Roots, max \in 1..MaxResults :
         search = [tool |-> "glob", pattern |-> <<>>, root |-> root, max |-> max]
    \/ \E before, after \in 0..MaxContext, max \in 1..MaxResults :
         search = [tool |-> "grep", lines |-> [f \in 1..GrepFiles |-> <<>>],
                   before |-> before, after |-> after, max |-> max]

TypeCharacter ==
    /\ search.tool = "glob"
    /\ Len(search.pattern) < MaxPattern
    /\ \E c \in Characters : search' = [search EXCEPT !.pattern = Append(@, c)]

\* A line more in a file, which the pattern matches or not.
AddLine ==
    /\ search.tool = "grep"
    /\ \E f \in 1..GrepFiles, hit \in BOOLEAN :
         /\ Len(search.lines[f]) < MaxLines
         /\ \A later \in (f + 1)..GrepFiles : search.lines[later] = <<>>
         /\ search' = [search EXCEPT !.lines[f] = Append(@, hit)]

SearchNext == TypeCharacter \/ AddLine

SearchSpec == SearchInit /\ [][SearchNext]_search

-------------------------------------------------------------------------------
(* glob                                                                     *)

\* Wrong: "**/" has to match a directory.
AtomAtAnyDepth(p, i) ==
    LET At(k) == IF k <= Len(p) THEN p[k] ELSE ""
    IN  IF At(i) = "*" /\ At(i + 1) = "*"
        THEN IF At(i + 2) = "/" THEN <<"under", 3>> ELSE <<"all", 2>>
        ELSE IF At(i) = "*" THEN <<"part", 1>>
        ELSE IF At(i) = "?" THEN <<"one", 1>> ELSE <<At(i), 1>>

\* What globToRegExp makes of the pattern at a place, and how far that goes.
Atom(p, i) ==
    LET At(k) == IF k <= Len(p) THEN p[k] ELSE ""
    IN  IF At(i) = "*" /\ At(i + 1) = "*"
        THEN IF At(i + 2) = "/" THEN <<"dirs", 3>> ELSE <<"all", 2>>
        ELSE IF At(i) = "*" THEN <<"part", 1>>
        ELSE IF At(i) = "?" THEN <<"one", 1>> ELSE <<At(i), 1>>

\* The expression from a place on against a text from a place on:
\* dirs is (?:.*/)?, all is .*, part is [^/]*, one is [^/].
RegexMatches(p, text) ==
    LET n == Len(text) + 1
        matches[i \in 1..(Len(p) + 1), j \in 1..n] ==
            IF i > Len(p) THEN j = n
            ELSE
            LET atom == Atom(p, i)[1]
                rest == i + Atom(p, i)[2]
                NoSlash(k) == \A x \in j..(k - 1) : text[x] # "/"
            IN  CASE atom = "dirs"  -> \E k \in j..n : (k = j \/ text[k - 1] = "/") /\ matches[rest, k]
                  [] atom = "under" -> \E k \in (j + 1)..n : text[k - 1] = "/" /\ matches[rest, k]
                  [] atom = "all"   -> \E k \in j..n : matches[rest, k]
                  [] atom = "part"  -> \E k \in j..n : NoSlash(k) /\ matches[rest, k]
                  [] atom = "one"   -> j < n /\ text[j] # "/" /\ matches[rest, j + 1]
                  [] OTHER          -> j < n /\ text[j] = atom /\ matches[rest, j + 1]
    IN  matches[1, 1]

Text(path) ==
    FoldLeft(LAMBDA text, name : IF text = <<>> THEN name ELSE text \o <<"/">> \o name, <<>>, path)

Below(root, path) == IsStrictPrefix(root, path)

\* walk enters no link, no ignored directory, and no repos of references.
Walked(root) ==
    {path \in DOMAIN Tree :
        /\ Tree[path] = "file"
        /\ Below(root, path)
        /\ \A k \in (Len(root) + 1)..(Len(path) - 1) :
             /\ Tree[SubSeq(path, 1, k)] = "dir"
             /\ path[k] \notin IgnoredDirs
             /\ ~(path[k] = Repos /\ k > 1 /\ path[k - 1] \in References)}

\* The pattern is tried from the directory searched and from the workspace.
Globbed(pattern, root) ==
    {path \in Walked(root) :
        \/ RegexMatches(pattern, Text(SubSeq(path, Len(root) + 1, Len(path))))
        \/ RegexMatches(pattern, Text(path))}

\* What is shown: the number of paths, and of those left out. parse refuses
\* an empty pattern and one that starts with a slash.
GlobParses(pattern) == pattern # <<>> /\ pattern[1] # "/"
GlobShown(found, max) == [shown |-> IF found < max THEN found ELSE max,
                          omitted |-> IF found > max THEN found - max ELSE 0]

-------------------------------------------------------------------------------
(* grep                                                                     *)

Near(lines, n, before, after) ==
    \E m \in DOMAIN lines : lines[m] /\ m - before <= n /\ n <= m + after

\* external: what rg --json prints of one file, nothing without a match in it
RgOfFile(f, lines, before, after) ==
    LET printed == SetToSortSeq({n \in DOMAIN lines : Near(lines, n, before, after)},
                                LAMBDA a, b : a < b)
        Item(type, n) == [type |-> type, file |-> f, line |-> n]
    IN  IF printed = <<>> THEN <<>>
        ELSE <<Item("begin", 0)>>
             \o [k \in DOMAIN printed |->
                   Item(IF lines[printed[k]] THEN "match" ELSE "context", printed[k])]
             \o <<Item("end", 0)>>

RgOutput(asked) ==
    FlattenSeq([f \in 1..GrepFiles |-> RgOfFile(f, asked.lines[f], asked.before, asked.after)])

\* Wrong: the context before the first match is dropped.
TakeRgItemLate(state, item, max) ==
    CASE item.type = "context" ->
           IF state.matched > 0 /\ ~state.truncated
           THEN [state EXCEPT !.lines = Append(@, item)] ELSE state
      [] item.type = "match" /\ state.matched >= max -> [state EXCEPT !.truncated = TRUE]
      [] item.type = "match" /\ state.matched < max ->
           [state EXCEPT !.lines = Append(@, item), !.matched = @ + 1]
      [] OTHER -> state

\* One line of rg's output in parseRgJson.
TakeRgItem(state, item, max) ==
    CASE item.type = "context" ->
           IF state.matched = 0 THEN [state EXCEPT !.waiting = Append(@, item)]
           ELSE IF ~state.truncated THEN [state EXCEPT !.lines = Append(@, item)] ELSE state
      [] item.type = "match" /\ state.matched >= max ->
           [state EXCEPT !.waiting = <<>>, !.truncated = TRUE]
      [] item.type = "match" /\ state.matched < max ->
           [state EXCEPT !.lines = @ \o state.waiting \o <<item>>, !.waiting = <<>>,
                         !.matched = @ + 1]
      [] OTHER -> state

ParseRgJson(items, max) ==
    FoldLeft(LAMBDA state, item : TakeRgItem(state, item, max),
             [lines |-> <<>>, waiting |-> <<>>, matched |-> 0, truncated |-> FALSE], items)

\* The plain output of the other modes: one line a file with a match.
ParsePlain(files, max) ==
    [lines |-> SubSeq(files, 1, IF Len(files) < max THEN Len(files) ELSE max),
     truncated |-> Len(files) > max]

FilesWithMatches(asked) ==
    SelectSeq([f \in 1..GrepFiles |-> f],
              LAMBDA f : \E n \in DOMAIN asked.lines[f] : asked.lines[f][n])

-------------------------------------------------------------------------------
(* What they promise                                                        *)

Split(p) ==
    LET cuts == SetToSortSeq({0, Len(p) + 1} \cup {i \in DOMAIN p : p[i] = "/"}, LAMBDA a, b : a < b)
    IN  [k \in 1..(Len(cuts) - 1) |-> SubSeq(p, cuts[k] + 1, cuts[k + 1] - 1)]

\* A name against a part of a pattern, by its characters.
NameFits(part, name) ==
    LET fits[i \in 1..(Len(part) + 1), j \in 1..(Len(name) + 1)] ==
            IF i > Len(part) THEN j > Len(name)
            ELSE IF part[i] = "*" THEN fits[i + 1, j] \/ (j <= Len(name) /\ fits[i, j + 1])
            ELSE j <= Len(name) /\ part[i] \in {"?", name[j]} /\ fits[i + 1, j + 1]
    IN  fits[1, 1]

Anywhere == <<"*", "*">>

\* A path against the parts of a pattern: ** stands for any number of names,
\* at the end for one or more.
PathFits(parts, path) ==
    LET fits[i \in 1..(Len(parts) + 1), j \in 1..(Len(path) + 1)] ==
            IF i > Len(parts) THEN j > Len(path)
            ELSE IF parts[i] = Anywhere
                 THEN IF i = Len(parts) THEN j <= Len(path)
                      ELSE fits[i + 1, j] \/ (j <= Len(path) /\ fits[i, j + 1])
                 ELSE j <= Len(path) /\ NameFits(parts[i], path[j]) /\ fits[i + 1, j + 1]
    IN  fits[1, 1]

\* A pattern of whole parts: ** is a part of its own, and no part is empty.
WholeParts(p) ==
    \A k \in DOMAIN Split(p) :
        LET part == Split(p)[k] IN
        /\ part # <<>>
        /\ part # Anywhere => \A i \in 1..(Len(part) - 1) : SubSeq(part, i, i + 1) # Anywhere

\* A pattern whose ** are whole parts finds exactly the files that fit it name
\* by name, from the directory searched or from the workspace, of those outside
\* the directories that are skipped (glob.ts:29-107).
GlobFitsNames ==
    search.tool = "glob" /\ GlobParses(search.pattern) /\ WholeParts(search.pattern) =>
        LET parts == Split(search.pattern)
            root == search.root
            found == Globbed(search.pattern, root)
            list == GlobShown(Cardinality(found), search.max)
        IN  /\ found = {path \in Walked(root) :
                           \/ PathFits(parts, path)
                           \/ PathFits(parts, SubSeq(path, Len(root) + 1, Len(path)))}
            /\ list.shown + list.omitted = Cardinality(found)

\* grep shows the matches in rg's order up to the number asked for, says so when
\* there are more, and shows once every line of context of the matches it shows,
\* also of those before the first (grep.ts:155-209).
GrepShowsMatches ==
    search.tool = "grep" =>
        LET items == RgOutput(search)
            result == ParseRgJson(items, search.max)
            Matches(list) == SelectSeq(list, LAMBDA i : i.type = "match")
            shown == Matches(result.lines)
            files == ParsePlain(FilesWithMatches(search), search.max)
        IN  /\ IsPrefix(shown, Matches(items))
            /\ Len(shown) = Len(Matches(items)) \/ Len(shown) = search.max
            /\ result.truncated <=> Len(shown) < Len(Matches(items))
            /\ \A i \in ToSet(items) :
                 i.type = "context"
                   /\ (\E m \in ToSet(shown) : m.file = i.file /\ m.line - search.before <= i.line
                                                 /\ i.line <= m.line + search.after)
                   => i \in ToSet(result.lines)
            /\ IsInjective(result.lines)
            /\ files.truncated <=> Len(files.lines) < Len(FilesWithMatches(search))

SearchShowsAll == GlobFitsNames /\ GrepShowsMatches
===============================================================================
