------------------------------ MODULE PathBoundary ------------------------------
(***************************************************************************)
(* WorkspacePathBoundary (workspace/pathBoundary.ts) over a file tree with  *)
(* links: which paths the file tools accept, and where they lead.  Paths    *)
(* are sequences of names; one name after the other is added.               *)
(***************************************************************************)
EXTENDS Integers, Sequences, SequencesExt, FiniteSets

CONSTANTS
    FileTree,       \* [absolute path -> [kind, target]]
    Root,           \* the workspace
    Names,          \* names an input is made of, "..", "." and "~" among them
    SensitiveNames, \* file names that are never touched
    DottedNames,    \* names that begin with two dots
    MaxNames,       \* bound: names in a path
    MaxHops         \* bound: links and names a lookup follows

ASSUME BoundaryAssumption ==
    /\ {MaxNames, MaxHops} \subseteq Nat
    /\ Root \in DOMAIN FileTree /\ FileTree[Root].kind = "dir"

Nowhere == <<"nowhere">>

-----------------------------------------------------------------------------
(* The file system, as node:fs and node:path see it.                        *)

Lookup(s) ==
    IF s.todo = <<>> THEN s
    ELSE LET here == Append(s.done, Head(s.todo))
             rest == Tail(s.todo)
         IN  IF here \notin DOMAIN FileTree \/ (FileTree[here].kind = "file" /\ rest # <<>>)
             THEN [done |-> Nowhere, todo |-> <<>>]
             ELSE IF FileTree[here].kind = "link"
             THEN [done |-> <<>>, todo |-> FileTree[here].target \o rest]
             ELSE [done |-> here, todo |-> rest]

\* realpath; a lookup that does not end is a loop of links.
RealPath(path) ==
    LET end == FoldLeft(LAMBDA s, k : Lookup(s), [done |-> <<>>, todo |-> path],
                        [k \in 1..MaxHops |-> k])
    IN  IF end.todo = <<>> THEN end.done ELSE Nowhere

ParentOf(path) == SubSeq(path, 1, Len(path) - 1)

\* lstat, which follows every link but the last.
Exists(path) ==
    \/ path = <<>>
    \/ /\ RealPath(ParentOf(path)) # Nowhere
       /\ Append(RealPath(ParentOf(path)), Last(path)) \in DOMAIN FileTree

\* resolve: dots are taken out of the text.
Resolve(path) ==
    FoldLeft(LAMBDA done, name :
                 CASE name = "." -> done
                   [] name = ".." -> IF done = <<>> THEN done ELSE ParentOf(done)
                   [] OTHER -> Append(done, name),
             <<>>, path)

-----------------------------------------------------------------------------
(* The boundary.                                                            *)

ToAbsolute(input) == Resolve(IF input.absolute THEN input.names ELSE Root \o input.names)

ValidateRawPath(input) ==
    /\ input.absolute \/ input.names # <<>>
    /\ ~(~input.absolute /\ input.names[1] = "~")

\* assertContained asks that the relative path does not begin with "..", which
\* refuses a name in the root that begins with two dots as well.
AssertContained(path) ==
    /\ IsPrefix(Root, path)
    /\ Len(path) > Len(Root) => path[Len(Root) + 1] \notin DottedNames

RelativeFor(path) == SubSeq(path, Len(Root) + 1, Len(path))

IsSensitiveRelativePath(path) ==
    path # <<>> /\ (Last(path) \in SensitiveNames \/ Contains(path, ".ssh"))

Denied == [ok |-> FALSE, real |-> Nowhere, path |-> Nowhere]
Allowed(real, path) == [ok |-> TRUE, real |-> real, path |-> path]

ResolveForRead(input) ==
    LET path == ToAbsolute(input)
        real == RealPath(path)
    IN  IF /\ ValidateRawPath(input) /\ AssertContained(path)
           /\ real # Nowhere /\ AssertContained(real)
           /\ ~IsSensitiveRelativePath(RelativeFor(real))
        THEN Allowed(real, path) ELSE Denied

\* The longest part of the path that is there.
DeepestExistingAncestor(path) ==
    SubSeq(path, 1, Max({n \in 0..Len(path) : Exists(SubSeq(path, 1, n))}))

\* Wrong: only the text of a new path is looked at.
ResolveNewByText(path) ==
    IF AssertContained(path) /\ ~IsSensitiveRelativePath(RelativeFor(path))
    THEN Allowed(Nowhere, path) ELSE Denied

ResolveNew(path) ==
    LET ancestor == RealPath(DeepestExistingAncestor(path))
    IN  IF /\ ancestor # Nowhere /\ AssertContained(ancestor)
           /\ AssertContained(path) /\ ~IsSensitiveRelativePath(RelativeFor(path))
        THEN Allowed(Nowhere, path) ELSE Denied

ResolveForWrite(input) ==
    LET path == ToAbsolute(input)
        existing == RealPath(path)
    IN  IF ~ValidateRawPath(input) THEN Denied
        ELSE IF existing = Nowhere THEN ResolveNew(path)
        ELSE IF AssertContained(existing) /\ ~IsSensitiveRelativePath(RelativeFor(existing))
        THEN Allowed(existing, path) ELSE Denied

\* No path, or an empty one, means the workspace.
ResolveSearchRoot(input) ==
    IF ~input.absolute /\ input.names = <<>> THEN Allowed(Root, Root) ELSE ResolveForRead(input)

\* WorkspaceFs: what a read returns and where a write ends, which makes the
\* directories that are missing.
ReadTextFile(input) ==
    LET r == ResolveForRead(input)
    IN  IF r.ok /\ FileTree[r.real].kind = "file" THEN r.real ELSE Nowhere

WriteTextFile(input) ==
    LET w == ResolveForWrite(input)
        base == DeepestExistingAncestor(w.path)
    IN  IF ~w.ok THEN Nowhere
        ELSE IF w.real # Nowhere THEN w.real
        ELSE RealPath(base) \o SubSeq(w.path, Len(base) + 1, Len(w.path))

\* SandboxPolicy.checkFileAccesses: all that a call declares.
CheckFileAccesses(reads, writes) ==
    /\ \A r \in Range(reads) : ResolveForRead(r).ok
    /\ \A w \in Range(writes) : ResolveForWrite(w).ok

-----------------------------------------------------------------------------
VARIABLE asked

BoundaryInit == asked \in [absolute : BOOLEAN, names : {<<>>}]
BoundaryNext ==
    /\ Len(asked.names) < MaxNames
    /\ \E n \in Names : asked' = [asked EXCEPT !.names = Append(@, n)]

\* Whatever a path looks like and whichever links it goes through, what is read,
\* searched or written lies in the workspace and is no sensitive file; what
\* may be read may be written in the same place, and a call whose declared
\* accesses were accepted is not refused the same path (pathBoundary.ts:24-74).
PathsStayInside ==
    LET inside(path) == IsPrefix(Root, path) /\ ~IsSensitiveRelativePath(RelativeFor(path))
        search == ResolveSearchRoot(asked)
    IN  /\ ReadTextFile(asked) # Nowhere => inside(ReadTextFile(asked))
        /\ search.ok => inside(search.real) /\ FileTree[search.real].kind # "link"
        /\ WriteTextFile(asked) # Nowhere => inside(WriteTextFile(asked))
        /\ ReadTextFile(asked) # Nowhere => WriteTextFile(asked) = ReadTextFile(asked)
        /\ CheckFileAccesses(<<asked>>, <<asked>>) =>
              ResolveForRead(asked).real = ResolveForWrite(asked).real
=============================================================================
