-------------------------------- MODULE Records_proofs ------------------------
(***************************************************************************)
(* Proofs about what is written down: what sessions leave on disk, the     *)
(* summary of a run with one prompt, the records of a provider proxy, and  *)
(* the results of a matrix of jobs.                                        *)
(***************************************************************************)
EXTENDS SessionFiles, OneShot, ProviderProxy, MatrixRuns, Projection_proofs,
        FiniteSetTheorems, SequenceTheorems, TLAPS

-------------------------------------------------------------------------------
(***************************************************************************)
(* Session files (SessionFiles): nothing that was written is silently lost,*)
(* metadata and index tell of logged events only, and a resumed session    *)
(* uses no id again.                                                       *)
(***************************************************************************)
FileOf(S) == [lines : Seq(S \union {Torn}), tail : S \union {Nil, Torn}]

FilesTypeOK ==
    /\ logFile \in [Sessions -> FileOf(StoredEvent)]
    /\ metadata \in [Sessions -> Metadata \union {Nil}]
    /\ \A s \in Sessions : metadata[s] # Nil => metadata[s].session = s
    /\ index \in FileOf(Metadata)
    /\ proc \in [Procs -> Process \union {Nil}]
    /\ clock \in Nat /\ faults \in Nat
    /\ acknowledged \in [Sessions -> SUBSET StoredEvent]
    /\ failed \subseteq Sessions /\ shared \subseteq Sessions

Runs(p) == proc[p] # Nil
Works(p, s) == Runs(p) /\ proc[p].plan.session = s
Writes(p) == Runs(p) /\ proc[p].writing # Nil

-------------------------------------------------------------------------------
(* The event a process is writing is new, and so is a whole unfinished line. *)
WritesAreNew ==
    /\ \A s \in Sessions : \A e \in acknowledged[s] : e.time <= clock
    /\ \A p \in Procs : Writes(p) =>
          /\ proc[p].writing.time <= clock
          /\ \A s \in Sessions : proc[p].writing \notin acknowledged[s]
          /\ \A q \in Procs : q # p /\ Writes(q) =>
                proc[q].writing.time # proc[p].writing.time
    /\ \A s \in Sessions : logFile[s].tail \notin acknowledged[s]

LossInv == FilesTypeOK /\ WritesAreNew /\ NothingSilentlyLost

-------------------------------------------------------------------------------
(* Updates.  A session that is not shared has one process at most, and its  *)
(* metadata, the update under way, its queue and its write are in order.    *)
Logged(s, time) == \E e \in acknowledged[s] : e.time = time

UpdatesAreLogged ==
    /\ \A p \in Procs : Runs(p) =>
          /\ \A i \in DOMAIN proc[p].queue :
                proc[p].queue[i] \in acknowledged[proc[p].plan.session]
          /\ proc[p].updating # Nil =>
                Logged(proc[p].plan.session, proc[p].plan.updatedAt)
    /\ \A s \in Sessions : metadata[s] # Nil => Logged(s, metadata[s].updatedAt)
    /\ \A m \in IndexEntries : Logged(m.session, m.updatedAt)

OneWorks ==
    \A s \in Sessions \ shared : \A p, q \in Procs :
        Works(p, s) /\ Works(q, s) => p = q

\* What a process w still has to do for its session is later than time.
ComesAfter(w, time) ==
    /\ \A i \in DOMAIN w.queue : time <= w.queue[i].time
    /\ w.writing # Nil => time <= w.writing.time

QueueInOrder(w) ==
    /\ \A i, j \in DOMAIN w.queue : i < j => w.queue[i].time <= w.queue[j].time
    /\ w.writing # Nil =>
          \A i \in DOMAIN w.queue : w.queue[i].time <= w.writing.time

Ahead(w, meta) ==
    /\ QueueInOrder(w)
    /\ w.updating # Nil => ComesAfter(w, w.plan.updatedAt)
    /\ meta # Nil => ComesAfter(w, meta.updatedAt)
    /\ meta # Nil /\ w.updating # Nil => meta.updatedAt <= w.plan.updatedAt
    /\ w.updating = "index" => meta = w.plan

MetadataIsAhead ==
    /\ \A p \in Procs : Runs(p) /\ proc[p].plan.session \notin shared =>
          Ahead(proc[p], metadata[proc[p].plan.session])
    /\ \A m \in IndexEntries : m.session \notin shared =>
          /\ metadata[m.session] # Nil
          /\ m.updatedAt <= metadata[m.session].updatedAt

ListInv == UpdatesAreLogged /\ OneWorks /\ MetadataIsAhead

-------------------------------------------------------------------------------
(* Ids.  A process has given no id above nextId, and the lines of a log that *)
(* can be read are at least as many as the ids given.                        *)
Undisturbed == Sessions \ (failed \union shared)

IdsUpTo(file, n) ==
    \A i \in DOMAIN file.lines : file.lines[i] # Torn => file.lines[i].id <= n

IdsFresh(file) ==
    \A i, j \in DOMAIN file.lines :
        i < j /\ file.lines[i] # Torn /\ file.lines[j] # Torn /\ file.lines[i].id # 0 =>
            file.lines[i].id # file.lines[j].id

Giving(w) == w.writing # Nil /\ w.writing.id # 0

Numbers(w, file) ==
    /\ IdsUpTo(file, IF Giving(w) THEN w.nextId - 1 ELSE w.nextId)
    /\ Giving(w) => w.writing.id = w.nextId /\ w.started
    /\ w.started => file.tail = Nil
    /\ Readable(file) /\ file.tail = Nil =>
          w.nextId <= Len(file.lines) + (IF w.started /\ ~ Giving(w) THEN 0 ELSE 1)

IdsInv ==
    \A s \in Undisturbed :
        /\ IdsFresh(logFile[s])
        /\ Readable(logFile[s]) => IdsUpTo(logFile[s], Len(logFile[s].lines))
        /\ \A p \in Procs : Works(p, s) => Numbers(proc[p], logFile[s])

FilesInv == LossInv /\ ListInv /\ IdsInv

-------------------------------------------------------------------------------
(***************************************************************************)
(* Files                                                                   *)
(***************************************************************************)
LEMMA ConstantsDiffer ==
    /\ Nil \notin StoredEvent /\ Torn \notin StoredEvent
    /\ Nil \notin Metadata /\ Torn \notin Metadata
    /\ Nil \notin Process /\ Nil # "metadata" /\ Nil # "index" /\ Torn # Nil
  BY FilesAssumption DEF Files

LEMMA WithLineIs ==
    ASSUME NEW S, NEW file \in FileOf(S), NEW e \in S
    PROVE  /\ WithLine(file, e) \in FileOf(S)
           /\ WithLine(file, e).tail = Nil
           /\ Len(WithLine(file, e).lines) = Len(file.lines) + 1
           /\ \A i \in 1..Len(file.lines) :
                 WithLine(file, e).lines[i] = file.lines[i]
           /\ WithLine(file, e).lines[Len(file.lines) + 1] =
                 IF file.tail = Nil THEN e ELSE Torn
<1>1. PICK l : l = file.lines
  OBVIOUS
<1>2. PICK x : x = IF file.tail = Nil THEN e ELSE Torn
  OBVIOUS
<1>3. l \in Seq(S \union {Torn}) /\ x \in S \union {Torn}
  BY <1>1, <1>2 DEF FileOf
<1>4. /\ Append(l, x) \in Seq(S \union {Torn})
      /\ Len(Append(l, x)) = Len(l) + 1
      /\ \A i \in 1..Len(l) : Append(l, x)[i] = l[i]
      /\ Append(l, x)[Len(l) + 1] = x
  BY <1>3
<1>5. WithLine(file, e) = [lines |-> Append(l, x), tail |-> Nil]
  BY <1>1, <1>2 DEF WithLine
<1> QED
  BY <1>1, <1>2, <1>4, <1>5 DEF FileOf

\* An append that is cut short writes nothing but perhaps the line.
SameLines(file, new, e) ==
    /\ new.lines = file.lines
    /\ \/ new.tail = file.tail
       \/ new.tail = Torn
       \/ file.tail = Nil /\ new.tail = e

LEMMA CutShortIs ==
    ASSUME NEW S, NEW file \in FileOf(S), NEW e \in S,
           NEW new \in CutShort(file, e)
    PROVE  /\ new \in FileOf(S)
           /\ SameLines(file, new, e) \/ new = WithLine(file, e)
<1>1. CASE new = WithLine(file, e)
  BY <1>1, WithLineIs
<1>2. CASE new = file
  BY <1>2 DEF SameLines
<1>3. CASE new = [file EXCEPT !.tail = Torn]
  BY <1>3 DEF FileOf, SameLines
<1>4. CASE new = [file EXCEPT !.tail = IF @ = Nil THEN e ELSE Torn]
  BY <1>4 DEF FileOf, SameLines
<1> QED
  BY <1>1, <1>2, <1>3, <1>4 DEF CutShort

\* What is read: the lines, and the last one even without its newline.
Whole(file) == {file.tail} \ {Nil, Torn}

LEMMA EventsAre ==
    ASSUME NEW S, NEW file \in FileOf(S)
    PROVE  /\ Range(file.lines \o LastLine(file)) = Range(file.lines) \union Whole(file)
           /\ Len(file.lines \o LastLine(file)) \in Nat
           /\ Len(file.lines \o LastLine(file)) >= Len(file.lines)
           /\ file.tail = Nil =>
                 Len(file.lines \o LastLine(file)) = Len(file.lines)
<1>1. PICK l : l = file.lines
  OBVIOUS
<1>2. PICK t : t = LastLine(file)
  OBVIOUS
<1>3. l \in Seq(S \union {Torn})
  BY <1>1 DEF FileOf
<1>4. CASE file.tail \in {Nil, Torn}
  <2>1. t = <<>> /\ Whole(file) = {}
    BY <1>2, <1>4 DEF LastLine, Whole
  <2>2. l \o t = l
    BY <1>3, <2>1
  <2> QED
    BY <1>1, <1>2, <1>3, <2>1, <2>2
<1>5. CASE file.tail \notin {Nil, Torn}
  <2>1. t = <<file.tail>> /\ Whole(file) = {file.tail} /\ file.tail \in S
    BY <1>2, <1>5 DEF LastLine, Whole, FileOf
  <2>2. PICK x : x = file.tail
    OBVIOUS
  <2>3. t = <<x>> /\ t \in Seq(S \union {Torn}) /\ Len(t) = 1 /\ t[1] = x
    BY <2>1, <2>2
  <2>4. PICK n \in Nat : n = Len(l)
    BY <1>3
  <2>5. /\ Len(l \o t) = n + 1 /\ DOMAIN (l \o t) = 1..(n + 1)
        /\ DOMAIN l = 1..n
        /\ \A i \in 1..n : (l \o t)[i] = l[i]
        /\ (l \o t)[n + 1] = x
    BY <1>3, <2>3, <2>4
  <2>6. Range(l \o t) = Range(l) \union {x}
    BY <2>4, <2>5 DEF Range
  <2> QED
    BY <1>1, <1>2, <1>5, <2>1, <2>2, <2>4, <2>5, <2>6
<1> QED
  BY <1>4, <1>5

-------------------------------------------------------------------------------
(***************************************************************************)
(* Type correctness                                                        *)
(***************************************************************************)
LEMMA ListedAreEntries ==
    ASSUME FilesTypeOK
    PROVE  Listed \subseteq IndexEntries /\ IndexEntries \subseteq Metadata
<1>1. Listed \subseteq IndexEntries
  BY DEF Listed, IndexEntries, Range
<1>2. Range(index.lines) \subseteq Metadata \union {Torn}
  <2>1. PICK l : l = index.lines
    OBVIOUS
  <2>2. l \in Seq(Metadata \union {Torn})
    BY <2>1 DEF FilesTypeOK, FileOf
  <2>3. \A i \in DOMAIN l : l[i] \in Metadata \union {Torn}
    BY <2>2
  <2> QED
    BY <2>1, <2>3 DEF Range
<1>3. Whole(index) \subseteq Metadata
  BY DEF FilesTypeOK, FileOf, Whole
<1>4. Range(IndexLines) = Range(index.lines) \union Whole(index)
  BY EventsAre DEF FilesTypeOK, IndexLines
<1> QED
  BY <1>1, <1>2, <1>3, <1>4 DEF IndexEntries

\* A process opens a session that is new, or one whose log it has read.
Opens(p) == (\E s \in Sessions : StartFresh(p, s) \/ ResumeId(p, s)) \/ ResumeLast(p)

OpensNew(p, m, seed) ==
    /\ seed = 0
    /\ logFile[m.session] = EmptyFile
    /\ \A q \in Procs : ~ Works(q, m.session)

OpensOld(p, m, seed) ==
    /\ Readable(logFile[m.session])
    /\ seed = Len(Events(logFile[m.session])) + 1

LEMMA OpensOne ==
    ASSUME FilesTypeOK, NEW p \in Procs, Opens(p)
    PROVE  \E m \in Metadata, seed \in Nat :
              /\ proc[p] = Nil /\ Open(p, m, seed)
              /\ OpensNew(p, m, seed) \/ OpensOld(p, m, seed)
<1>1. CASE \E s \in Sessions : StartFresh(p, s)
  <2>1. PICK s \in Sessions : StartFresh(p, s)
    BY <1>1
  <2>2. NewMetadata(s) \in Metadata /\ NewMetadata(s).session = s
    BY DEF NewMetadata, Metadata
  <2> QED
    BY <2>1, <2>2 DEF StartFresh, OpensNew, Works, Runs
<1>2. ASSUME NEW m \in Metadata, Resume(p, m)
      PROVE  \E seed \in Nat :
                /\ proc[p] = Nil /\ Open(p, m, seed)
                /\ OpensOld(p, m, seed)
  <2>1. m.session \in Sessions
    BY DEF Metadata
  <2>2. logFile[m.session] \in FileOf(StoredEvent)
    BY <2>1 DEF FilesTypeOK
  <2>3. Len(Events(logFile[m.session])) \in Nat
    BY <2>2, EventsAre DEF Events
  <2> QED
    BY <1>2, <2>3 DEF Resume, OpensOld
<1>3. CASE \E s \in Sessions : ResumeId(p, s)
  <2>1. PICK s \in Sessions : ResumeId(p, s)
    BY <1>3
  <2>2. metadata[s] \in Metadata
    BY <2>1 DEF ResumeId, Resume, FilesTypeOK
  <2> QED
    BY <1>2, <2>1, <2>2 DEF ResumeId
<1>4. CASE ResumeLast(p)
  BY <1>2, <1>4, ListedAreEntries DEF ResumeLast
<1> QED
  BY <1>1, <1>3, <1>4 DEF Opens

LEMMA FilesTypesInit == FilesInit => FilesTypeOK
<1>1. EmptyFile \in FileOf(StoredEvent) /\ EmptyFile \in FileOf(Metadata)
  BY DEF EmptyFile, FileOf
<1> QED
  BY <1>1 DEF FilesInit, FilesTypeOK

\* The work of a process that runs.
Act(p) ==
    \/ BeginWrite(p) \/ WriteReturns(p) \/ WriteFails(p)
    \/ HandleEvent(p) \/ ReplaceMetadata(p) \/ AppendIndex(p) \/ UpdateFails(p)
    \/ Crash(p) \/ Exit(p)

LEMMA StepActions ==
    ASSUME FilesNext
    PROVE  \E p \in Procs : Opens(p) \/ Act(p)
  BY DEF FilesNext, Opens, Act

LEMMA ProcessTypes ==
    ASSUME FilesTypeOK, NEW p \in Procs, Runs(p)
    PROVE  /\ proc[p] \in Process
           /\ proc[p].plan \in Metadata /\ proc[p].plan.session \in Sessions
           /\ logFile[proc[p].plan.session] \in FileOf(StoredEvent)
           /\ Writes(p) => proc[p].writing \in StoredEvent
  BY DEF FilesTypeOK, Runs, Writes, Process, Metadata

LEMMA PatchedTypes ==
    ASSUME NEW m \in Metadata, NEW e \in StoredEvent
    PROVE  /\ Patched(m, e) \in Metadata
           /\ Patched(m, e).session = m.session
           /\ e.kind # "other" => Patched(m, e).updatedAt = e.time
           /\ e.kind = "other" => Patched(m, e) = m
  BY DEF Patched, Metadata, StoredEvent, EventKinds

LEMMA QueueTypes ==
    ASSUME NEW q \in Seq(StoredEvent), NEW e \in StoredEvent
    PROVE  Append(q, e) \in Seq(StoredEvent)
  OBVIOUS

LEMMA WrittenTypes ==
    ASSUME NEW w \in Process, NEW kind \in EventKinds, NEW time \in Nat, NEW id \in Nat,
           NEW n \in Nat, NEW e, e = [kind |-> kind, time |-> time, id |-> id]
    PROVE  /\ e \in StoredEvent
           /\ [w EXCEPT !.writing = e, !.nextId = n] \in Process
<1>1. e \in StoredEvent
  BY DEF StoredEvent
<1> QED
  BY <1>1 DEF Process

\* A write begins with a new event e, whose id is above n or none.
BeginsWith(p, e, n) ==
    /\ proc' = [proc EXCEPT ![p] = [proc[p] EXCEPT !.writing = e, !.nextId = n]]
    /\ clock' = clock + 1 /\ e.time = clock + 1
    /\ \/ e.id = 0 /\ n = proc[p].nextId
       \/ e.id = proc[p].nextId + 1 /\ n = e.id /\ proc[p].started

LEMMA BeginWriteIs ==
    ASSUME FilesTypeOK, NEW p \in Procs, Runs(p), BeginWrite(p)
    PROVE  \E e \in StoredEvent, n \in Nat : BeginsWith(p, e, n)
<1>1. PICK w \in Process : w = proc[p]
  BY ProcessTypes
<1>2. w.nextId \in Nat /\ clock + 1 \in Nat /\ clock' = clock + 1
  BY DEF Process, FilesTypeOK, BeginWrite
<1>3. PICK kind \in EventKinds :
         /\ (kind = "session.started") <=> ~ w.started
         /\ proc' = [proc EXCEPT
               ![p].writing = [kind |-> kind, time |-> clock + 1,
                               id |-> IF kind = "user.message" THEN w.nextId + 1 ELSE 0],
               ![p].nextId = IF (IF kind = "user.message" THEN w.nextId + 1 ELSE 0) = 0
                             THEN w.nextId
                             ELSE IF kind = "user.message" THEN w.nextId + 1 ELSE 0]
  BY <1>1 DEF BeginWrite
<1>4. PICK id \in Nat : id = IF kind = "user.message" THEN w.nextId + 1 ELSE 0
  BY <1>2
<1>5. PICK n \in Nat : n = IF id = 0 THEN w.nextId ELSE id
  BY <1>2
<1>6. PICK e : e = [kind |-> kind, time |-> clock + 1, id |-> id]
  OBVIOUS
<1>7. e \in StoredEvent
  BY <1>1, <1>2, <1>6, WrittenTypes
<1>8. proc' = [proc EXCEPT ![p].writing = e, ![p].nextId = n]
  BY <1>3, <1>4, <1>5, <1>6
<1>9. proc' = [proc EXCEPT ![p] = [proc[p] EXCEPT !.writing = e, !.nextId = n]]
  BY <1>8
<1>10. id = 0 \/ (id = w.nextId + 1 /\ w.started)
  <2>1. kind = "user.message" => w.started
    BY <1>1, <1>3 DEF Process
  <2> QED
    BY <1>4, <2>1
<1> QED
  BY <1>1, <1>2, <1>5, <1>6, <1>7, <1>9, <1>10 DEF BeginsWith

LEMMA FilesTypesStep ==
    ASSUME FilesTypeOK, FilesNext
    PROVE  FilesTypeOK'
<1> USE DEF FilesTypeOK
<1>1. PICK p \in Procs : Opens(p) \/ Act(p)
  BY StepActions
<1>2. CASE Opens(p)
  <2>1. PICK m \in Metadata, seed \in Nat : Open(p, m, seed)
    BY <1>2, OpensOne
  <2>2. Opened(m, seed) \in Process
    BY DEF Opened, Process
  <2>3. m.session \in Sessions
    BY DEF Metadata
  <2> QED
    BY <2>1, <2>2, <2>3 DEF Open
<1>3. CASE Act(p)
  <2>1. Runs(p)
    BY <1>3 DEF Act, BeginWrite, WriteReturns, WriteFails, HandleEvent,
       ReplaceMetadata, AppendIndex, UpdateFails, Crash, Exit, Runs
  <2>2. PICK w : w = proc[p]
    OBVIOUS
  <2>3. w \in Process
    BY <2>1, <2>2, ProcessTypes
  <2>4. PICK s \in Sessions : s = w.plan.session
    BY <2>1, <2>2, ProcessTypes
  <2>a. CASE BeginWrite(p)
    <3>1. PICK e \in StoredEvent, n \in Nat : BeginsWith(p, e, n)
      BY <2>1, <2>a, BeginWriteIs
    <3>2. [w EXCEPT !.writing = e, !.nextId = n] \in Process
      BY <2>3 DEF Process
    <3>3. UNCHANGED <<logFile, metadata, index, faults, acknowledged, failed, shared>>
      BY <2>a DEF BeginWrite
    <3> QED
      BY <2>2, <3>1, <3>2, <3>3 DEF BeginsWith
  <2>b. CASE WriteReturns(p)
    <3>1. w.writing \in StoredEvent
      BY <2>b, <2>2, <2>3 DEF WriteReturns, Process
    <3>2. w.queue \in Seq(StoredEvent)
      BY <2>3 DEF Process
    <3>4. PICK q \in Seq(StoredEvent) : q = Append(w.queue, w.writing)
      BY <3>1, <3>2, QueueTypes
    <3>5. [w EXCEPT !.writing = Nil, !.started = TRUE, !.queue = q] \in Process
      BY <2>3 DEF Process
    <3>6. proc' = [proc EXCEPT ![p] =
                      [w EXCEPT !.writing = Nil, !.started = TRUE, !.queue = q]]
      BY <2>b, <2>2, <3>4 DEF WriteReturns
    <3>3. WithLine(logFile[s], w.writing) \in FileOf(StoredEvent)
      BY <3>1, WithLineIs
    <3> QED
      BY <2>b, <2>2, <2>4, <3>1, <3>3, <3>5, <3>6 DEF WriteReturns
  <2>c. CASE WriteFails(p)
    <3>1. w.writing \in StoredEvent
      BY <2>c, <2>2, <2>3 DEF WriteFails, Process
    <3>2. [w EXCEPT !.writing = Nil] \in Process
      BY <2>3 DEF Process
    <3>3. PICK file \in CutShort(logFile[s], w.writing) : logFile' = [logFile EXCEPT ![s] = file]
      BY <2>c, <2>2, <2>4 DEF WriteFails
    <3>4. file \in FileOf(StoredEvent)
      BY <3>1, <3>3, CutShortIs
    <3> QED
      BY <2>c, <2>2, <2>4, <3>2, <3>3, <3>4 DEF WriteFails
  <2>d. CASE HandleEvent(p)
    <3>1. w.queue \in Seq(StoredEvent) /\ w.queue # <<>>
      BY <2>d, <2>2, <2>3 DEF HandleEvent, Process
    <3>2. Head(w.queue) \in StoredEvent /\ Tail(w.queue) \in Seq(StoredEvent)
      BY <3>1
    <3>3. w.plan \in Metadata
      BY <2>3 DEF Process
    <3>4. Patched(w.plan, Head(w.queue)) \in Metadata
      BY <3>2, <3>3, PatchedTypes
    <3>5. \A u \in Files \union {Nil} : \A shown \in Metadata :
             [w EXCEPT !.queue = Tail(@), !.plan = shown, !.updating = u] \in Process
      BY <2>3, <3>2 DEF Process
    <3> QED
      BY <2>d, <2>2, <3>4, <3>5 DEF HandleEvent, Files
  <2>e. CASE ReplaceMetadata(p)
    <3>1. [w EXCEPT !.updating = "index"] \in Process /\ w.plan \in Metadata
      BY <2>3 DEF Process, Files
    <3> QED
      BY <2>e, <2>2, <3>1 DEF ReplaceMetadata
  <2>f. CASE AppendIndex(p)
    <3>1. [w EXCEPT !.updating = Nil] \in Process /\ w.plan \in Metadata
      BY <2>3 DEF Process
    <3>2. WithLine(index, w.plan) \in FileOf(Metadata)
      BY <3>1, WithLineIs
    <3> QED
      BY <2>f, <2>2, <3>1, <3>2 DEF AppendIndex
  <2>g. CASE UpdateFails(p)
    <3>1. [w EXCEPT !.updating = Nil] \in Process /\ w.plan \in Metadata
      BY <2>3 DEF Process
    <3>2. index' \in FileOf(Metadata)
      BY <2>g, <2>2, <3>1, CutShortIs DEF UpdateFails
    <3> QED
      BY <2>g, <2>2, <3>1, <3>2 DEF UpdateFails
  <2>h. CASE Crash(p)
    <3>1. w.plan \in Metadata
      BY <2>3 DEF Process
    <3>2. index' \in FileOf(Metadata)
      BY <2>h, <2>2, <3>1, CutShortIs DEF Crash
    <3>3. logFile' \in [Sessions -> FileOf(StoredEvent)]
      <4>1. CASE w.writing = Nil
        BY <2>h, <2>2, <4>1 DEF Crash
      <4>2. CASE w.writing # Nil
        <5>1. w.writing \in StoredEvent
          BY <2>3, <4>2 DEF Process
        <5>2. PICK file \in CutShort(logFile[s], w.writing) : logFile' = [logFile EXCEPT ![s] = file]
          BY <2>h, <2>2, <2>4, <4>2 DEF Crash
        <5>3. file \in FileOf(StoredEvent)
          BY <5>1, <5>2, CutShortIs
        <5> QED
          BY <5>2, <5>3
      <4> QED
        BY <4>1, <4>2
    <3> QED
      BY <2>h, <3>2, <3>3 DEF Crash
  <2>i. CASE Exit(p)
    BY <2>i DEF Exit
  <2> QED
    BY <1>3, <2>a, <2>b, <2>c, <2>d, <2>e, <2>f, <2>g, <2>h, <2>i DEF Act
<1> QED
  BY <1>1, <1>2, <1>3

-------------------------------------------------------------------------------
(***************************************************************************)
(* Nothing is silently lost                                                *)
(***************************************************************************)
(* What an action does to the logs and to what is being written.            *)
Others(p) == \A q \in Procs \ {p} : proc'[q] = proc[q]

Begins(p) ==
    /\ UNCHANGED <<logFile, acknowledged>>
    /\ clock' = clock + 1
    /\ proc'[p] # Nil /\ proc'[p].writing.time = clock + 1

Stores(p) ==
    /\ Writes(p)
    /\ UNCHANGED clock
    /\ logFile' = [logFile EXCEPT ![proc[p].plan.session] =
                       WithLine(@, proc[p].writing)]
    /\ acknowledged' = [acknowledged EXCEPT ![proc[p].plan.session] =
                            @ \union {proc[p].writing}]
    /\ ~ Writes(p)'

Cuts(p) ==
    /\ Writes(p)
    /\ UNCHANGED <<clock, acknowledged>>
    /\ \E file \in CutShort(logFile[proc[p].plan.session], proc[p].writing) :
          logFile' = [logFile EXCEPT ![proc[p].plan.session] = file]
    /\ ~ Writes(p)'

Leaves(p) ==
    /\ UNCHANGED <<logFile, clock, acknowledged>>
    /\ Writes(p)' => Writes(p) /\ proc'[p].writing = proc[p].writing

LEMMA LogMoves ==
    ASSUME FilesTypeOK, NEW p \in Procs, Opens(p) \/ Act(p)
    PROVE  /\ Others(p)
           /\ Begins(p) \/ Stores(p) \/ Cuts(p) \/ Leaves(p)
<1>1. CASE Opens(p)
  <2>1. PICK m \in Metadata, seed \in Nat : Open(p, m, seed)
    BY <1>1, OpensOne
  <2>2. proc'[p] = Opened(m, seed) /\ Others(p)
    BY <2>1 DEF Open, Others, FilesTypeOK
  <2> QED
    BY <2>1, <2>2 DEF Open, Leaves, Writes, Opened
<1>2. CASE BeginWrite(p)
  <2>1. /\ proc[p] \in Process
        /\ UNCHANGED <<logFile, acknowledged>> /\ clock' = clock + 1
    BY <1>2 DEF BeginWrite, FilesTypeOK
  <2>2. PICK e \in StoredEvent, n \in Nat : BeginsWith(p, e, n)
    BY <1>2, BeginWriteIs DEF BeginWrite, Runs
  <2>3. /\ proc'[p] = [proc[p] EXCEPT !.writing = e, !.nextId = n] /\ Others(p)
        /\ e.time = clock + 1
    BY <2>2 DEF BeginsWith, Others, FilesTypeOK
  <2>4. proc'[p].writing = e /\ proc'[p] \in Process
    BY <2>1, <2>3 DEF Process
  <2> QED
    BY <2>1, <2>3, <2>4, ConstantsDiffer DEF Begins
<1>3. CASE WriteReturns(p)
  <2>1. Writes(p) /\ proc[p] \in Process
    BY <1>3 DEF WriteReturns, Writes, Runs, FilesTypeOK
  <2>2. Others(p) /\ proc'[p].writing = Nil
    BY <1>3, <2>1 DEF WriteReturns, Others, FilesTypeOK, Process
  <2> QED
    BY <1>3, <2>1, <2>2 DEF WriteReturns, Stores, Writes
<1>4. CASE WriteFails(p)
  <2>1. Writes(p) /\ proc[p] \in Process
    BY <1>4 DEF WriteFails, Writes, Runs, FilesTypeOK
  <2>2. Others(p) /\ proc'[p].writing = Nil
    BY <1>4, <2>1 DEF WriteFails, Others, FilesTypeOK, Process
  <2> QED
    BY <1>4, <2>1, <2>2 DEF WriteFails, Cuts, Writes
<1>5. CASE HandleEvent(p)
  <2>1. Runs(p) /\ proc[p] \in Process
    BY <1>5 DEF HandleEvent, Runs, FilesTypeOK
  <2>2. Others(p) /\ proc'[p].writing = proc[p].writing
    BY <1>5, <2>1 DEF HandleEvent, Others, FilesTypeOK, Process
  <2> QED
    BY <1>5, <2>1, <2>2 DEF HandleEvent, Leaves, Writes
<1>6. CASE ReplaceMetadata(p) \/ AppendIndex(p) \/ UpdateFails(p)
  <2>1. Runs(p) /\ proc[p] \in Process
    BY <1>6 DEF ReplaceMetadata, AppendIndex, UpdateFails, Runs, FilesTypeOK
  <2>2. Others(p) /\ proc'[p].writing = proc[p].writing
    BY <1>6, <2>1 DEF ReplaceMetadata, AppendIndex, UpdateFails, Others,
       FilesTypeOK, Process
  <2> QED
    BY <1>6, <2>1, <2>2 DEF ReplaceMetadata, AppendIndex, UpdateFails, Leaves, Writes
<1>7. CASE Crash(p)
  <2>1. Others(p) /\ proc'[p] = Nil /\ Runs(p)
    BY <1>7 DEF Crash, Others, FilesTypeOK, Runs
  <2>2. CASE proc[p].writing = Nil
    BY <1>7, <2>1, <2>2 DEF Crash, Leaves, Writes, Runs
  <2>3. CASE proc[p].writing # Nil
    BY <1>7, <2>1, <2>3 DEF Crash, Cuts, Writes, Runs
  <2> QED
    BY <2>1, <2>2, <2>3
<1>8. CASE Exit(p)
  <2>1. Others(p) /\ proc'[p] = Nil
    BY <1>8 DEF Exit, Others, FilesTypeOK
  <2> QED
    BY <1>8, <2>1 DEF Exit, Leaves, Writes, Runs
<1> QED
  BY <1>1, <1>2, <1>3, <1>4, <1>5, <1>6, <1>7, <1>8 DEF Act

LEMMA NewStep ==
    ASSUME FilesTypeOK, WritesAreNew, FilesNext
    PROVE  WritesAreNew'
<1>1. PICK p \in Procs : Opens(p) \/ Act(p)
  BY StepActions
<1>2. Others(p)
  BY <1>1, LogMoves
<1>3. \A q \in Procs \ {p} : Writes(q)' => Writes(q) /\ proc'[q].writing = proc[q].writing
  BY <1>2 DEF Others, Writes, Runs
<1>4. CASE Begins(p)
  <2>1. clock \in Nat
    BY DEF FilesTypeOK
  <2>2. proc'[p].writing.time = clock + 1 /\ clock' = clock + 1
        /\ logFile' = logFile /\ acknowledged' = acknowledged
    BY <1>4 DEF Begins
  <2>3. \A s \in Sessions : \A e \in acknowledged[s] : e.time \in Nat /\ e.time <= clock
    BY DEF FilesTypeOK, WritesAreNew, StoredEvent
  <2>4. \A q \in Procs : Writes(q) => proc[q].writing.time \in Nat /\ proc[q].writing.time <= clock
    BY ProcessTypes DEF Writes, WritesAreNew, StoredEvent
  <2>5. \A s \in Sessions : proc'[p].writing \notin acknowledged[s]
    BY <2>1, <2>2, <2>3
  <2>6. \A q \in Procs \ {p} : Writes(q)' =>
           proc'[q].writing.time <= clock /\ proc'[q].writing.time # clock + 1
    BY <1>3, <2>1, <2>4
  <2>7. \A s \in Sessions : \A e \in acknowledged'[s] : e.time <= clock'
    BY <2>1, <2>2, <2>3
  <2>8. \A q \in Procs : Writes(q)' =>
          /\ proc'[q].writing.time <= clock'
          /\ \A s \in Sessions : proc'[q].writing \notin acknowledged'[s]
          /\ \A r \in Procs : r # q /\ Writes(r)' =>
                proc'[r].writing.time # proc'[q].writing.time
    <3> SUFFICES ASSUME NEW q \in Procs, Writes(q)'
                 PROVE  /\ proc'[q].writing.time <= clock'
                        /\ \A s \in Sessions : proc'[q].writing \notin acknowledged'[s]
                        /\ \A r \in Procs : r # q /\ Writes(r)' =>
                              proc'[r].writing.time # proc'[q].writing.time
      OBVIOUS
    <3>1. CASE q = p
      BY <2>1, <2>2, <2>5, <2>6, <3>1
    <3>2. CASE q # p
      <4>1. Writes(q) /\ proc'[q].writing = proc[q].writing
        BY <1>3, <3>2
      <4>2. \A r \in Procs : r # q /\ Writes(r)' =>
               proc'[r].writing.time # proc'[q].writing.time
        BY <1>3, <2>2, <2>6, <3>2, <4>1 DEF WritesAreNew
      <4>3. proc'[q].writing.time <= clock + 1
        BY <2>1, <2>4, <4>1
      <4> QED
        BY <2>2, <4>1, <4>2, <4>3 DEF WritesAreNew
    <3> QED
      BY <3>1, <3>2
  <2>9. \A s \in Sessions : logFile'[s].tail \notin acknowledged'[s]
    BY <2>2 DEF WritesAreNew
  <2> QED
    BY <2>7, <2>8, <2>9 DEF WritesAreNew
<1>5. CASE Stores(p)
  <2>1. PICK s \in Sessions, e \in StoredEvent :
           s = proc[p].plan.session /\ e = proc[p].writing
    BY <1>5, ProcessTypes DEF Stores, Writes
  <2>2. /\ logFile' = [logFile EXCEPT ![s] = WithLine(@, e)]
        /\ acknowledged' = [acknowledged EXCEPT ![s] = @ \union {e}]
        /\ clock' = clock /\ ~ Writes(p)' /\ Writes(p)
    BY <1>5, <2>1 DEF Stores
  <2>3. \A r \in Sessions : \A f \in acknowledged'[r] : f \in acknowledged[r] \/ f = e
    BY <2>2 DEF FilesTypeOK
  <2>4. \A r \in Sessions : \A f \in acknowledged'[r] : f.time <= clock'
    BY <2>1, <2>2, <2>3 DEF WritesAreNew
  <2>5. \A q \in Procs : Writes(q)' =>
          /\ q # p
          /\ proc'[q].writing.time <= clock'
          /\ \A r \in Sessions : proc'[q].writing \notin acknowledged'[r]
    BY <1>3, <2>1, <2>2, <2>3 DEF WritesAreNew
  <2>6. \A q \in Procs : Writes(q)' =>
          \A r \in Procs : r # q /\ Writes(r)' =>
                proc'[r].writing.time # proc'[q].writing.time
    BY <1>3, <2>5 DEF WritesAreNew
  <2>7. \A r \in Sessions : logFile'[r].tail \notin acknowledged'[r]
    <3>1. logFile'[s].tail = Nil /\ acknowledged'[s] \subseteq StoredEvent
      BY <2>2, WithLineIs DEF FilesTypeOK
    <3> QED
      BY <2>2, <3>1, ConstantsDiffer DEF WritesAreNew, FilesTypeOK
  <2> QED
    BY <2>4, <2>5, <2>6, <2>7 DEF WritesAreNew
<1>6. CASE Cuts(p)
  <2>1. PICK s \in Sessions, e \in StoredEvent :
           s = proc[p].plan.session /\ e = proc[p].writing
    BY <1>6, ProcessTypes DEF Cuts, Writes
  <2>2. PICK file \in CutShort(logFile[s], e) : logFile' = [logFile EXCEPT ![s] = file]
    BY <1>6, <2>1 DEF Cuts
  <2>3. clock' = clock /\ acknowledged' = acknowledged /\ ~ Writes(p)' /\ Writes(p)
    BY <1>6 DEF Cuts
  <2>4. \A q \in Procs : Writes(q)' => q # p /\ Writes(q) /\ proc'[q].writing = proc[q].writing
    BY <1>3, <2>3
  <2>5. \A r \in Sessions : logFile'[r].tail \notin acknowledged[r]
    <3>1. logFile[s] \in FileOf(StoredEvent) /\ acknowledged[s] \subseteq StoredEvent
      BY DEF FilesTypeOK
    <3>2. SameLines(logFile[s], file, e) \/ file = WithLine(logFile[s], e)
      BY <2>2, <3>1, CutShortIs
    <3>3. e \notin acknowledged[s] /\ logFile[s].tail \notin acknowledged[s]
      BY <2>1, <2>3 DEF WritesAreNew
    <3>4. file.tail \notin acknowledged[s]
      BY <3>1, <3>2, <3>3, WithLineIs, ConstantsDiffer DEF SameLines
    <3> QED
      BY <2>2, <3>4 DEF FilesTypeOK, WritesAreNew
  <2> QED
    BY <2>3, <2>4, <2>5 DEF WritesAreNew
<1>7. CASE Leaves(p)
  <2>1. \A q \in Procs : Writes(q)' => Writes(q) /\ proc'[q].writing = proc[q].writing
    BY <1>3, <1>7 DEF Leaves
  <2>2. clock' = clock /\ acknowledged' = acknowledged /\ logFile' = logFile
    BY <1>7 DEF Leaves
  <2> QED
    BY <2>1, <2>2 DEF WritesAreNew
<1> QED
  BY <1>1, <1>4, <1>5, <1>6, <1>7, LogMoves

\* A log that can be read still holds what it held, and the line that came last
\* unless that was unfinished; then nobody had been told it was written.
LEMMA LineIsRead ==
    ASSUME NEW file \in FileOf(StoredEvent), NEW e \in StoredEvent,
           Readable(WithLine(file, e))
    PROVE  /\ Readable(file) /\ file.tail = Nil
           /\ Range(Events(WithLine(file, e))) = Range(file.lines) \union {e}
<1>1. PICK new \in FileOf(StoredEvent) : new = WithLine(file, e)
  BY WithLineIs
<1>2. PICK n \in Nat : n = Len(file.lines) /\ DOMAIN file.lines = 1..n
  BY DEF FileOf
<1>3. /\ new.tail = Nil /\ Len(new.lines) = n + 1 /\ DOMAIN new.lines = 1..(n + 1)
      /\ \A i \in 1..n : new.lines[i] = file.lines[i]
      /\ new.lines[n + 1] = IF file.tail = Nil THEN e ELSE Torn
  <2>1. /\ new.tail = Nil /\ Len(new.lines) = n + 1
        /\ \A i \in 1..n : new.lines[i] = file.lines[i]
        /\ new.lines[n + 1] = IF file.tail = Nil THEN e ELSE Torn
    BY <1>1, <1>2, WithLineIs
  <2>2. PICK l \in Seq(StoredEvent \union {Torn}) : l = new.lines
    BY DEF FileOf
  <2>3. DOMAIN l = 1..Len(l)
    OBVIOUS
  <2> QED
    BY <2>1, <2>2, <2>3
<1>4. \A i \in 1..(n + 1) : new.lines[i] # Torn
  BY <1>1, <1>3 DEF Readable, Contains
<1>5. file.tail = Nil
  BY <1>2, <1>3, <1>4
<1>6. Readable(file)
  BY <1>2, <1>3, <1>4 DEF Readable, Contains
<1>7. Range(new.lines) = Range(file.lines) \union {e}
  BY <1>2, <1>3, <1>5 DEF Range
<1>8. Whole(new) = {}
  BY <1>3 DEF Whole
<1> QED
  BY <1>1, <1>5, <1>6, <1>7, <1>8, EventsAre DEF Events

LEMMA LossStep ==
    ASSUME FilesTypeOK, WritesAreNew, NothingSilentlyLost, FilesNext
    PROVE  NothingSilentlyLost'
<1>1. PICK p \in Procs : Begins(p) \/ Stores(p) \/ Cuts(p) \/ Leaves(p)
  BY StepActions, LogMoves
<1>2. CASE Begins(p) \/ Leaves(p)
  BY <1>2 DEF Begins, Leaves, NothingSilentlyLost
<1>3. CASE Stores(p) \/ Cuts(p)
  <2>1. PICK s \in Sessions, e \in StoredEvent :
           s = proc[p].plan.session /\ e = proc[p].writing
    BY <1>3, ProcessTypes DEF Stores, Cuts, Writes
  <2>2. \A r \in Sessions \ {s} :
           logFile'[r] = logFile[r] /\ acknowledged'[r] = acknowledged[r]
    BY <1>3, <2>1 DEF Stores, Cuts, FilesTypeOK
  <2>3. PICK old \in FileOf(StoredEvent) : old = logFile[s]
    BY DEF FilesTypeOK
  <2>10. PICK new : new = logFile'[s]
    OBVIOUS
  <2>4. Readable(old) => acknowledged[s] \subseteq Range(Events(old))
    BY <2>3 DEF NothingSilentlyLost
  <2>5. /\ acknowledged[s] \subseteq StoredEvent
        /\ Range(Events(old)) = Range(old.lines) \union Whole(old)
        /\ Whole(old) \intersect acknowledged[s] = {}
    BY <2>3, EventsAre DEF FilesTypeOK, WritesAreNew, Whole, Events
  <2>6. ASSUME new = WithLine(old, e), Readable(new)
        PROVE  acknowledged[s] \union {e} \subseteq Range(Events(new))
    <3>1. /\ Readable(old) /\ old.tail = Nil
          /\ Range(Events(new)) = Range(old.lines) \union {e}
      BY <2>6, LineIsRead
    <3> QED
      BY <2>4, <2>5, <3>1
  <2>7. ASSUME SameLines(old, new, e), new \in FileOf(StoredEvent), Readable(new)
        PROVE  acknowledged[s] \subseteq Range(Events(new))
    <3>1. Range(Events(new)) = Range(new.lines) \union Whole(new)
      BY <2>7, EventsAre DEF Events
    <3>2. Readable(old) /\ new.lines = old.lines
      BY <2>7 DEF SameLines, Readable
    <3> QED
      BY <2>4, <2>5, <3>1, <3>2
  <2>8. CASE Stores(p)
    <3>1. new = WithLine(old, e) /\ acknowledged'[s] = acknowledged[s] \union {e}
      BY <2>1, <2>3, <2>10, <2>8 DEF Stores, FilesTypeOK
    <3>2. Readable(logFile'[s]) => acknowledged'[s] \subseteq Range(Events(logFile'[s]))
      BY <2>3, <2>10, <2>6, <3>1
    <3> QED
      BY <2>2, <3>2 DEF NothingSilentlyLost
  <2>9. CASE Cuts(p)
    <3>1. new \in CutShort(old, e) /\ acknowledged' = acknowledged
      BY <2>1, <2>3, <2>10, <2>9 DEF Cuts, FilesTypeOK
    <3>2. new \in FileOf(StoredEvent) /\ (SameLines(old, new, e) \/ new = WithLine(old, e))
      BY <3>1, CutShortIs
    <3>3. Readable(logFile'[s]) => acknowledged'[s] \subseteq Range(Events(logFile'[s]))
      BY <2>3, <2>10, <2>6, <2>7, <3>1, <3>2
    <3> QED
      BY <2>2, <3>3 DEF NothingSilentlyLost
  <2> QED
    BY <1>3, <2>8, <2>9
<1> QED
  BY <1>1, <1>2, <1>3

LEMMA LossInit == FilesInit => LossInv
<1> SUFFICES ASSUME FilesInit PROVE LossInv
  OBVIOUS
<1>1. FilesTypeOK
  BY FilesTypesInit
<1>2. WritesAreNew
  BY DEF FilesInit, WritesAreNew, Writes, Runs
<1>3. NothingSilentlyLost
  BY DEF FilesInit, NothingSilentlyLost
<1> QED
  BY <1>1, <1>2, <1>3 DEF LossInv

LEMMA LossInvStep == LossInv /\ [FilesNext]_filesVars => LossInv'
<1> SUFFICES ASSUME LossInv, [FilesNext]_filesVars PROVE LossInv'
  OBVIOUS
<1>1. CASE FilesNext
  BY <1>1, FilesTypesStep, NewStep, LossStep DEF LossInv
<1>2. CASE UNCHANGED filesVars
  BY <1>2 DEF filesVars, LossInv, FilesTypeOK, WritesAreNew, Writes, Runs,
     NothingSilentlyLost
<1> QED
  BY <1>1, <1>2

\* An event whose write returned is never silently missing from a log that can be
\* read: for any number of sessions and of processes on each, however many
\* writes fail and processes die at whatever point of a write.
THEOREM NoSilentLoss == FilesSpec => []NothingSilentlyLost
<1>1. LossInv => NothingSilentlyLost
  BY DEF LossInv
<1> QED
  BY <1>1, LossInit, LossInvStep, PTL DEF FilesSpec

-------------------------------------------------------------------------------
(***************************************************************************)
(* Metadata and index                                                      *)
(***************************************************************************)
\* What an action makes of the process v that was w.
Kept(w, v) == v.plan = w.plan /\ v.queue = w.queue /\ v.updating = w.updating

LEMMA ProcessMoves ==
    ASSUME FilesTypeOK, NEW p \in Procs, Act(p)
    PROVE  /\ Runs(p) /\ Others(p) /\ shared' = shared
           /\ BeginWrite(p) => Kept(proc[p], proc'[p])
           /\ WriteFails(p) => Kept(proc[p], proc'[p]) /\ proc'[p].writing = Nil
           /\ WriteReturns(p) =>
                 /\ proc'[p].plan = proc[p].plan /\ proc'[p].updating = proc[p].updating
                 /\ proc'[p].queue = Append(proc[p].queue, proc[p].writing)
                 /\ proc'[p].writing = Nil
           /\ HandleEvent(p) =>
                 /\ proc'[p].plan = Patched(proc[p].plan, Head(proc[p].queue))
                 /\ proc'[p].queue = Tail(proc[p].queue)
                 /\ proc'[p].writing = proc[p].writing
                 /\ proc'[p].updating =
                       IF Head(proc[p].queue).kind = "other" THEN Nil ELSE "metadata"
           /\ ReplaceMetadata(p) \/ AppendIndex(p) \/ UpdateFails(p) =>
                 /\ proc'[p].plan = proc[p].plan
                 /\ proc'[p].queue = proc[p].queue
                 /\ proc'[p].writing = proc[p].writing
                 /\ proc'[p].updating = IF ReplaceMetadata(p) THEN "index" ELSE Nil
           /\ Crash(p) \/ Exit(p) => proc'[p] = Nil
<1>1. Runs(p) /\ proc[p] \in Process /\ shared' = shared
  BY DEF Act, BeginWrite, WriteReturns, WriteFails, HandleEvent, ReplaceMetadata,
     AppendIndex, UpdateFails, Crash, Exit, Runs, FilesTypeOK
<1>2. Others(p)
  BY LogMoves
<1>3. ASSUME BeginWrite(p) PROVE Kept(proc[p], proc'[p])
  <2>1. PICK e \in StoredEvent, n \in Nat : BeginsWith(p, e, n)
    BY <1>1, <1>3, BeginWriteIs
  <2>2. proc'[p] = [proc[p] EXCEPT !.writing = e, !.nextId = n]
    BY <2>1 DEF BeginsWith, FilesTypeOK
  <2> QED
    BY <1>1, <2>2 DEF Kept, Process
<1>4. ASSUME WriteFails(p) PROVE Kept(proc[p], proc'[p]) /\ proc'[p].writing = Nil
  BY <1>1, <1>4 DEF WriteFails, Kept, Process, FilesTypeOK
<1>5. ASSUME WriteReturns(p)
      PROVE  /\ proc'[p].plan = proc[p].plan /\ proc'[p].updating = proc[p].updating
             /\ proc'[p].queue = Append(proc[p].queue, proc[p].writing)
             /\ proc'[p].writing = Nil
  BY <1>1, <1>5 DEF WriteReturns, Process, FilesTypeOK
<1>6. ASSUME HandleEvent(p)
      PROVE  /\ proc'[p].plan = Patched(proc[p].plan, Head(proc[p].queue))
             /\ proc'[p].queue = Tail(proc[p].queue)
             /\ proc'[p].writing = proc[p].writing
             /\ proc'[p].updating =
                   IF Head(proc[p].queue).kind = "other" THEN Nil ELSE "metadata"
  BY <1>1, <1>6 DEF HandleEvent, Process, FilesTypeOK
<1>7. ASSUME ReplaceMetadata(p) \/ AppendIndex(p) \/ UpdateFails(p)
      PROVE  /\ proc'[p].plan = proc[p].plan
             /\ proc'[p].queue = proc[p].queue
             /\ proc'[p].writing = proc[p].writing
             /\ proc'[p].updating = IF ReplaceMetadata(p) THEN "index" ELSE Nil
  <2>1. CASE ReplaceMetadata(p)
    BY <1>1, <2>1 DEF ReplaceMetadata, Process, FilesTypeOK
  <2>2. CASE ~ ReplaceMetadata(p)
    BY <1>1, <1>7, <2>2 DEF AppendIndex, UpdateFails, Process, FilesTypeOK
  <2> QED
    BY <2>1, <2>2
<1>8. ASSUME Crash(p) \/ Exit(p) PROVE proc'[p] = Nil
  BY <1>8 DEF Crash, Exit, FilesTypeOK
<1> QED
  BY <1>1, <1>2, <1>3, <1>4, <1>5, <1>6, <1>7, <1>8

LEMMA SessionStays ==
    ASSUME FilesTypeOK, NEW p \in Procs, Act(p), Runs(p)'
    PROVE  proc'[p].plan.session = proc[p].plan.session
<1>1. CASE HandleEvent(p)
  <2>1. PICK q \in Seq(StoredEvent) : q = proc[p].queue
    BY ProcessTypes, ProcessMoves DEF Process
  <2>2. q # <<>>
    BY <1>1, <2>1 DEF HandleEvent
  <2>3. Head(q) \in StoredEvent
    BY <2>2
  <2> QED
    BY <1>1, <2>1, <2>3, ProcessMoves, ProcessTypes, PatchedTypes
<1>2. CASE ~ HandleEvent(p)
  BY <1>2, ProcessMoves DEF Act, Kept, Runs
<1> QED
  BY <1>1, <1>2

LEMMA OneWorksStep ==
    ASSUME FilesTypeOK, OneWorks, FilesNext
    PROVE  OneWorks'
<1>1. PICK p \in Procs : Opens(p) \/ Act(p)
  BY StepActions
<1>2. \A q \in Procs \ {p} : \A s : Works(q, s)' => Works(q, s)
  BY <1>1, LogMoves DEF Others, Works, Runs
<1>3. CASE Opens(p)
  <2>1. PICK m \in Metadata, seed \in Nat : Open(p, m, seed)
    BY <1>3, OpensOne
  <2>2. proc'[p] = Opened(m, seed)
    BY <2>1 DEF Open, FilesTypeOK
  <2>3. \A s : Works(p, s)' => s = m.session
    BY <2>2 DEF Works, Opened
  <2>4. /\ \A q \in Procs : Works(q, m.session) => m.session \in shared'
        /\ shared \subseteq shared'
    BY <2>1 DEF Open, Works, Runs
  <2> SUFFICES ASSUME NEW s \in Sessions \ shared', NEW q \in Procs, NEW r \in Procs,
                      Works(q, s)', Works(r, s)'
               PROVE  q = r
    BY DEF OneWorks
  <2> QED
    BY <1>2, <2>3, <2>4 DEF OneWorks
<1>4. CASE Act(p)
  <2>1. \A q \in Procs : \A s : Works(q, s)' => Works(q, s)
    BY <1>2, <1>4, SessionStays, ProcessMoves DEF Works
  <2> QED
    BY <1>4, <2>1, ProcessMoves DEF OneWorks
<1> QED
  BY <1>1, <1>3, <1>4

LEMMA EntriesAfter ==
    ASSUME NEW S, NEW file \in FileOf(S), NEW e \in S, NEW new,
           new = WithLine(file, e) \/ new \in CutShort(file, e)
    PROVE  Range(new.lines \o LastLine(new)) \subseteq
              Range(file.lines \o LastLine(file)) \union {e, Torn}
<1>1. new \in FileOf(S) /\ (SameLines(file, new, e) \/ new = WithLine(file, e))
  BY WithLineIs, CutShortIs
<1>2. /\ Range(new.lines \o LastLine(new)) = Range(new.lines) \union Whole(new)
      /\ Range(file.lines \o LastLine(file)) = Range(file.lines) \union Whole(file)
  BY <1>1, EventsAre
<1>3. CASE SameLines(file, new, e)
  BY <1>2, <1>3 DEF SameLines, Whole
<1>4. CASE new = WithLine(file, e)
  <2>1. PICK n \in Nat : n = Len(file.lines) /\ DOMAIN file.lines = 1..n
    BY DEF FileOf
  <2>2. /\ new.tail = Nil /\ Len(new.lines) = n + 1
        /\ \A i \in 1..n : new.lines[i] = file.lines[i]
        /\ new.lines[n + 1] \in {e, Torn}
    BY <1>4, <2>1, WithLineIs
  <2>3. DOMAIN new.lines = 1..Len(new.lines)
    BY <1>1 DEF FileOf
  <2>4. Range(new.lines) \subseteq Range(file.lines) \union {e, Torn}
    BY <2>1, <2>2, <2>3 DEF Range
  <2> QED
    BY <1>2, <2>2, <2>4 DEF Whole
<1> QED
  BY <1>1, <1>3, <1>4

LEMMA IndexMoves ==
    ASSUME FilesTypeOK, NEW p \in Procs, Opens(p) \/ Act(p)
    PROVE  /\ \A m \in IndexEntries' :
                 \/ m \in IndexEntries
                 \/ Act(p) /\ proc[p].updating = "index" /\ m = proc[p].plan
           /\ ~ ReplaceMetadata(p) => metadata' = metadata
<1>1. CASE Opens(p)
  <2>1. index' = index /\ metadata' = metadata
    BY <1>1, OpensOne DEF Open
  <2>2. IndexEntries' = IndexEntries
    BY <2>1 DEF IndexEntries, IndexLines
  <2> QED
    BY <2>1, <2>2
<1>2. CASE Act(p)
  <2>1. ~ ReplaceMetadata(p) => metadata' = metadata
    BY <1>2 DEF Act, BeginWrite, WriteReturns, WriteFails, HandleEvent,
       AppendIndex, UpdateFails, Crash, Exit
  <2>2. proc[p].plan \in Metadata
    BY <1>2, ProcessMoves, ProcessTypes
  <2>3. \/ index' = index
        \/ /\ proc[p].updating = "index"
           /\ \/ index' = WithLine(index, proc[p].plan)
              \/ index' \in CutShort(index, proc[p].plan)
    BY <1>2 DEF Act, BeginWrite, WriteReturns, WriteFails, HandleEvent,
       ReplaceMetadata, AppendIndex, UpdateFails, Crash, Exit
  <2>4. CASE index' = index
    <3>1. IndexEntries' = IndexEntries
      BY <2>4 DEF IndexEntries, IndexLines
    <3> QED
      BY <2>1, <3>1
  <2>5. CASE index' # index
    <3>1. Range(index'.lines \o LastLine(index')) \subseteq
             Range(index.lines \o LastLine(index)) \union {proc[p].plan, Torn}
      BY <2>2, <2>3, <2>5, EntriesAfter DEF FilesTypeOK
    <3>2. IndexEntries' = Range(index'.lines \o LastLine(index')) \ {Torn}
      BY DEF IndexEntries, IndexLines
    <3>3. IndexEntries = Range(index.lines \o LastLine(index)) \ {Torn}
      BY DEF IndexEntries, IndexLines
    <3> QED
      BY <1>2, <2>1, <2>3, <2>5, <3>1, <3>2, <3>3
  <2> QED
    BY <2>4, <2>5
<1> QED
  BY <1>1, <1>2

\* The elements of a queue that has grown or shrunk.
LEMMA QueueMoves ==
    ASSUME NEW q \in Seq(StoredEvent), NEW e \in StoredEvent
    PROVE  /\ \A i \in DOMAIN Append(q, e) :
                 \/ i \in DOMAIN q /\ Append(q, e)[i] = q[i]
                 \/ Append(q, e)[i] = e /\ \A j \in DOMAIN Append(q, e) : j <= i
           /\ \A i \in DOMAIN Append(q, e) : i \in Nat
           /\ q # <<>> =>
                 /\ Head(q) \in StoredEvent /\ 1 \in DOMAIN q /\ Head(q) = q[1]
                 /\ \A i \in DOMAIN Tail(q) :
                       i \in Nat /\ 1 < i + 1 /\ i + 1 \in DOMAIN q /\ Tail(q)[i] = q[i + 1]
<1>1. PICK n \in Nat : n = Len(q) /\ DOMAIN q = 1..n
  OBVIOUS
<1>2. /\ DOMAIN Append(q, e) = 1..(n + 1) /\ Append(q, e)[n + 1] = e
      /\ \A i \in 1..n : Append(q, e)[i] = q[i]
  BY <1>1
<1>3. /\ \A i \in DOMAIN Append(q, e) :
            \/ i \in DOMAIN q /\ Append(q, e)[i] = q[i]
            \/ Append(q, e)[i] = e /\ \A j \in DOMAIN Append(q, e) : j <= i
      /\ \A i \in DOMAIN Append(q, e) : i \in Nat
  BY <1>1, <1>2
<1>4. ASSUME q # <<>>
      PROVE  /\ Head(q) \in StoredEvent /\ 1 \in DOMAIN q /\ Head(q) = q[1]
             /\ \A i \in DOMAIN Tail(q) :
                   i \in Nat /\ 1 < i + 1 /\ i + 1 \in DOMAIN q /\ Tail(q)[i] = q[i + 1]
  <2>1. n > 0 /\ Head(q) = q[1] /\ Head(q) \in StoredEvent
    BY <1>1, <1>4
  <2>2. Len(Tail(q)) = n - 1 /\ DOMAIN Tail(q) = 1..(n - 1)
    BY <1>1, <1>4
  <2>3. \A i \in 1..(n - 1) : Tail(q)[i] = q[i + 1]
    BY <1>1, <1>4
  <2> QED
    BY <1>1, <2>1, <2>2, <2>3
<1> QED
  BY <1>3, <1>4

LEMMA QueueTypesOf ==
    ASSUME FilesTypeOK, NEW p \in Procs, Runs(p)
    PROVE  /\ proc[p].queue \in Seq(StoredEvent)
           /\ \A i \in DOMAIN proc[p].queue :
                 proc[p].queue[i] \in StoredEvent /\ proc[p].queue[i].time \in Nat
           /\ Writes(p) => proc[p].writing.time \in Nat
           /\ proc[p].plan.updatedAt \in Nat
<1>1. proc[p] \in Process
  BY ProcessTypes
<1>2. PICK q \in Seq(StoredEvent) : q = proc[p].queue
  BY <1>1 DEF Process
<1>3. \A i \in DOMAIN q : q[i] \in StoredEvent
  OBVIOUS
<1>4. \A e \in StoredEvent : e.time \in Nat
  BY DEF StoredEvent
<1>5. \A m \in Metadata : m.updatedAt \in Nat
  BY DEF Metadata
<1> QED
  BY <1>1, <1>2, <1>3, <1>4, <1>5, ProcessTypes

LEMMA AcknowledgedGrows ==
    ASSUME FilesTypeOK, FilesNext, NEW s \in Sessions
    PROVE  /\ acknowledged[s] \subseteq acknowledged'[s]
           /\ \A time : Logged(s, time) => \E e \in acknowledged'[s] : e.time = time
<1>1. PICK p \in Procs : Begins(p) \/ Stores(p) \/ Cuts(p) \/ Leaves(p)
  BY StepActions, LogMoves
<1>2. acknowledged[s] \subseteq acknowledged'[s]
  BY <1>1 DEF Begins, Stores, Cuts, Leaves, FilesTypeOK
<1> QED
  BY <1>2 DEF Logged

LEMMA UpdatesStep ==
    ASSUME FilesTypeOK, UpdatesAreLogged, FilesNext
    PROVE  UpdatesAreLogged'
<1>1. PICK p \in Procs : Opens(p) \/ Act(p)
  BY StepActions
<1>2. Others(p)
  BY <1>1, LogMoves
<1> DEFINE Told(w, ack) ==
        /\ \A i \in DOMAIN w.queue : w.queue[i] \in ack
        /\ w.updating # Nil => \E e \in ack : e.time = w.plan.updatedAt
<1>4. \A q \in Procs : Runs(q) =>
         proc[q].plan.session \in Sessions /\ Told(proc[q], acknowledged[proc[q].plan.session])
  BY ProcessTypes DEF UpdatesAreLogged, Logged
<1>5. ASSUME Runs(p)'
      PROVE  Told(proc'[p], acknowledged'[proc'[p].plan.session])
  <2>1. CASE Opens(p)
    <3>1. PICK m \in Metadata, seed \in Nat : Open(p, m, seed)
      BY <2>1, OpensOne
    <3>2. proc'[p] = Opened(m, seed)
      BY <3>1 DEF Open, FilesTypeOK
    <3> QED
      BY <3>2 DEF Opened
  <2>2. CASE Act(p)
    <3>1. PICK s \in Sessions : s = proc[p].plan.session /\ s = proc'[p].plan.session
      BY <1>5, <2>2, SessionStays, ProcessTypes, ProcessMoves
    <3>2. Told(proc[p], acknowledged[s]) /\ acknowledged[s] \subseteq acknowledged'[s]
      BY <1>4, <2>2, <3>1, AcknowledgedGrows, ProcessMoves
    <3>3. PICK q \in Seq(StoredEvent) : q = proc[p].queue
      BY <2>2, ProcessMoves, QueueTypesOf
    <3>a. CASE WriteReturns(p)
      <4>1. PICK e \in StoredEvent : e = proc[p].writing
        BY <3>a, <2>2, ProcessTypes, ProcessMoves DEF WriteReturns, Writes
      <4>2. e \in acknowledged'[s]
        BY <3>1, <3>a, <4>1 DEF WriteReturns, FilesTypeOK
      <4>3. /\ proc'[p].queue = Append(q, e) /\ proc'[p].plan = proc[p].plan
            /\ proc'[p].updating = proc[p].updating
        BY <2>2, <3>3, <3>a, <4>1, ProcessMoves
      <4>4. \A i \in DOMAIN Append(q, e) :
               Append(q, e)[i] = e \/ (i \in DOMAIN q /\ Append(q, e)[i] = q[i])
        BY QueueMoves
      <4>5. \A i \in DOMAIN Append(q, e) : Append(q, e)[i] \in acknowledged'[s]
        BY <3>2, <3>3, <4>2, <4>4
      <4> QED
        BY <3>1, <3>2, <4>3, <4>5
    <3>b. CASE HandleEvent(p)
      <4>1. q # <<>> /\ proc[p].updating = Nil
        BY <3>3, <3>b DEF HandleEvent
      <4>2. PICK e \in StoredEvent : e = Head(q)
        BY <4>1
      <4>3. e \in acknowledged[s]
        BY <3>2, <3>3, <4>1, <4>2, QueueMoves
      <4>4. \A i \in DOMAIN Tail(q) : i + 1 \in DOMAIN q /\ Tail(q)[i] = q[i + 1]
        BY <4>1, <4>2, QueueMoves
      <4>5. \A i \in DOMAIN Tail(q) : Tail(q)[i] \in acknowledged'[s]
        BY <3>2, <3>3, <4>4
      <4>6. /\ proc'[p].queue = Tail(q)
            /\ proc'[p].plan = Patched(proc[p].plan, e)
            /\ proc'[p].updating = IF e.kind = "other" THEN Nil ELSE "metadata"
        BY <2>2, <3>3, <3>b, <4>2, ProcessMoves
      <4>7. e.kind # "other" => proc'[p].plan.updatedAt = e.time
        BY <2>2, <4>2, <4>6, PatchedTypes, ProcessTypes, ProcessMoves
      <4> QED
        BY <3>1, <3>2, <4>3, <4>5, <4>6, <4>7
    <3>c. CASE BeginWrite(p) \/ WriteFails(p)
      BY <2>2, <3>1, <3>2, <3>c, ProcessMoves DEF Kept
    <3>d. CASE ReplaceMetadata(p) \/ AppendIndex(p) \/ UpdateFails(p)
      <4>1. proc[p].updating # Nil
        BY <3>d, ConstantsDiffer DEF ReplaceMetadata, AppendIndex, UpdateFails
      <4> QED
        BY <2>2, <3>1, <3>2, <3>d, <4>1, ProcessMoves
    <3> QED
      BY <1>5, <2>2, <3>a, <3>b, <3>c, <3>d, ProcessMoves DEF Act, Runs
  <2> QED
    BY <1>1, <2>1, <2>2
<1>6. ASSUME NEW q \in Procs \ {p}, Runs(q)'
      PROVE  Told(proc'[q], acknowledged'[proc'[q].plan.session])
  <2>1. proc'[q] = proc[q] /\ Runs(q)
    BY <1>2, <1>6 DEF Others, Runs
  <2> QED
    BY <1>4, <2>1, AcknowledgedGrows
<1>7. ASSUME NEW s \in Sessions, metadata'[s] # Nil
      PROVE  \E e \in acknowledged'[s] : e.time = metadata'[s].updatedAt
  <2>1. CASE ReplaceMetadata(p)
    <3>1. metadata' = [metadata EXCEPT ![proc[p].plan.session] = proc[p].plan]
      BY <2>1 DEF ReplaceMetadata
    <3>2. Runs(p) /\ Logged(proc[p].plan.session, proc[p].plan.updatedAt)
      BY <2>1, ConstantsDiffer DEF ReplaceMetadata, UpdatesAreLogged, Runs
    <3>3. CASE s = proc[p].plan.session
      <4>1. metadata'[s] = proc[p].plan
        BY <3>1, <3>3 DEF FilesTypeOK
      <4> QED
        BY <3>2, <3>3, <4>1, AcknowledgedGrows
    <3>4. CASE s # proc[p].plan.session
      <4>1. metadata'[s] = metadata[s]
        BY <3>1, <3>4 DEF FilesTypeOK
      <4> QED
        BY <1>7, <4>1, AcknowledgedGrows DEF UpdatesAreLogged
    <3> QED
      BY <3>3, <3>4
  <2>2. CASE ~ ReplaceMetadata(p)
    BY <1>1, <1>7, <2>2, IndexMoves, AcknowledgedGrows DEF UpdatesAreLogged
  <2> QED
    BY <2>1, <2>2
<1>8. ASSUME NEW m \in IndexEntries'
      PROVE  \E e \in acknowledged'[m.session] : e.time = m.updatedAt
  <2>1. m.session \in Sessions
    <3>1. m \in Metadata
      BY <1>1, <1>8, IndexMoves, ListedAreEntries, ProcessMoves, ProcessTypes
    <3> QED
      BY <3>1 DEF Metadata
  <2>2. Logged(m.session, m.updatedAt)
    BY <1>1, <1>8, IndexMoves, ProcessMoves, ConstantsDiffer DEF UpdatesAreLogged
  <2> QED
    BY <2>1, <2>2, AcknowledgedGrows
<1> QED
  <2>1. \A q \in Procs : Runs(q)' => Told(proc'[q], acknowledged'[proc'[q].plan.session])
    BY <1>5, <1>6
  <2> QED
    BY <1>7, <1>8, <2>1 DEF UpdatesAreLogged, Logged

\* Everything a process has to do happened before now.
LEMMA ClockIsAhead ==
    ASSUME FilesTypeOK, WritesAreNew, UpdatesAreLogged, NEW p \in Procs, Runs(p)
    PROVE  /\ \A i \in DOMAIN proc[p].queue : proc[p].queue[i].time <= clock
           /\ proc[p].updating # Nil => proc[p].plan.updatedAt <= clock
           /\ metadata[proc[p].plan.session] # Nil =>
                 metadata[proc[p].plan.session].updatedAt <= clock
<1>1. PICK s \in Sessions : s = proc[p].plan.session
  BY ProcessTypes
<1>2. \A e \in acknowledged[s] : e.time <= clock
  BY DEF WritesAreNew
<1>3. /\ \A i \in DOMAIN proc[p].queue : proc[p].queue[i] \in acknowledged[s]
      /\ proc[p].updating # Nil => \E e \in acknowledged[s] : e.time = proc[p].plan.updatedAt
      /\ metadata[s] # Nil => \E e \in acknowledged[s] : e.time = metadata[s].updatedAt
  BY <1>1 DEF UpdatesAreLogged, Logged
<1> QED
  BY <1>1, <1>2, <1>3

LEMMA AheadStays ==
    ASSUME LossInv, UpdatesAreLogged, NEW p \in Procs, Act(p), Runs(p)',
           NEW meta, meta = metadata[proc[p].plan.session],
           Ahead(proc[p], meta)
    PROVE  /\ ~ ReplaceMetadata(p) => Ahead(proc'[p], meta)
           /\ ReplaceMetadata(p) => Ahead(proc'[p], proc[p].plan)
<1> FilesTypeOK /\ WritesAreNew
  BY DEF LossInv
<1>1. PICK w \in Process : w = proc[p]
  BY ProcessMoves, ProcessTypes
<1>2. PICK v : v = proc'[p]
  OBVIOUS
<1>3. /\ clock \in Nat
      /\ \A i \in DOMAIN w.queue : w.queue[i].time \in Nat /\ w.queue[i].time <= clock
      /\ w.writing # Nil => w.writing.time \in Nat
      /\ w.plan.updatedAt \in Nat
      /\ w.updating # Nil => w.plan.updatedAt <= clock
      /\ meta # Nil => meta.updatedAt \in Nat /\ meta.updatedAt <= clock
  <2>1. meta # Nil => meta \in Metadata
    BY ProcessMoves, ProcessTypes DEF FilesTypeOK
  <2> QED
    BY <1>1, <2>1, ClockIsAhead, QueueTypesOf, ProcessMoves DEF Writes, FilesTypeOK, Metadata
<1>4. PICK q \in Seq(StoredEvent) : q = w.queue
  BY DEF Process
<1>5. Ahead(w, meta)
  BY <1>1
<1>a. CASE BeginWrite(p)
  <2>1. PICK e \in StoredEvent, n \in Nat : BeginsWith(p, e, n)
    BY <1>a, BeginWriteIs, ProcessMoves
  <2>2. v = [w EXCEPT !.writing = e, !.nextId = n] /\ e.time = clock + 1
    BY <1>1, <1>2, <2>1 DEF BeginsWith, FilesTypeOK
  <2>3. v.writing = e /\ v.queue = w.queue /\ v.plan = w.plan /\ v.updating = w.updating
    BY <2>2 DEF Process
  <2>4. Ahead(v, meta)
    BY <1>3, <1>5, <2>2, <2>3 DEF Ahead, QueueInOrder, ComesAfter
  <2>5. ReplaceMetadata(p) => Ahead(v, w.plan)
    BY <1>1, <1>3, <1>5, <2>2, <2>3, <2>4, ConstantsDiffer DEF Ahead, ReplaceMetadata
  <2> QED
    BY <1>1, <1>2, <2>4, <2>5
<1>b. CASE WriteReturns(p)
  <2>1. PICK e \in StoredEvent : e = w.writing /\ w.writing # Nil
    BY <1>1, <1>b, ProcessTypes, ProcessMoves DEF WriteReturns, Writes
  <2>2. /\ v.queue = Append(q, e) /\ v.plan = w.plan
        /\ v.updating = w.updating /\ v.writing = Nil
    BY <1>1, <1>2, <1>4, <1>b, <2>1, ProcessMoves
  <2>3. PICK r : r = Append(q, e)
    OBVIOUS
  <2>4. \A i \in DOMAIN r :
           \/ i \in DOMAIN q /\ r[i] = q[i]
           \/ r[i] = e /\ \A j \in DOMAIN r : j <= i
    BY <2>3, QueueMoves
  <2>5. \A i \in DOMAIN r : i \in Nat
    BY <2>3, QueueMoves
  <2>6. \A time \in Nat : ComesAfter(w, time) => ComesAfter(v, time)
    BY <1>4, <2>1, <2>2, <2>3, <2>4 DEF ComesAfter
  <2>7. QueueInOrder(v)
    <3> SUFFICES ASSUME NEW i \in DOMAIN r, NEW j \in DOMAIN r, i < j
                 PROVE  r[i].time <= r[j].time
      BY <2>2, <2>3 DEF QueueInOrder
    <3>1. i \in DOMAIN q /\ r[i] = q[i]
      BY <2>4, <2>5
    <3>2. CASE j \in DOMAIN q /\ r[j] = q[j]
      BY <1>4, <1>5, <3>1, <3>2 DEF Ahead, QueueInOrder
    <3>3. CASE r[j] = e
      BY <1>4, <1>5, <2>1, <3>1, <3>3 DEF Ahead, QueueInOrder
    <3> QED
      BY <2>4, <3>2, <3>3
  <2>8. Ahead(v, meta)
    BY <1>3, <1>5, <2>2, <2>6, <2>7 DEF Ahead
  <2>9. ~ ReplaceMetadata(p) \/ Ahead(v, w.plan)
    <3>1. CASE w.updating = "metadata"
      <4>1. ComesAfter(w, w.plan.updatedAt)
        BY <1>5, <3>1, ConstantsDiffer DEF Ahead
      <4> QED
        BY <1>3, <2>2, <2>6, <2>7, <3>1, <4>1 DEF Ahead
    <3>2. CASE w.updating # "metadata"
      BY <1>1, <3>2 DEF ReplaceMetadata
    <3> QED
      BY <3>1, <3>2
  <2> QED
    BY <1>1, <1>2, <2>8, <2>9
<1>c. CASE WriteFails(p)
  <2>1. /\ v.queue = w.queue /\ v.plan = w.plan
        /\ v.updating = w.updating /\ v.writing = Nil
    BY <1>1, <1>2, <1>c, ProcessMoves DEF Kept
  <2>2. Ahead(v, meta)
    BY <1>5, <2>1 DEF Ahead, QueueInOrder, ComesAfter
  <2>3. ReplaceMetadata(p) => Ahead(v, w.plan)
    BY <1>1, <1>3, <1>5, <2>1, ConstantsDiffer DEF Ahead, QueueInOrder, ComesAfter,
       ReplaceMetadata
  <2> QED
    BY <1>1, <1>2, <2>2, <2>3
<1>d. CASE HandleEvent(p)
  <2>1. q # <<>> /\ w.updating = Nil
    BY <1>1, <1>4, <1>d DEF HandleEvent
  <2>2. PICK e \in StoredEvent : e = Head(q)
    BY <2>1
  <2>3. PICK r : r = Tail(q)
    OBVIOUS
  <2>4. /\ 1 \in DOMAIN q /\ e = q[1]
        /\ \A i \in DOMAIN r :
              i \in Nat /\ 1 < i + 1 /\ i + 1 \in DOMAIN q /\ r[i] = q[i + 1]
    BY <2>1, <2>2, <2>3, QueueMoves
  <2>5. /\ v.queue = r /\ v.plan = Patched(w.plan, e) /\ v.writing = w.writing
        /\ v.updating = IF e.kind = "other" THEN Nil ELSE "metadata"
    BY <1>1, <1>2, <1>4, <1>d, <2>2, <2>3, ProcessMoves
  <2>6. e.kind # "other" => v.plan.updatedAt = e.time
    BY <2>5, PatchedTypes DEF Process
  <2>7. \A time \in Nat : ComesAfter(w, time) => ComesAfter(v, time) /\ time <= e.time
    BY <1>4, <2>4, <2>5 DEF ComesAfter
  <2>8. QueueInOrder(v)
    <3>1. \A i, j \in DOMAIN r : i < j => r[i].time <= r[j].time
      BY <1>4, <1>5, <2>4 DEF Ahead, QueueInOrder
    <3> QED
      BY <1>4, <1>5, <2>4, <2>5, <3>1 DEF Ahead, QueueInOrder
  <2>9. ComesAfter(v, e.time)
    BY <1>4, <1>5, <2>4, <2>5 DEF Ahead, QueueInOrder, ComesAfter
  <2>10. Ahead(v, meta) /\ ~ ReplaceMetadata(p)
    <3>1. v.updating # "index" /\ ~ ReplaceMetadata(p)
      BY <1>1, <2>1, <2>5, ConstantsDiffer DEF ReplaceMetadata
    <3>2. v.updating # Nil => v.plan.updatedAt = e.time
      BY <2>5, <2>6
    <3>3. meta # Nil => ComesAfter(v, meta.updatedAt) /\ meta.updatedAt <= e.time
      BY <1>3, <1>5, <2>7 DEF Ahead
    <3> QED
      BY <2>8, <2>9, <3>1, <3>2, <3>3 DEF Ahead
  <2> QED
    BY <1>2, <2>10
<1>e. CASE ReplaceMetadata(p) \/ AppendIndex(p) \/ UpdateFails(p)
  <2>1. w.updating # Nil
    BY <1>1, <1>e, ConstantsDiffer DEF ReplaceMetadata, AppendIndex, UpdateFails
  <2>2. /\ v.queue = w.queue /\ v.plan = w.plan /\ v.writing = w.writing
        /\ v.updating = IF ReplaceMetadata(p) THEN "index" ELSE Nil
    BY <1>1, <1>2, <1>e, ProcessMoves
  <2>3. ~ ReplaceMetadata(p) => Ahead(v, meta)
    BY <1>5, <2>1, <2>2, ConstantsDiffer DEF Ahead, QueueInOrder, ComesAfter
  <2>4. ReplaceMetadata(p) => Ahead(v, w.plan)
    BY <1>3, <1>5, <2>1, <2>2, ConstantsDiffer DEF Ahead, QueueInOrder, ComesAfter
  <2> QED
    BY <1>1, <1>2, <2>3, <2>4
<1> QED
  BY <1>a, <1>b, <1>c, <1>d, <1>e, ProcessMoves DEF Act, Runs

LEMMA AheadStep ==
    ASSUME LossInv, UpdatesAreLogged, OneWorks, MetadataIsAhead, FilesNext
    PROVE  MetadataIsAhead'
<1> FilesTypeOK
  BY DEF LossInv
<1>1. PICK p \in Procs : Opens(p) \/ Act(p)
  BY StepActions
<1>2. Others(p)
  BY <1>1, LogMoves
<1>3. shared \subseteq shared'
  BY <1>1, OpensOne, ProcessMoves DEF Open
\* Only the process of a session replaces its metadata, by a later update.
<1>4. ASSUME NEW s \in Sessions \ shared', metadata[s] # Nil
      PROVE  metadata'[s] # Nil /\ metadata[s].updatedAt <= metadata'[s].updatedAt
  <2>1. metadata[s].updatedAt \in Nat
    BY <1>4 DEF FilesTypeOK, Metadata
  <2>2. CASE ReplaceMetadata(p) /\ s = proc[p].plan.session
    <3>1. metadata'[s] = proc[p].plan /\ Runs(p) /\ proc[p].updating # Nil
      BY <2>2, ConstantsDiffer DEF ReplaceMetadata, FilesTypeOK, Runs
    <3>2. proc[p].plan \in Metadata
      BY <3>1, ProcessTypes
    <3>3. Ahead(proc[p], metadata[s])
      BY <1>3, <1>4, <2>2, <3>1 DEF MetadataIsAhead
    <3> QED
      BY <1>4, <3>1, <3>2, <3>3, ConstantsDiffer DEF Ahead
  <2>3. CASE ~ (ReplaceMetadata(p) /\ s = proc[p].plan.session)
    <3>1. metadata'[s] = metadata[s]
      BY <1>1, <2>3, IndexMoves DEF ReplaceMetadata, FilesTypeOK
    <3> QED
      BY <1>4, <2>1, <3>1
  <2> QED
    BY <2>2, <2>3
<1>5. ASSUME NEW q \in Procs, Runs(q)', proc'[q].plan.session \notin shared'
      PROVE  Ahead(proc'[q], metadata'[proc'[q].plan.session])
  <2>1. CASE q = p /\ Opens(p)
    <3>1. PICK m \in Metadata, seed \in Nat : Open(p, m, seed)
      BY <2>1, OpensOne
    <3>2. proc'[p] = Opened(m, seed)
      BY <3>1 DEF Open, FilesTypeOK
    <3>3. /\ proc'[p].queue = <<>> /\ proc'[p].writing = Nil
          /\ proc'[p].updating = Nil
      BY <3>2 DEF Opened
    <3>4. \A time : ComesAfter(proc'[p], time)
      BY <3>3 DEF ComesAfter
    <3>5. QueueInOrder(proc'[p])
      BY <3>3 DEF QueueInOrder
    <3> QED
      BY <2>1, <3>3, <3>4, <3>5, ConstantsDiffer DEF Ahead
  <2>2. CASE q = p /\ Act(p)
    <3>1. PICK s \in Sessions : s = proc[p].plan.session /\ s = proc'[p].plan.session
      BY <1>5, <2>2, SessionStays, ProcessTypes, ProcessMoves
    <3>2. Ahead(proc[p], metadata[s]) /\ Runs(p)
      BY <1>3, <1>5, <2>2, <3>1, ProcessMoves DEF MetadataIsAhead
    <3>3. CASE ReplaceMetadata(p)
      <4>1. metadata'[s] = proc[p].plan
        BY <3>1, <3>3 DEF ReplaceMetadata, FilesTypeOK
      <4> QED
        BY <1>5, <2>2, <3>1, <3>2, <3>3, <4>1, AheadStays
    <3>4. CASE ~ ReplaceMetadata(p)
      <4>1. metadata' = metadata
        BY <2>2, <3>4, IndexMoves
      <4> QED
        BY <1>5, <2>2, <3>1, <3>2, <3>4, <4>1, AheadStays
    <3> QED
      BY <3>3, <3>4
  <2>3. CASE q # p
    <3>1. proc'[q] = proc[q] /\ Runs(q)
      BY <1>2, <1>5, <2>3 DEF Others, Runs
    <3>2. PICK s \in Sessions : s = proc[q].plan.session
      BY <3>1, ProcessTypes
    <3>3. s \notin shared /\ Ahead(proc[q], metadata[s])
      BY <1>3, <1>5, <3>1, <3>2 DEF MetadataIsAhead
    <3>4. metadata'[s] = metadata[s]
      <4>1. CASE ReplaceMetadata(p)
        <5>1. Runs(p)
          BY <4>1 DEF ReplaceMetadata, Runs
        <5>2. proc[p].plan.session # s
          BY <2>3, <3>1, <3>2, <3>3, <5>1 DEF OneWorks, Works
        <5> QED
          BY <4>1, <5>2 DEF ReplaceMetadata, FilesTypeOK
      <4>2. CASE ~ ReplaceMetadata(p)
        BY <1>1, <4>2, IndexMoves
      <4> QED
        BY <4>1, <4>2
    <3> QED
      BY <3>1, <3>2, <3>3, <3>4
  <2> QED
    BY <1>1, <2>1, <2>2, <2>3
<1>6. ASSUME NEW m \in IndexEntries', m.session \notin shared'
      PROVE  /\ metadata'[m.session] # Nil
             /\ m.updatedAt <= metadata'[m.session].updatedAt
  <2>1. m \in Metadata
    BY <1>1, <1>6, IndexMoves, ListedAreEntries, ProcessMoves, ProcessTypes
  <2>2. PICK s \in Sessions : s = m.session
    BY <2>1 DEF Metadata
  <2>3. metadata[s] # Nil /\ m.updatedAt <= metadata[s].updatedAt
    <3>1. CASE m \in IndexEntries
      BY <1>3, <1>6, <2>2, <3>1 DEF MetadataIsAhead
    <3>2. CASE Act(p) /\ proc[p].updating = "index" /\ m = proc[p].plan
      <4>1. Ahead(proc[p], metadata[s])
        BY <1>3, <1>6, <2>2, <3>2, ProcessMoves DEF MetadataIsAhead
      <4>2. metadata[s] = m
        BY <3>2, <4>1 DEF Ahead
      <4>3. m.updatedAt \in Nat
        BY <2>1 DEF Metadata
      <4> QED
        BY <2>1, <4>2, <4>3, ConstantsDiffer
    <3> QED
      BY <1>1, <1>6, <3>1, <3>2, IndexMoves
  <2>4. metadata'[s] # Nil /\ metadata[s].updatedAt <= metadata'[s].updatedAt
    BY <1>4, <1>6, <2>2, <2>3
  <2>5. m.updatedAt \in Nat /\ metadata[s].updatedAt \in Nat
    BY <2>1, <2>3 DEF Metadata, FilesTypeOK
  <2>6. metadata'[s].updatedAt \in Nat
    <3>1. FilesTypeOK'
      BY FilesTypesStep
    <3> QED
      BY <2>4, <3>1 DEF FilesTypeOK, Metadata
  <2> QED
    BY <2>2, <2>3, <2>4, <2>5, <2>6
<1> QED
  BY <1>5, <1>6 DEF MetadataIsAhead

LEMMA ListStep ==
    ASSUME LossInv, ListInv, FilesNext
    PROVE  ListInv'
  BY UpdatesStep, OneWorksStep, AheadStep DEF ListInv, LossInv

LEMMA ListInit == FilesInit => ListInv
<1> SUFFICES ASSUME FilesInit PROVE ListInv
  OBVIOUS
<1>1. IndexEntries = {}
  <2>1. EmptyFile \in FileOf(Metadata)
    BY DEF EmptyFile, FileOf
  <2>2. Range(index.lines) = {} /\ Whole(index) = {}
    BY DEF FilesInit, EmptyFile, Range, Whole
  <2> QED
    BY <2>1, <2>2, EventsAre DEF FilesInit, IndexEntries, IndexLines
<1> QED
  BY <1>1 DEF FilesInit, ListInv, UpdatesAreLogged, OneWorks, MetadataIsAhead,
     Works, Runs

\* What the invariant says of the metadata and the index.
LEMMA ListedAreLogged ==
    ASSUME FilesTypeOK, ListInv
    PROVE  ListedIsLogged
<1> SUFFICES ASSUME NEW m \in IndexEntries \union {metadata[s] : s \in Sessions}, m # Nil
             PROVE  /\ \E e \in acknowledged[m.session] : e.time = m.updatedAt
                    /\ m.session \notin shared =>
                          /\ metadata[m.session] # Nil
                          /\ m.updatedAt <= metadata[m.session].updatedAt
  BY DEF ListedIsLogged
<1>1. CASE m \in IndexEntries
  BY <1>1 DEF ListInv, UpdatesAreLogged, MetadataIsAhead, Logged
<1>2. CASE \E s \in Sessions : m = metadata[s]
  <2>1. PICK s \in Sessions : m = metadata[s]
    BY <1>2
  <2>2. m \in Metadata /\ m.session = s /\ m.updatedAt \in Nat
    BY <2>1 DEF FilesTypeOK, Metadata
  <2> QED
    BY <2>1, <2>2 DEF ListInv, UpdatesAreLogged, Logged
<1> QED
  BY <1>1, <1>2

-------------------------------------------------------------------------------
(***************************************************************************)
(* Ids                                                                     *)
(***************************************************************************)
LEMMA LinesAre ==
    ASSUME NEW file \in FileOf(StoredEvent)
    PROVE  /\ Len(file.lines) \in Nat /\ DOMAIN file.lines = 1..Len(file.lines)
           /\ \A i \in DOMAIN file.lines :
                 file.lines[i] # Torn => file.lines[i].id \in Nat
<1>1. PICK l \in Seq(StoredEvent \union {Torn}) : l = file.lines
  BY DEF FileOf
<1>2. \A i \in DOMAIN l : l[i] # Torn => l[i] \in StoredEvent
  OBVIOUS
<1>3. \A e \in StoredEvent : e.id \in Nat
  BY DEF StoredEvent
<1> QED
  BY <1>1, <1>2, <1>3

\* The ids of a file with one line more.
LEMMA IdsAfter ==
    ASSUME NEW file \in FileOf(StoredEvent), NEW e \in StoredEvent, NEW n \in Nat,
           NEW new, new = WithLine(file, e),
           IdsUpTo(file, n), IdsFresh(file), e.id <= n,
           e.id = 0 \/ IdsUpTo(file, e.id - 1)
    PROVE  IdsUpTo(new, n) /\ IdsFresh(new)
<1>1. PICK k \in Nat : k = Len(file.lines) /\ DOMAIN file.lines = 1..k
  BY LinesAre
<1>2. /\ new \in FileOf(StoredEvent) /\ Len(new.lines) = k + 1
      /\ \A i \in 1..k : new.lines[i] = file.lines[i]
      /\ new.lines[k + 1] = e \/ new.lines[k + 1] = Torn
  BY <1>1, WithLineIs
<1>3. DOMAIN new.lines = 1..(k + 1)
  BY <1>2, LinesAre
<1>4. \A i \in 1..(k + 1) : i \in 1..k \/ i = k + 1
  OBVIOUS
<1>5. IdsUpTo(new, n)
  BY <1>1, <1>2, <1>3, <1>4 DEF IdsUpTo
<1>6. IdsFresh(new)
  <2> SUFFICES ASSUME NEW i \in 1..(k + 1), NEW j \in 1..(k + 1), i < j,
                      new.lines[i] # Torn, new.lines[j] # Torn, new.lines[i].id # 0
               PROVE  new.lines[i].id # new.lines[j].id
    BY <1>3 DEF IdsFresh
  <2>1. i \in 1..k /\ new.lines[i] = file.lines[i] /\ file.lines[i].id \in Nat
    BY <1>1, <1>2, LinesAre
  <2>2. CASE j \in 1..k
    <3>1. new.lines[j] = file.lines[j] /\ i \in DOMAIN file.lines /\ j \in DOMAIN file.lines
      BY <1>1, <1>2, <2>1, <2>2
    <3> QED
      BY <2>1, <3>1 DEF IdsFresh
  <2>3. CASE j = k + 1
    <3>1. new.lines[j] = e /\ e.id \in Nat
      BY <1>2, <2>3 DEF StoredEvent
    <3>2. CASE e.id = 0
      BY <3>1, <3>2
    <3>3. CASE e.id # 0
      <4>1. file.lines[i].id <= e.id - 1
        BY <1>1, <2>1, <3>3 DEF IdsUpTo
      <4> QED
        BY <2>1, <3>1, <4>1
    <3> QED
      BY <3>2, <3>3
  <2> QED
    BY <1>4, <2>2, <2>3
<1> QED
  BY <1>5, <1>6

\* The line a process has been writing, whole: its id is new, and the log has
\* as many lines as ids.
LEMMA IdsWritten ==
    ASSUME NEW file \in FileOf(StoredEvent), NEW w \in Process, w.writing # Nil,
           NEW new, new = WithLine(file, w.writing),
           Numbers(w, file), IdsFresh(file)
    PROVE  /\ IdsUpTo(new, w.nextId) /\ IdsFresh(new) /\ new.tail = Nil
           /\ Readable(new) =>
                 IdsUpTo(new, Len(new.lines)) /\ w.nextId <= Len(new.lines)
<1>1. PICK e \in StoredEvent : e = w.writing
  BY DEF Process
<1>2. w.nextId \in Nat /\ e.id \in Nat
  BY DEF Process, StoredEvent
<1>3. IdsUpTo(file, w.nextId) /\ e.id <= w.nextId /\ (e.id = 0 \/ IdsUpTo(file, e.id - 1))
  <2>1. CASE e.id = 0
    BY <1>1, <1>2, <2>1 DEF Numbers, Giving
  <2>2. CASE e.id # 0
    <3>1. IdsUpTo(file, w.nextId - 1) /\ e.id = w.nextId
      BY <1>1, <2>2 DEF Numbers, Giving
    <3>2. IdsUpTo(file, w.nextId)
      BY <1>2, <3>1, LinesAre DEF IdsUpTo
    <3> QED
      BY <1>2, <3>1, <3>2
  <2> QED
    BY <2>1, <2>2
<1>4. IdsUpTo(new, w.nextId) /\ IdsFresh(new)
  BY <1>1, <1>2, <1>3, IdsAfter
<1>5. new \in FileOf(StoredEvent) /\ new.tail = Nil /\ Len(new.lines) = Len(file.lines) + 1
  BY <1>1, WithLineIs
<1>6. ASSUME Readable(new)
      PROVE  IdsUpTo(new, Len(new.lines)) /\ w.nextId <= Len(new.lines)
  <2>1. Readable(file) /\ file.tail = Nil
    BY <1>1, <1>6, LineIsRead
  <2>2. PICK k \in Nat : k = Len(file.lines)
    BY LinesAre
  <2>3. w.nextId <= k + 1
    <3>1. w.nextId <= k + (IF w.started /\ ~ Giving(w) THEN 0 ELSE 1)
      BY <2>1, <2>2 DEF Numbers
    <3>2. CASE w.started /\ ~ Giving(w)
      <4>1. w.nextId <= k + 0
        BY <3>1, <3>2
      <4> QED
        BY <1>2, <4>1
    <3>3. CASE ~ (w.started /\ ~ Giving(w))
      BY <3>1, <3>3
    <3> QED
      BY <3>2, <3>3
  <2>4. IdsUpTo(new, k + 1)
    BY <1>2, <1>4, <1>5, <2>3, LinesAre DEF IdsUpTo
  <2> QED
    BY <1>5, <2>2, <2>3, <2>4
<1> QED
  BY <1>4, <1>5, <1>6

LEMMA NumbersMove ==
    ASSUME FilesTypeOK, NEW p \in Procs, Runs(p),
           \/ WriteReturns(p) \/ HandleEvent(p)
           \/ ReplaceMetadata(p) \/ AppendIndex(p) \/ UpdateFails(p)
    PROVE  /\ proc'[p].nextId = proc[p].nextId
           /\ WriteReturns(p) => proc'[p].started /\ proc'[p].writing = Nil
           /\ ~ WriteReturns(p) =>
                 proc'[p].started = proc[p].started /\ proc'[p].writing = proc[p].writing
<1>1. proc[p] \in Process
  BY ProcessTypes
<1>2. CASE WriteReturns(p)
  BY <1>1, <1>2 DEF WriteReturns, Process, FilesTypeOK
<1>3. CASE HandleEvent(p)
  <2>1. PICK shown, queue, updating :
           proc' = [proc EXCEPT ![p].queue = queue, ![p].plan = shown, ![p].updating = updating]
    BY <1>3 DEF HandleEvent
  <2>2. /\ proc'[p].nextId = proc[p].nextId /\ proc'[p].started = proc[p].started
        /\ proc'[p].writing = proc[p].writing
    BY <1>1, <2>1 DEF Process, FilesTypeOK
  <2> QED
    BY <1>2, <2>2
<1>4. CASE ReplaceMetadata(p) \/ AppendIndex(p) \/ UpdateFails(p)
  <2>1. PICK updating : proc' = [proc EXCEPT ![p].updating = updating]
    BY <1>4 DEF ReplaceMetadata, AppendIndex, UpdateFails
  <2>2. /\ proc'[p].nextId = proc[p].nextId /\ proc'[p].started = proc[p].started
        /\ proc'[p].writing = proc[p].writing
    BY <1>1, <2>1 DEF Process, FilesTypeOK
  <2> QED
    BY <1>2, <2>2
<1> QED
  BY <1>2, <1>3, <1>4

\* A process that goes on, in a session none of whose writes has failed.
LEMMA NumbersStay ==
    ASSUME FilesTypeOK, NEW p \in Procs, Act(p), Runs(p)',
           NEW s \in Sessions \ failed', s = proc[p].plan.session,
           IdsFresh(logFile[s]), Numbers(proc[p], logFile[s])
    PROVE  Numbers(proc'[p], logFile'[s])
<1>1. PICK w \in Process : w = proc[p]
  BY ProcessMoves, ProcessTypes
<1>2. PICK v : v = proc'[p]
  OBVIOUS
<1>3. PICK file \in FileOf(StoredEvent) : file = logFile[s]
  BY DEF FilesTypeOK
<1>4. PICK k \in Nat : k = Len(file.lines)
  BY LinesAre
<1>5. w.nextId \in Nat /\ w.started \in BOOLEAN
  BY DEF Process
<1>a. CASE BeginWrite(p)
  <2>1. PICK e \in StoredEvent, n \in Nat : BeginsWith(p, e, n)
    BY <1>a, BeginWriteIs, ProcessMoves
  <2>2. v = [w EXCEPT !.writing = e, !.nextId = n]
    BY <1>1, <1>2, <2>1 DEF BeginsWith, FilesTypeOK
  <2>3. v.writing = e /\ v.nextId = n /\ v.started = w.started
    BY <2>2 DEF Process
  <2>4. w.writing = Nil /\ logFile' = logFile
    BY <1>1, <1>a DEF BeginWrite
  <2>5. ~ Giving(w) /\ (Giving(v) <=> e.id # 0)
    BY <2>3, <2>4, ConstantsDiffer DEF Giving
  <2>6. /\ IdsUpTo(file, w.nextId)
        /\ w.started => file.tail = Nil
        /\ Readable(file) /\ file.tail = Nil =>
              w.nextId <= k + (IF w.started THEN 0 ELSE 1)
    BY <1>1, <1>3, <1>4, <2>5 DEF Numbers
  <2>7. \/ e.id = 0 /\ n = w.nextId
        \/ e.id = w.nextId + 1 /\ n = e.id /\ w.started
    BY <1>1, <2>1 DEF BeginsWith
  <2>8. CASE e.id = 0 /\ n = w.nextId
    BY <1>2, <1>3, <1>4, <2>3, <2>4, <2>5, <2>6, <2>8 DEF Numbers
  <2>9. CASE e.id = w.nextId + 1 /\ n = e.id /\ w.started
    <3>1. Giving(v) /\ n - 1 = w.nextId
      BY <1>5, <2>5, <2>9
    <3>2. Readable(file) /\ file.tail = Nil => n <= k + 1
      BY <1>5, <2>6, <2>9
    <3> QED
      BY <1>2, <1>3, <1>4, <2>3, <2>4, <2>6, <2>9, <3>1, <3>2 DEF Numbers
  <2> QED
    BY <2>7, <2>8, <2>9
<1>b. CASE WriteReturns(p)
  <2>1. w.writing # Nil
    BY <1>1, <1>b DEF WriteReturns
  <2>2. PICK new : new = WithLine(file, w.writing) /\ new = logFile'[s]
    BY <1>1, <1>3, <1>b DEF WriteReturns, FilesTypeOK
  <2>3. v.nextId = w.nextId /\ v.started /\ v.writing = Nil
    BY <1>1, <1>2, <1>b, NumbersMove, ProcessMoves
  <2>4. ~ Giving(v)
    BY <2>3 DEF Giving
  <2>5. /\ IdsUpTo(new, w.nextId) /\ new.tail = Nil
        /\ Readable(new) => w.nextId <= Len(new.lines)
    BY <1>1, <1>3, <2>1, <2>2, IdsWritten
  <2>6. Len(new.lines) \in Nat
    <3>1. w.writing \in StoredEvent
      BY <2>1 DEF Process
    <3> QED
      BY <2>2, <3>1, WithLineIs, LinesAre
  <2> QED
    BY <1>2, <2>2, <2>3, <2>4, <2>5, <2>6 DEF Numbers
<1>c. CASE HandleEvent(p) \/ ReplaceMetadata(p) \/ AppendIndex(p) \/ UpdateFails(p)
  <2>1. logFile' = logFile /\ (WriteReturns(p) \/ ~ WriteReturns(p))
    BY <1>c DEF HandleEvent, ReplaceMetadata, AppendIndex, UpdateFails
  <2>2. CASE ~ WriteReturns(p)
    <3>1. v.nextId = w.nextId /\ v.started = w.started /\ v.writing = w.writing
      BY <1>1, <1>2, <1>c, <2>2, NumbersMove, ProcessMoves
    <3>2. Giving(v) <=> Giving(w)
      BY <3>1 DEF Giving
    <3> QED
      BY <1>1, <1>2, <2>1, <3>1, <3>2 DEF Numbers
  <2> QED
    BY <1>b, <2>2
<1>d. CASE WriteFails(p)
  BY <1>d DEF WriteFails
<1> QED
  BY <1>a, <1>b, <1>c, <1>d, ProcessMoves DEF Act, Runs

LEMMA IdsStep ==
    ASSUME LossInv, OneWorks, IdsInv, FilesNext
    PROVE  IdsInv'
<1> FilesTypeOK
  BY DEF LossInv
<1>1. PICK p \in Procs : Opens(p) \/ Act(p)
  BY StepActions
<1>2. Others(p)
  BY <1>1, LogMoves
<1>3. shared \subseteq shared' /\ failed \subseteq failed'
  <2>1. CASE Opens(p)
    BY <2>1, OpensOne DEF Open
  <2>2. CASE Act(p)
    BY <2>2, ProcessMoves DEF Act, BeginWrite, WriteReturns, WriteFails, HandleEvent,
       ReplaceMetadata, AppendIndex, UpdateFails, Crash, Exit
  <2> QED
    BY <1>1, <2>1, <2>2
<1> SUFFICES ASSUME NEW s \in Sessions, s \notin failed', s \notin shared'
             PROVE  /\ IdsFresh(logFile'[s])
                    /\ Readable(logFile'[s]) => IdsUpTo(logFile'[s], Len(logFile'[s].lines))
                    /\ \A q \in Procs : Works(q, s)' => Numbers(proc'[q], logFile'[s])
  BY DEF IdsInv, Undisturbed
<1>4. PICK file \in FileOf(StoredEvent) : file = logFile[s]
  BY DEF FilesTypeOK
<1>5. /\ IdsFresh(file)
      /\ Readable(file) => IdsUpTo(file, Len(file.lines))
      /\ \A q \in Procs : Works(q, s) => Numbers(proc[q], file)
      /\ s \notin failed /\ s \notin shared
  BY <1>3, <1>4 DEF IdsInv, Undisturbed
\* What the session's process does to its log.
<1>6. \/ logFile'[s] = file
      \/ /\ Works(p, s) /\ Writes(p) /\ Act(p)
         /\ \/ SameLines(file, logFile'[s], proc[p].writing) /\ ~ Works(p, s)'
            \/ logFile'[s] = WithLine(file, proc[p].writing)
  <2>1. CASE Begins(p) \/ Leaves(p)
    BY <1>4, <2>1 DEF Begins, Leaves
  <2>2. CASE (Stores(p) \/ Cuts(p)) /\ proc[p].plan.session # s
    <3>1. logFile'[s] = logFile[s]
      BY <2>2 DEF Stores, Cuts, FilesTypeOK
    <3> QED
      BY <1>4, <3>1
  <2>3. CASE Stores(p) /\ proc[p].plan.session = s
    <3>1. Works(p, s) /\ Writes(p) /\ logFile'[s] = WithLine(file, proc[p].writing)
      BY <1>4, <2>3 DEF Stores, Works, Writes, FilesTypeOK
    <3>2. CASE Act(p)
      BY <3>1, <3>2
    <3>3. CASE Opens(p)
      BY <3>1, <3>3, OpensOne DEF Works, Runs
    <3> QED
      BY <1>1, <3>2, <3>3
  <2>4. CASE Cuts(p) /\ proc[p].plan.session = s
    <3>1. /\ Works(p, s) /\ Writes(p)
          /\ logFile'[s] \in CutShort(file, proc[p].writing)
      BY <1>4, <2>4 DEF Cuts, Works, Writes, FilesTypeOK
    <3>2. /\ proc[p].writing \in StoredEvent
          /\ \/ SameLines(file, logFile'[s], proc[p].writing)
             \/ logFile'[s] = WithLine(file, proc[p].writing)
      BY <3>1, CutShortIs, ProcessTypes DEF Writes
    <3>3. Act(p)
      BY <1>1, <3>1, OpensOne DEF Works, Runs
    <3>4. CASE logFile'[s] = file
      BY <3>4
    <3>5. CASE logFile'[s] # file
      <4>1. ~ WriteFails(p)
        BY <2>4 DEF WriteFails
      <4>2. ~ WriteReturns(p) => Crash(p)
        BY <1>4, <3>3, <3>5, <4>1 DEF Act, BeginWrite, HandleEvent, ReplaceMetadata,
           AppendIndex, UpdateFails, Exit
      <4>3. CASE Crash(p)
        BY <3>1, <3>2, <3>3, <4>3, ProcessMoves DEF Works, Runs
      <4>4. CASE WriteReturns(p)
        <5>1. logFile'[s] = WithLine(file, proc[p].writing)
          BY <1>4, <2>4, <4>4 DEF WriteReturns, FilesTypeOK
        <5> QED
          BY <3>1, <3>3, <5>1
      <4> QED
        BY <4>2, <4>3, <4>4
    <3> QED
      BY <3>4, <3>5
  <2> QED
    BY <1>1, <2>1, <2>2, <2>3, <2>4, LogMoves
<1>7. /\ IdsFresh(logFile'[s])
      /\ Readable(logFile'[s]) => IdsUpTo(logFile'[s], Len(logFile'[s].lines))
  <2>1. CASE logFile'[s] = file
    BY <1>5, <2>1
  <2>2. CASE SameLines(file, logFile'[s], proc[p].writing)
    <3>1. logFile'[s].lines = file.lines
      BY <2>2 DEF SameLines
    <3> QED
      BY <1>5, <3>1 DEF IdsFresh, IdsUpTo, Readable
  <2>3. CASE Works(p, s) /\ Writes(p) /\ logFile'[s] = WithLine(file, proc[p].writing)
    <3>1. PICK w \in Process : w = proc[p] /\ w.writing # Nil
      BY <2>3, ProcessTypes DEF Works, Writes
    <3>2. Numbers(w, file)
      BY <1>5, <2>3, <3>1
    <3> QED
      BY <1>5, <2>3, <3>1, <3>2, IdsWritten
  <2> QED
    BY <1>6, <2>1, <2>2, <2>3
<1>8. ASSUME NEW q \in Procs \ {p}, Works(q, s)'
      PROVE  Numbers(proc'[q], logFile'[s])
  <2>1. proc'[q] = proc[q] /\ Works(q, s)
    BY <1>2, <1>8 DEF Others, Works, Runs
  <2>2. ~ Works(p, s)
    BY <1>5, <2>1 DEF OneWorks
  <2> QED
    BY <1>5, <1>6, <2>1, <2>2
<1>9. ASSUME Works(p, s)' PROVE Numbers(proc'[p], logFile'[s])
  <2>1. CASE Act(p)
    <3>1. Works(p, s)
      BY <1>9, <2>1, SessionStays, ProcessMoves DEF Works
    <3> QED
      BY <1>4, <1>5, <1>9, <2>1, <3>1, NumbersStay DEF Works
  <2>2. CASE Opens(p)
    <3>1. PICK m \in Metadata, seed \in Nat :
             Open(p, m, seed) /\ (OpensNew(p, m, seed) \/ OpensOld(p, m, seed))
      BY <2>2, OpensOne
    <3>2. PICK v : v = proc'[p] /\ v = Opened(m, seed)
      BY <3>1 DEF Open, FilesTypeOK
    <3>3. m.session = s /\ v.nextId = seed /\ ~ v.started /\ ~ Giving(v)
          /\ logFile'[s] = file
      BY <1>4, <1>9, <3>1, <3>2 DEF Works, Opened, Giving, Open
    <3>4. PICK k \in Nat : k = Len(file.lines)
      BY LinesAre
    <3>5. IdsUpTo(file, seed) /\ (Readable(file) /\ file.tail = Nil => seed <= k + 1)
      <4>1. CASE OpensNew(p, m, seed)
        <5>1. file.lines = <<>> /\ k = 0 /\ seed = 0
          BY <1>4, <3>3, <3>4, <4>1 DEF OpensNew, EmptyFile
        <5> QED
          BY <5>1 DEF IdsUpTo
      <4>2. CASE OpensOld(p, m, seed)
        <5>1. /\ Readable(file) /\ seed >= k + 1
              /\ file.tail = Nil => seed = k + 1
          <6>1. Readable(file) /\ seed = Len(Events(file)) + 1
            BY <1>4, <3>3, <4>2 DEF OpensOld
          <6>2. PICK n \in Nat : n = Len(Events(file))
            BY EventsAre DEF Events
          <6>3. n >= k /\ (file.tail = Nil => n = k)
            BY <3>4, <6>2, EventsAre DEF Events
          <6> QED
            BY <6>1, <6>2, <6>3
        <5>2. IdsUpTo(file, k)
          BY <1>5, <3>4, <5>1
        <5>3. IdsUpTo(file, seed)
          BY <5>1, <5>2, LinesAre DEF IdsUpTo
        <5> QED
          BY <5>1, <5>3
      <4> QED
        BY <3>1, <4>1, <4>2
    <3> QED
      BY <3>2, <3>3, <3>4, <3>5 DEF Numbers
  <2> QED
    BY <1>1, <2>1, <2>2
<1> QED
  BY <1>7, <1>8, <1>9

LEMMA FilesInvInit == FilesInit => FilesInv
<1> SUFFICES ASSUME FilesInit PROVE FilesInv
  OBVIOUS
<1>1. IdsInv
  <2>1. \A s \in Sessions : logFile[s].lines = <<>>
    BY DEF FilesInit, EmptyFile
  <2> QED
    BY <2>1 DEF FilesInit, IdsInv, Undisturbed, Works, Runs, IdsFresh, IdsUpTo
<1> QED
  BY <1>1, LossInit, ListInit DEF FilesInv

LEMMA FilesInvStep == FilesInv /\ [FilesNext]_filesVars => FilesInv'
<1> SUFFICES ASSUME FilesInv, [FilesNext]_filesVars PROVE FilesInv'
  OBVIOUS
<1>1. LossInv'
  BY LossInvStep DEF FilesInv
<1>2. CASE FilesNext
  BY <1>1, <1>2, ListStep, IdsStep DEF FilesInv, ListInv
<1>3. CASE UNCHANGED filesVars
  <2>1. ListInv'
    BY <1>3 DEF filesVars, FilesInv, ListInv, UpdatesAreLogged, OneWorks,
       MetadataIsAhead, Works, Runs, Logged, IndexEntries, IndexLines
  <2>2. IdsInv'
    BY <1>3 DEF filesVars, FilesInv, IdsInv, Undisturbed, Works, Runs
  <2> QED
    BY <1>1, <2>1, <2>2 DEF FilesInv
<1> QED
  BY <1>2, <1>3

\* What metadata.json and the index show was logged, and the index is never ahead;
\* a session that is resumed gives no message an id of its log: for any number of
\* processes, however often they crash, resume and fail to write.
THEOREM FilesStayInStep == FilesSpec => []FilesAgree
<1>1. FilesInv => FilesAgree
  <2> SUFFICES ASSUME FilesInv PROVE FilesAgree
    OBVIOUS
  <2>1. ListedIsLogged
    BY ListedAreLogged DEF FilesInv, LossInv
  <2>2. IdsStayFresh
    BY DEF FilesInv, IdsInv, Undisturbed, IdsFresh, IdsStayFresh
  <2> QED
    BY <2>1, <2>2 DEF FilesAgree
<1> QED
  BY <1>1, FilesInvInit, FilesInvStep, PTL DEF FilesSpec

-------------------------------------------------------------------------------
(***************************************************************************)
(* A run with one prompt (OneShot).                                        *)
(***************************************************************************)
ArtifactNames == {Artifacts[i] : i \in DOMAIN Artifacts}
RunSummary == [exitCode : 0..2, events : Nat]
Writing == [summary : RunSummary, next : Nat]

OneShotTypes ==
    /\ stage \in {"args", "config", "prepare", "submit", "close", "closeAgain",
                  "consume", "consumeAgain", "artifacts", "done"}
    /\ servers \in Nat /\ emitted \in Nat /\ counted \in Nat
    /\ queueShut \in BOOLEAN /\ directory \in BOOLEAN
    /\ current \in Writing \union {Nobody}
    /\ files \in [ArtifactNames -> RunSummary \union {Nobody}]
    /\ missed.artifacts \in Nat /\ missed = [close |-> missed.close, artifacts |-> missed.artifacts]

\* Where the run stands: before the first summary is begun there is none; while a
\* summary is written no event can come any more, and it counts them all; the
\* failure path starts after a first summary only if writing that one has failed.
StageInv ==
    /\ stage \in {"args", "config", "prepare", "submit", "close", "consume"} =>
          current = Nobody /\ missed.artifacts = 0
    /\ stage \in {"args", "config", "prepare"} => emitted = 0 /\ counted = 0
    /\ stage \in {"closeAgain", "consumeAgain"} =>
          \/ (current = Nobody /\ missed.artifacts = 0)
          \/ /\ missed.artifacts = 1 /\ queueShut
             /\ servers = 0 /\ emitted = counted
    /\ stage = "artifacts" =>
          /\ current # Nobody /\ current.next >= 1 /\ emitted = counted
          /\ current.summary.events = emitted
          /\ missed.artifacts \in {0, 1}
          /\ missed.artifacts = 1 => current.summary.exitCode # 0
          /\ current.summary.exitCode = 0 => queueShut /\ servers = 0
    /\ stage = "consume" => servers = 0
    /\ counted <= emitted

\* What the artifact directory tells: nothing before the first summary, and of a summary
\* the files up to the next one.
ArtifactsInv ==
    /\ current = Nobody => \A f \in ArtifactNames : files[f] = Nobody
    /\ stage = "artifacts" /\ ~directory => \A f \in ArtifactNames : files[f] = Nobody
    /\ stage = "artifacts" =>
          \A i \in DOMAIN Artifacts : i < current.next => files[Artifacts[i]] = current.summary
    /\ stage = "artifacts" /\ missed.artifacts = 0 =>
          \A f \in ArtifactNames : files[f] \in {Nobody, current.summary}
    /\ missed.artifacts = 1 /\ stage # "done" => directory

OneShotInv == OneShotTypes /\ StageInv /\ ArtifactsInv /\ SummaryIsTrue

\* The four artifacts of a run, by their names.
LEMMA ArtifactsAre ==
    /\ DOMAIN Artifacts = 1..4 /\ Len(Artifacts) = 4
    /\ \A i \in 1..4 : Artifacts[i] \in ArtifactNames
    /\ \A f \in ArtifactNames : \E i \in 1..4 : f = Artifacts[i]
  BY DEF Artifacts, ArtifactNames

\* No summary being written is told apart from one that is.
LEMMA NobodyIsNoSummary == Nobody \notin Writing
  BY OneShotAssumption DEF Writing, RunSummary

\* A run with one prompt starts with nothing written.
LEMMA OneShotStarts == OneShotInit => OneShotInv
<1> SUFFICES ASSUME OneShotInit PROVE OneShotInv
  OBVIOUS
<1>1. /\ stage = "args" /\ servers = 0 /\ emitted = 0 /\ counted = 0 /\ queueShut = FALSE
      /\ directory \in BOOLEAN /\ current = Nobody /\ missed = [close |-> FALSE, artifacts |-> 0]
      /\ files = [f \in ArtifactNames |-> Nobody]
  BY DEF OneShotInit, ArtifactNames
<1>2. OneShotTypes
  BY <1>1 DEF OneShotTypes
<1>3. StageInv /\ SummaryIsTrue
  BY <1>1 DEF StageInv, SummaryIsTrue
<1>4. ArtifactsInv
  BY <1>1 DEF ArtifactsInv
<1> QED
  BY <1>2, <1>3, <1>4 DEF OneShotInv

\* Every await of a run, and every failure of one, keeps the story straight.
LEMMA OneShotKeeps == OneShotInv /\ [OneShotNext]_oneShotVars => OneShotInv'
<1> SUFFICES ASSUME OneShotInv, [OneShotNext]_oneShotVars PROVE OneShotInv'
  OBVIOUS
<1> USE ArtifactsAre, NobodyIsNoSummary
<1>1. CASE ParseArgs
  BY <1>1 DEF OneShotInv, OneShotTypes, StageInv, ArtifactsInv, SummaryIsTrue, ParseArgs, Ends
<1>2. CASE Dispatch
  BY <1>2 DEF OneShotInv, OneShotTypes, StageInv, ArtifactsInv, SummaryIsTrue, Dispatch, Ends
<1>3. CASE PrepareRun
  BY <1>3 DEF OneShotInv, OneShotTypes, StageInv, ArtifactsInv, SummaryIsTrue, PrepareRun,
              StartArtifacts, Summary, Writing, RunSummary
<1>4. CASE SubmitEmits
  BY <1>4 DEF OneShotInv, OneShotTypes, StageInv, ArtifactsInv, SummaryIsTrue, SubmitEmits
<1>5. CASE SubmitFails
  BY <1>5 DEF OneShotInv, OneShotTypes, StageInv, ArtifactsInv, SummaryIsTrue, SubmitFails
<1>6. CASE SubmitReturns
  BY <1>6 DEF OneShotInv, OneShotTypes, StageInv, ArtifactsInv, SummaryIsTrue, SubmitReturns
<1>7. CASE Close
  BY <1>7 DEF OneShotInv, OneShotTypes, StageInv, ArtifactsInv, SummaryIsTrue, Close, Closing
<1>8. CASE CloseFails
  BY <1>8 DEF OneShotInv, OneShotTypes, StageInv, ArtifactsInv, SummaryIsTrue, CloseFails, Closing
<1>9. CASE Consume
  BY <1>9 DEF OneShotInv, OneShotTypes, StageInv, ArtifactsInv, SummaryIsTrue, Consume
<1>10. CASE Consumed
  BY <1>10 DEF OneShotInv, OneShotTypes, StageInv, ArtifactsInv, SummaryIsTrue, Consumed,
              StartArtifacts, Summary, Writing, RunSummary
<1>11. CASE WriteArtifact
  <2> DEFINE n == current.next
             sum == current.summary
             name == Artifacts[current.next]
  <2>1. /\ stage = "artifacts" /\ directory /\ n <= 4 /\ current \in Writing
        /\ files' = [files EXCEPT ![name] = sum] /\ current' = [current EXCEPT !.next = n + 1]
        /\ UNCHANGED <<directory, stage, mode, servers, emitted, counted, queueShut, exitCode,
                       runFaults, missed>>
        /\ files \in [ArtifactNames -> RunSummary \union {Nobody}]
        /\ \A i \in DOMAIN Artifacts : i < n => files[Artifacts[i]] = sum
        /\ missed.artifacts = 0 => \A f \in ArtifactNames : files[f] \in {Nobody, sum}
        /\ n >= 1
    BY <1>11 DEF WriteArtifact, OneShotInv, OneShotTypes, StageInv, ArtifactsInv
  <2>2. n \in 1..4 /\ sum \in RunSummary /\ name \in ArtifactNames
    BY <2>1 DEF Writing
  <2>3. /\ current' \in Writing /\ current'.summary = sum /\ current'.next = n + 1
    BY <2>1, <2>2 DEF Writing
  <2>4. /\ files' \in [ArtifactNames -> RunSummary \union {Nobody}]
        /\ \A f \in ArtifactNames : files'[f] = IF f = name THEN sum ELSE files[f]
    BY <2>1, <2>2
  <2>5. OneShotTypes' /\ StageInv' /\ SummaryIsTrue'
    <3> HIDE DEF n, sum, name
    <3>1. OneShotTypes'
      BY <2>1, <2>3, <2>4 DEF OneShotInv, OneShotTypes
    <3>2. StageInv'
      BY <2>1, <2>2, <2>3 DEF OneShotInv, StageInv, n, sum
    <3>3. SummaryIsTrue'
      BY <2>1 DEF SummaryIsTrue
    <3> QED
      BY <3>1, <3>2, <3>3
  <2> HIDE DEF n, sum, name
  <2>6. \A i \in DOMAIN Artifacts : i < n + 1 => files'[Artifacts[i]] = sum
    BY <2>1, <2>2, <2>4 DEF name, n
  <2>7. ArtifactsInv'
    BY <2>1, <2>2, <2>3, <2>4, <2>6 DEF ArtifactsInv, OneShotInv
  <2> QED
    BY <2>5, <2>7 DEF OneShotInv
<1>12. CASE WriteArtifactFails
  BY <1>12 DEF OneShotInv, OneShotTypes, StageInv, ArtifactsInv, SummaryIsTrue, WriteArtifactFails,
              Ends, Fault, Writing, RunSummary
<1>13. CASE ArtifactsWritten
  BY <1>13 DEF OneShotInv, OneShotTypes, StageInv, ArtifactsInv, SummaryIsTrue, ArtifactsWritten, Ends,
              Writing, RunSummary
<1>14. CASE UNCHANGED oneShotVars
  BY <1>14 DEF OneShotInv, OneShotTypes, StageInv, ArtifactsInv, SummaryIsTrue, oneShotVars
<1> QED
  BY <1>1, <1>2, <1>3, <1>4, <1>5, <1>6, <1>7, <1>8, <1>9, <1>10, <1>11, <1>12, <1>13, <1>14
     DEF OneShotNext

\* A run with one prompt leaves no half of a story: what its artifacts say is one
\* summary, of all the events that came, or the exit code says that it failed
\* (oneShot.ts:49-170).
THEOREM OneStory == OneShotSpec => []SummaryIsTrue
<1>1. OneShotInv => SummaryIsTrue
  BY DEF OneShotInv
<1> QED
  BY <1>1, OneShotStarts, OneShotKeeps, PTL DEF OneShotSpec

-------------------------------------------------------------------------------
(***************************************************************************)
(* The provider proxy (ProviderProxy).                                     *)
(***************************************************************************)
States == {"idle", "upstream", "body", "stream", "flushing", "recording", "rerecording",
           "reporting", "lost", "done"}
Recorded == {"flushing", "recording", "rerecording", "reporting", "done"}
StreamedUsage == [usage : Nat, token : BOOLEAN, ends : {"lf", "crlf"}]
ServedExchange == [at : States, id : Nat, status : Nat, usage : Nat, token : BOOLEAN,
             stream : Seq(StreamedUsage), text : Seq(StreamedUsage)]
ErrorKind == {e \in [kind : {"none", "upstream_http_error", "proxy_error"}, retryable : BOOLEAN] :
                 e.retryable => e.kind # "none"}
ProxyRecord == [id : Nat, status : Nat, usage : Nat, token : BOOLEAN, error : ErrorKind]

ProxyTypes ==
    /\ exchange \in [Clients -> ServedExchange] /\ requestSeq \in Nat
    /\ records \in Seq(ProxyRecord) /\ profile \in Seq(ProxyRecord)
    /\ writeQueue \in Seq(Clients \union {"stop"}) /\ broken \in BOOLEAN

\* The requests that came have ids of their own, and there is one record for each that
\* has been recorded, and none for another.
Ledger(ex, rs, last) ==
    /\ \A c \in Clients : ex[c].at # "idle" => ex[c].id \in 1..last
    /\ \A c, d \in Clients : ex[c].at # "idle" /\ ex[d].at # "idle" /\ ex[c].id = ex[d].id => c = d
    /\ \A i \in DOMAIN rs : \E c \in Clients : ex[c].at \in Recorded /\ rs[i].id = ex[c].id
    /\ \A i, j \in DOMAIN rs : rs[i].id = rs[j].id => i = j
    /\ \A c \in Clients : ex[c].at \in Recorded =>
          \E i \in DOMAIN rs : rs[i] = Record(ex[c], rs[i].error)

Told(ex, ps) ==
    \A c \in Clients : ex[c].at = "done" =>
        \E i \in DOMAIN ps : ps[i] = Record(ex[c], ps[i].error)

ProxyInv ==
    /\ ProxyTypes
    /\ ~broken =>
          /\ Ledger(exchange, records, requestSeq)
          /\ Told(exchange, profile)
          /\ \A i \in DOMAIN writeQueue : writeQueue[i] \in Clients =>
                exchange[writeQueue[i]].at \in Recorded
          /\ writeQueue = <<>> => profile = records

\* A set in some order.
LEMMA SetInOrder ==
    ASSUME NEW S, IsFiniteSet(S)
    PROVE  /\ SetToSeq(S) \in Seq(S) /\ DOMAIN SetToSeq(S) = 1..Len(SetToSeq(S))
           /\ \A i, j \in DOMAIN SetToSeq(S) : SetToSeq(S)[i] = SetToSeq(S)[j] => i = j
           /\ \A x \in S : \E i \in DOMAIN SetToSeq(S) : SetToSeq(S)[i] = x
<1> DEFINE n == Cardinality(S)
           f == SetToSeq(S)
<1>1. n \in Nat /\ ExistsBijection(1..n, S)
  BY FS_CardinalityType
<1>2. PICK g \in [1..n -> S] : IsInjective(g)
  BY <1>1 DEF ExistsBijection, Bijection, Injection
<1>3. f \in [1..n -> S] /\ IsInjective(f)
  BY <1>2 DEF SetToSeq
<1> HIDE DEF f, n
<1>4. f \in Seq(S) /\ DOMAIN f = 1..Len(f) /\ Len(f) = n
  BY <1>1, <1>3
<1>5. \A i, j \in DOMAIN f : f[i] = f[j] => i = j
  BY <1>3 DEF IsInjective
<1>6. Range(f) = S
  <2>1. f \in Bijection(1..n, Range(f))
    BY <1>3, <1>5 DEF Bijection, Injection, Surjection, Range, IsInjective
  <2>2. IsFiniteSet(1..n) /\ Cardinality(1..n) = n
    BY <1>1, FS_Interval
  <2>3. IsFiniteSet(Range(f)) /\ Cardinality(Range(f)) = n
    BY <2>1, <2>2, FS_Bijection DEF ExistsBijection
  <2>4. Range(f) \in SUBSET S
    BY <1>3 DEF Range
  <2> QED
    BY <2>3, <2>4, FS_Subset DEF n
<1> QED
  BY <1>4, <1>5, <1>6 DEF f, Range

\* The totals of a snapshot agree.
LEMMA TotalsAgree ==
    ASSUME NEW rs \in Seq(ProxyRecord)
    PROVE  LET t == SnapshotTotals(rs)
           IN  t.requests = t.successes + t.errors /\ t.retryable <= t.errors
<1> DEFINE n == Len(rs)
           good == {i \in DOMAIN rs : rs[i].error.kind = "none"}
           bad == {i \in DOMAIN rs : rs[i].error.kind # "none"}
           again == {i \in DOMAIN rs : rs[i].error.retryable}
           t == SnapshotTotals(rs)
<1>1. n \in Nat /\ DOMAIN rs = 1..n /\ \A i \in 1..n : rs[i].error \in ErrorKind
  <2>1. \A i \in 1..n : rs[i] \in ProxyRecord
    OBVIOUS
  <2> QED
    BY <2>1 DEF ProxyRecord
<1>2. /\ t.requests = n /\ t.successes = Cardinality(good) /\ t.errors = Cardinality(bad)
      /\ t.retryable = Cardinality(again)
  BY DEF SnapshotTotals
<1>3. IsFiniteSet(1..n) /\ Cardinality(1..n) = n
  BY <1>1, FS_Interval
<1>4. bad = (1..n) \ good /\ (1..n) \intersect good = good /\ again \subseteq bad
  BY <1>1 DEF ErrorKind
<1>5. IsFiniteSet(good) /\ IsFiniteSet(bad) /\ good \in SUBSET (1..n)
  BY <1>3, <1>4, FS_Subset, FS_Difference
<1>6. Cardinality(good) \in Nat /\ Cardinality(bad) \in Nat
  BY <1>5, FS_CardinalityType
<1>7. Cardinality(bad) = n - Cardinality(good)
  BY <1>3, <1>4, FS_Difference
<1>8. Cardinality(again) <= Cardinality(bad)
  BY <1>4, <1>5, FS_Subset
<1> HIDE DEF good, bad, again, n, t
<1>9. t.requests = t.successes + t.errors /\ t.retryable <= t.errors
  BY <1>1, <1>2, <1>6, <1>7, <1>8
<1> QED
  BY <1>9 DEF t

\* What an exchange is recorded as does not change.
KeptExchange(x, y) ==
    /\ y.id = x.id /\ (y.at = "idle" <=> x.at = "idle") /\ (y.at \in Recorded <=> x.at \in Recorded)
    /\ x.at \in Recorded => y.status = x.status /\ y.usage = x.usage /\ y.token = x.token

\* The record of an exchange, and what can be read back from it.
LEMMA RecordOf ==
    ASSUME NEW x, NEW e
    PROVE  Record(x, e).id = x.id /\ Record(x, e).error = e
  BY DEF Record

\* An exchange that is kept has the record it had.
LEMMA KeptRecord ==
    ASSUME NEW x, NEW y, NEW e, KeptExchange(x, y), x.at \in Recorded
    PROVE  Record(y, e) = Record(x, e)
  BY DEF KeptExchange, Record

\* The ledger stays one when requests that were under way are recorded, each once.
LEMMA LedgerGrows ==
    ASSUME NEW ex, NEW ex2, NEW rs \in Seq(ProxyRecord), NEW new \in Seq(ProxyRecord),
           NEW last, NEW cut \in Seq(Clients), Len(new) = Len(cut), Ledger(ex, rs, last),
           \A i, j \in DOMAIN cut : cut[i] = cut[j] => i = j,
           \A i \in DOMAIN cut :
              /\ ex[cut[i]].at \in {"upstream", "body", "stream"}
              /\ ex2[cut[i]].at \in Recorded /\ ex2[cut[i]].id = ex[cut[i]].id
              /\ new[i] = Record(ex2[cut[i]], new[i].error),
           \A c \in Clients : (\A i \in DOMAIN cut : cut[i] # c) => KeptExchange(ex[c], ex2[c])
    PROVE  Ledger(ex2, rs \o new, last)
<1> DEFINE m == Len(rs)
           k == Len(new)
           all == rs \o new
<1>1. /\ m \in Nat /\ k \in Nat /\ DOMAIN rs = 1..m /\ DOMAIN new = 1..k /\ DOMAIN cut = 1..k
      /\ \A i \in 1..k : cut[i] \in Clients
  OBVIOUS
<1>2. /\ DOMAIN all = 1..m + k
      /\ \A i \in 1..m : i \in DOMAIN all /\ all[i] = rs[i]
      /\ \A i \in 1..k : m + i \in DOMAIN all /\ all[m + i] = new[i]
  <2>1. Len(all) = m + k /\ \A i \in 1..m + k : all[i] = IF i <= m THEN rs[i] ELSE new[i - m]
    BY ConcatProperties
  <2>2. DOMAIN all = 1..m + k
    BY <2>1, <1>1, ConcatProperties
  <2> HIDE DEF all, m, k
  <2>3. \A i \in 1..m : i \in 1..m + k /\ i <= m
    BY <1>1
  <2>4. \A i \in 1..k : m + i \in 1..m + k /\ ~(m + i <= m) /\ (m + i) - m = i
    BY <1>1
  <2> QED
    BY <2>1, <2>2, <2>3, <2>4
<1> HIDE DEF all, m, k
<1>3. \A i \in DOMAIN all : i \in 1..m \/ \E j \in 1..k : i = m + j
  <2> SUFFICES ASSUME NEW i \in DOMAIN all, i \notin 1..m PROVE \E j \in 1..k : i = m + j
    OBVIOUS
  <2>1. i - m \in 1..k /\ i = m + (i - m)
    BY <1>1, <1>2
  <2> QED
    BY <2>1
<1>4. /\ \A c \in Clients : ex[c].at # "idle" => ex[c].id \in 1..last
      /\ \A c, d \in Clients : ex[c].at # "idle" /\ ex[d].at # "idle" /\ ex[c].id = ex[d].id => c = d
      /\ \A i \in 1..m : \E c \in Clients : ex[c].at \in Recorded /\ rs[i].id = ex[c].id
      /\ \A i, j \in 1..m : rs[i].id = rs[j].id => i = j
      /\ \A c \in Clients : ex[c].at \in Recorded =>
            \E i \in 1..m : rs[i] = Record(ex[c], rs[i].error)
  <2>1. DOMAIN rs = 1..m
    BY <1>1
  <2> HIDE DEF m
  <2> QED
    BY ONLY Ledger(ex, rs, last), <2>1 DEF Ledger
<1>5. \A c \in Clients : ex2[c].id = ex[c].id /\ (ex2[c].at = "idle" <=> ex[c].at = "idle")
  <2> SUFFICES ASSUME NEW c \in Clients
               PROVE  ex2[c].id = ex[c].id /\ (ex2[c].at = "idle" <=> ex[c].at = "idle")
    OBVIOUS
  <2>1. CASE \A i \in 1..k : cut[i] # c
    BY <1>1, <2>1 DEF KeptExchange
  <2>2. CASE \E i \in 1..k : cut[i] = c
    BY <1>1, <2>2 DEF Recorded
  <2> QED
    BY <2>1, <2>2
<1>6. \A c \in Clients : ex[c].at \in Recorded => KeptExchange(ex[c], ex2[c])
  <2> SUFFICES ASSUME NEW c \in Clients, ex[c].at \in Recorded PROVE KeptExchange(ex[c], ex2[c])
    OBVIOUS
  <2>1. \A i \in DOMAIN cut : cut[i] # c
    BY DEF Recorded
  <2> QED
    BY <2>1
<1>7. /\ \A c \in Clients : ex2[c].at # "idle" => ex2[c].id \in 1..last
      /\ \A c, d \in Clients : ex2[c].at # "idle" /\ ex2[d].at # "idle" /\ ex2[c].id = ex2[d].id => c = d
  BY <1>4, <1>5
<1>8. \A j \in 1..k : new[j].id = ex[cut[j]].id
  BY <1>1, RecordOf
<1>9. ASSUME NEW i \in DOMAIN all
      PROVE  \E c \in Clients : ex2[c].at \in Recorded /\ all[i].id = ex2[c].id
  <2>1. CASE i \in 1..m
    <3>1. PICK c \in Clients : ex[c].at \in Recorded /\ rs[i].id = ex[c].id
      BY <1>4, <2>1
    <3> QED
      BY <1>2, <1>5, <1>6, <2>1, <3>1 DEF KeptExchange
  <2>2. CASE \E j \in 1..k : i = m + j
    <3>1. PICK j \in 1..k : i = m + j
      BY <2>2
    <3>2. all[i].id = ex2[cut[j]].id /\ cut[j] \in Clients /\ ex2[cut[j]].at \in Recorded
      BY <1>1, <1>2, <1>5, <1>8, <3>1
    <3> QED
      BY <3>2
  <2> QED
    BY <1>3, <2>1, <2>2
<1>10. \A i \in 1..m, j \in 1..k : rs[i].id # new[j].id
  <2> SUFFICES ASSUME NEW i \in 1..m, NEW j \in 1..k, rs[i].id = new[j].id PROVE FALSE
    OBVIOUS
  <2>1. PICK c \in Clients : ex[c].at \in Recorded /\ rs[i].id = ex[c].id
    BY <1>4
  <2>2. cut[j] \in Clients /\ ex[cut[j]].at \in {"upstream", "body", "stream"}
    BY <1>1
  <2>3. ex[c].at # "idle" /\ ex[cut[j]].at # "idle"
    BY <2>1, <2>2 DEF Recorded
  <2>4. ex[c].id = ex[cut[j]].id
    BY <1>8, <2>1
  <2>5. c = cut[j]
    BY <1>4, <2>1, <2>2, <2>3, <2>4
  <2> QED
    BY <2>1, <2>2, <2>5 DEF Recorded
<1>11. \A i, j \in 1..k : new[i].id = new[j].id => i = j
  <2> SUFFICES ASSUME NEW i \in 1..k, NEW j \in 1..k, new[i].id = new[j].id PROVE i = j
    OBVIOUS
  <2>1. cut[i] = cut[j]
    BY <1>1, <1>4, <1>8
  <2> QED
    BY <1>1, <2>1
<1>12. ASSUME NEW i \in DOMAIN all, NEW j \in DOMAIN all, all[i].id = all[j].id
       PROVE  i = j
  <2>1. CASE i \in 1..m /\ j \in 1..m
    BY <1>2, <1>4, <1>12, <2>1
  <2>2. CASE i \in 1..m /\ j \notin 1..m
    <3>1. PICK b \in 1..k : j = m + b
      BY <1>3, <2>2
    <3> QED
      BY <1>2, <1>10, <1>12, <2>2, <3>1
  <2>3. CASE i \notin 1..m /\ j \in 1..m
    <3>1. PICK a \in 1..k : i = m + a
      BY <1>3, <2>3
    <3> QED
      BY <1>2, <1>10, <1>12, <2>3, <3>1
  <2>4. CASE i \notin 1..m /\ j \notin 1..m
    <3>1. PICK a \in 1..k : i = m + a
      BY <1>3, <2>4
    <3>2. PICK b \in 1..k : j = m + b
      BY <1>3, <2>4
    <3>3. new[a].id = new[b].id
      BY <1>2, <1>12, <3>1, <3>2
    <3> QED
      BY <1>11, <3>1, <3>2, <3>3
  <2> QED
    BY <2>1, <2>2, <2>3, <2>4
<1>13. ASSUME NEW c \in Clients, ex2[c].at \in Recorded
       PROVE  \E i \in DOMAIN all : all[i] = Record(ex2[c], all[i].error)
  <2>1. CASE \E j \in 1..k : cut[j] = c
    <3>1. PICK j \in 1..k : cut[j] = c
      BY <1>1, <2>1
    <3>2. new[j] = Record(ex2[c], new[j].error)
      BY <1>1, <3>1
    <3>3. m + j \in DOMAIN all /\ all[m + j] = new[j]
      BY <1>2
    <3> QED
      BY <3>2, <3>3
  <2>2. CASE \A j \in 1..k : cut[j] # c
    <3>1. ex[c].at \in Recorded /\ KeptExchange(ex[c], ex2[c])
      BY <1>1, <1>13, <2>2 DEF KeptExchange
    <3>2. PICK i \in 1..m : rs[i] = Record(ex[c], rs[i].error)
      BY <1>4, <3>1
    <3>3. rs[i] = Record(ex2[c], rs[i].error)
      BY <3>1, <3>2, KeptRecord
    <3> QED
      BY <1>2, <3>3
  <2> QED
    BY <2>1, <2>2
<1>14. Ledger(ex2, all, last)
  BY <1>7, <1>9, <1>12, <1>13 DEF Ledger
<1> QED
  BY <1>14 DEF all

\* An exchange with one of its fields changed is an exchange.
LEMMA ExchangeWith ==
    ASSUME NEW x \in ServedExchange
    PROVE  /\ \A a \in States : [x EXCEPT !.at = a] \in ServedExchange /\ [x EXCEPT !.at = a].at = a
                                 /\ [x EXCEPT !.at = a].id = x.id
           /\ \A n \in Nat :
                 /\ [x EXCEPT !.id = n] \in ServedExchange /\ [x EXCEPT !.id = n].id = n
                 /\ [x EXCEPT !.id = n].at = x.at
                 /\ [x EXCEPT !.status = n] \in ServedExchange /\ [x EXCEPT !.status = n].id = x.id
                 /\ [x EXCEPT !.status = n].at = x.at
                 /\ [x EXCEPT !.usage = n] \in ServedExchange /\ [x EXCEPT !.usage = n].id = x.id
                 /\ [x EXCEPT !.usage = n].at = x.at
           /\ \A t \in Seq(StreamedUsage) :
                 /\ [x EXCEPT !.stream = t] \in ServedExchange /\ [x EXCEPT !.stream = t].id = x.id
                 /\ [x EXCEPT !.stream = t].at = x.at
  BY DEF ServedExchange

\* What the parser makes of one more event of the stream.
LEMMA ParsedAs ==
    ASSUME NEW x \in ServedExchange, NEW events \in Seq(StreamedUsage)
    PROVE  /\ ParseRawEvent(x, events) \in ServedExchange /\ ParseRawEvent(x, events).id = x.id
           /\ ParseRawEvent(x, events).at = x.at /\ ParseRawEvent(x, events).stream = x.stream
<1>1. CASE Len(events) # 1
  BY <1>1 DEF ParseRawEvent
<1>2. CASE Len(events) = 1
  <2>1. events[1] \in StreamedUsage
    BY <1>2
  <2> QED
    BY <1>2, <2>1 DEF ParseRawEvent, ServedExchange, StreamedUsage
<1> QED
  BY <1>1, <1>2

\* What has been parsed of a stream has the type of an exchange's usage.
LEMMA Parsed ==
    ASSUME NEW x \in ServedExchange
    PROVE  /\ FinishParsing(x) \in ServedExchange /\ FinishParsing(x).id = x.id
           /\ \A event \in StreamedUsage :
                 /\ Feed(x, event) \in ServedExchange /\ Feed(x, event).id = x.id
                 /\ Feed(x, event).at = x.at /\ Feed(x, event).stream = x.stream
<1>1. x.text \in Seq(StreamedUsage) /\ <<>> \in Seq(StreamedUsage)
  BY DEF ServedExchange
<1>2. \A y \in ServedExchange, t \in Seq(StreamedUsage) :
         [y EXCEPT !.text = t] \in ServedExchange /\ [y EXCEPT !.text = t].id = y.id
         /\ [y EXCEPT !.text = t].at = y.at /\ [y EXCEPT !.text = t].stream = y.stream
  BY DEF ServedExchange
<1>3. FinishParsing(x) \in ServedExchange /\ FinishParsing(x).id = x.id
  BY <1>1, <1>2, ParsedAs DEF FinishParsing
<1>4. ASSUME NEW event \in StreamedUsage
      PROVE  /\ Feed(x, event) \in ServedExchange /\ Feed(x, event).id = x.id
             /\ Feed(x, event).at = x.at /\ Feed(x, event).stream = x.stream
  <2>1. Append(x.text, event) \in Seq(StreamedUsage)
    BY <1>1, AppendProperties
  <2>2. ParseRawEvent(x, Append(x.text, event)) \in ServedExchange
        /\ ParseRawEvent(x, Append(x.text, event)).id = x.id
        /\ ParseRawEvent(x, Append(x.text, event)).at = x.at
        /\ ParseRawEvent(x, Append(x.text, event)).stream = x.stream
    BY <2>1, ParsedAs
  <2>3. CASE event.ends = "lf"
    <3>1. Feed(x, event) = [ParseRawEvent(x, Append(x.text, event)) EXCEPT !.text = <<>>]
      BY <2>3 DEF Feed
    <3> QED
      BY <1>1, <1>2, <2>2, <3>1
  <2>4. CASE event.ends # "lf"
    <3>1. Feed(x, event) = [x EXCEPT !.text = Append(x.text, event)]
      BY <2>4 DEF Feed
    <3> QED
      BY <1>2, <2>1, <3>1
  <2> QED
    BY <2>3, <2>4
<1> QED
  BY <1>3, <1>4

\* The record of an exchange has the type of a record.
LEMMA RecordTyped ==
    ASSUME NEW x \in ServedExchange, NEW e \in ErrorKind
    PROVE  /\ Record(x, e) \in ProxyRecord
           /\ \A a \in States : [x EXCEPT !.at = a] \in ServedExchange /\ [x EXCEPT !.at = a].at = a
                  /\ [x EXCEPT !.at = a].id = x.id /\ Record([x EXCEPT !.at = a], e) = Record(x, e)
  BY DEF Record, ServedExchange, ProxyRecord

\* The errors a record may tell of.
LEMMA Errors == BrokenOff \in ErrorKind /\ \A s \in Nat : HttpError(s) \in ErrorKind
<1>1. BrokenOff \in ErrorKind
  BY DEF BrokenOff, ErrorKind
<1>2. ASSUME NEW s \in Nat PROVE HttpError(s) \in ErrorKind
  <2>1. IsRetryableStatus(s) \in BOOLEAN
    BY DEF IsRetryableStatus
  <2> QED
    BY <2>1 DEF HttpError, ErrorKind
<1> QED
  BY <1>1, <1>2

\* The ledger stays one when nothing is recorded and what was recorded is kept.
LEMMA LedgerStays ==
    ASSUME NEW ex, NEW ex2, NEW rs \in Seq(ProxyRecord), NEW last, Ledger(ex, rs, last),
           \A c \in Clients : KeptExchange(ex[c], ex2[c])
    PROVE  Ledger(ex2, rs, last)
<1>1. <<>> \in Seq(ProxyRecord) /\ <<>> \in Seq(Clients) /\ DOMAIN <<>> = {} /\ Len(<<>>) = 0
  OBVIOUS
<1>2. Ledger(ex2, rs \o <<>>, last)
  BY <1>1, LedgerGrows
<1> QED
  BY <1>2, ConcatEmptySeq

\* A step that records nothing and touches nothing of what is recorded.
LEMMA QuietStep ==
    ASSUME ProxyInv, ProxyTypes', UNCHANGED <<requestSeq, records, writeQueue, broken, profile>>,
           \A c \in Clients : KeptExchange(exchange[c], exchange'[c]) /\ (exchange'[c].at = "done" => exchange[c].at = "done")
    PROVE  ProxyInv'
<1> SUFFICES ASSUME ~broken
             PROVE  /\ Ledger(exchange', records, requestSeq) /\ Told(exchange', profile)
                    /\ \A i \in DOMAIN writeQueue : writeQueue[i] \in Clients =>
                          exchange'[writeQueue[i]].at \in Recorded
                    /\ writeQueue = <<>> => profile = records
  BY DEF ProxyInv
<1>1. /\ Ledger(exchange, records, requestSeq) /\ Told(exchange, profile)
      /\ \A i \in DOMAIN writeQueue : writeQueue[i] \in Clients =>
            exchange[writeQueue[i]].at \in Recorded
      /\ writeQueue = <<>> => profile = records
      /\ records \in Seq(ProxyRecord)
  BY DEF ProxyInv, ProxyTypes
<1>2. Ledger(exchange', records, requestSeq)
  BY <1>1, LedgerStays
<1>3. Told(exchange', profile)
  <2> SUFFICES ASSUME NEW c \in Clients, exchange'[c].at = "done"
               PROVE  \E i \in DOMAIN profile : profile[i] = Record(exchange'[c], profile[i].error)
    BY DEF Told
  <2>1. exchange[c].at = "done" /\ exchange[c].at \in Recorded /\ KeptExchange(exchange[c], exchange'[c])
    BY DEF Recorded
  <2>2. PICK i \in DOMAIN profile : profile[i] = Record(exchange[c], profile[i].error)
    BY <1>1, <2>1 DEF Told
  <2> QED
    BY <2>1, <2>2, KeptRecord
<1> QED
  BY <1>1, <1>2, <1>3 DEF KeptExchange

\* A step that records a request under way.
LEMMA RecordingKeeps ==
    ASSUME ProxyInv, NEW c \in Clients, exchange[c].at \in {"upstream", "body", "stream"},
           NEW x \in ServedExchange, x.id = exchange[c].id, NEW e \in ErrorKind,
           NEW next \in Recorded \ {"done"}, Recording(c, x, e, next),
           UNCHANGED <<requestSeq, broken, profile>>
    PROVE  ProxyInv'
<1> DEFINE y == [x EXCEPT !.at = next]
           new == <<Record(x, e)>>
           cut == <<c>>
<1>1. next \in States /\ next \in Recorded /\ next # "done"
  BY DEF States, Recorded
<1>2. y \in ServedExchange /\ y.at = next /\ y.id = x.id /\ Record(y, e) = Record(x, e) /\ Record(x, e) \in ProxyRecord
  BY <1>1, RecordTyped
<1>3. /\ records' = Append(records, Record(x, e)) /\ writeQueue' = Append(writeQueue, c)
      /\ exchange' = [exchange EXCEPT ![c] = y]
  BY DEF Recording
<1> HIDE DEF y
<1>4. /\ exchange \in [Clients -> ServedExchange] /\ requestSeq \in Nat /\ records \in Seq(ProxyRecord)
      /\ profile \in Seq(ProxyRecord) /\ writeQueue \in Seq(Clients \union {"stop"}) /\ broken \in BOOLEAN
  BY DEF ProxyInv, ProxyTypes
<1>5. exchange' \in [Clients -> ServedExchange] /\ exchange'[c] = y
      /\ \A d \in Clients : d # c => exchange'[d] = exchange[d]
  BY <1>2, <1>3, <1>4
<1>6. ProxyTypes'
  <2>1. records' \in Seq(ProxyRecord)
    BY <1>2, <1>3, <1>4, AppendProperties
  <2>2. writeQueue' \in Seq(Clients \union {"stop"})
    BY <1>3, <1>4, AppendProperties
  <2> QED
    BY <1>4, <1>5, <2>1, <2>2 DEF ProxyTypes
<1>7. SUFFICES ASSUME ~broken
               PROVE  /\ Ledger(exchange', records', requestSeq) /\ Told(exchange', profile)
                      /\ \A i \in DOMAIN writeQueue' : writeQueue'[i] \in Clients =>
                            exchange'[writeQueue'[i]].at \in Recorded
                      /\ writeQueue' # <<>>
  BY <1>6 DEF ProxyInv
<1>8. /\ Ledger(exchange, records, requestSeq) /\ Told(exchange, profile)
      /\ \A i \in DOMAIN writeQueue : writeQueue[i] \in Clients =>
            exchange[writeQueue[i]].at \in Recorded
  BY <1>7 DEF ProxyInv
<1>9. Ledger(exchange', records', requestSeq)
  <2>1. new \in Seq(ProxyRecord) /\ cut \in Seq(Clients) /\ DOMAIN cut = {1} /\ Len(new) = 1 /\ Len(cut) = 1
        /\ cut[1] = c /\ new[1] = Record(x, e)
    BY <1>2
  <2>2. new[1] = Record(exchange'[cut[1]], new[1].error)
    BY <1>2, <1>5, <2>1, RecordOf
  <2>3. \A d \in Clients : KeptExchange(exchange[d], exchange[d])
    BY DEF KeptExchange
  <2>4. \A d \in Clients : (\A i \in DOMAIN cut : cut[i] # d) => KeptExchange(exchange[d], exchange'[d])
    BY <1>5, <2>1, <2>3
  <2>5. \A i \in DOMAIN cut :
              /\ exchange[cut[i]].at \in {"upstream", "body", "stream"}
              /\ exchange'[cut[i]].at \in Recorded /\ exchange'[cut[i]].id = exchange[cut[i]].id
              /\ new[i] = Record(exchange'[cut[i]], new[i].error)
    BY <1>1, <1>2, <1>5, <2>1, <2>2
  <2>6. \A i, j \in DOMAIN cut : cut[i] = cut[j] => i = j
    BY <2>1
  <2> HIDE DEF new, cut
  <2>7. Ledger(exchange', records \o new, requestSeq)
    BY <1>4, <1>8, <2>1, <2>4, <2>5, <2>6, LedgerGrows
  <2>8. records' = records \o new
    BY <1>2, <1>3, <1>4, AppendIsConcat DEF new
  <2> QED
    BY <2>7, <2>8
<1>10. Told(exchange', profile)
  BY <1>1, <1>2, <1>5, <1>8 DEF Told
<1>11. \A i \in DOMAIN writeQueue' : writeQueue'[i] \in Clients => exchange'[writeQueue'[i]].at \in Recorded
  <2> SUFFICES ASSUME NEW i \in DOMAIN writeQueue', writeQueue'[i] \in Clients
               PROVE  exchange'[writeQueue'[i]].at \in Recorded
    OBVIOUS
  <2>1. DOMAIN writeQueue = 1..Len(writeQueue) /\ DOMAIN writeQueue' = 1..Len(writeQueue) + 1 /\ Len(writeQueue) \in Nat
    BY <1>3, <1>4
  <2>2. CASE i \in 1..Len(writeQueue)
    <3>1. writeQueue'[i] = writeQueue[i] /\ i \in DOMAIN writeQueue
      BY <1>3, <1>4, <2>1, <2>2
    <3>2. exchange[writeQueue[i]].at \in Recorded
      BY <1>8, <3>1
    <3> QED
      BY <1>1, <1>2, <1>5, <3>1, <3>2
  <2>3. CASE i = Len(writeQueue) + 1
    BY <1>1, <1>2, <1>3, <1>4, <1>5, <2>3
  <2> QED
    BY <2>1, <2>2, <2>3
<1>12. writeQueue' # <<>>
  BY <1>3, <1>4, AppendProperties
<1> QED
  BY <1>9, <1>10, <1>11, <1>12

\* A proxy starts with an empty ledger and no snapshot to write.
LEMMA ProxyStarts == ProxyInit => ProxyInv
<1> SUFFICES ASSUME ProxyInit PROVE ProxyInv
  OBVIOUS
<1>1. /\ exchange = [c \in Clients |-> NotSent] /\ requestSeq = 0 /\ records = <<>> /\ writeQueue = <<>>
      /\ broken = FALSE /\ profile = <<>>
  BY DEF ProxyInit
<1>2. NotSent \in ServedExchange /\ NotSent.at = "idle"
  BY DEF NotSent, ServedExchange, States
<1>3. \A c \in Clients : exchange[c].at = "idle"
  BY <1>1, <1>2
<1>4. ProxyTypes
  <2>1. exchange \in [Clients -> ServedExchange]
    BY <1>1, <1>2
  <2>2. records \in Seq(ProxyRecord) /\ profile \in Seq(ProxyRecord)
        /\ writeQueue \in Seq(Clients \union {"stop"})
    BY <1>1
  <2> QED
    BY <1>1, <2>1, <2>2 DEF ProxyTypes
<1>5. Ledger(exchange, records, requestSeq) /\ Told(exchange, profile)
  BY <1>1, <1>3 DEF Ledger, Told, Recorded
<1> QED
  BY <1>1, <1>4, <1>5 DEF ProxyInv

\* A request that comes gets an id no other has.
LEMMA ArriveKeeps ==
    ASSUME ProxyInv, NEW c \in Clients, Arrive(c)
    PROVE  ProxyInv'
<1> DEFINE y == [[NotSent EXCEPT !.at = "upstream"] EXCEPT !.id = requestSeq + 1]
<1>1. /\ exchange \in [Clients -> ServedExchange] /\ requestSeq \in Nat /\ exchange[c].at = "idle"
      /\ requestSeq' = requestSeq + 1 /\ exchange' = [exchange EXCEPT ![c] = y]
      /\ UNCHANGED <<serving, records, writeQueue, broken, profile, proxyFaults>>
  BY DEF Arrive, ProxyInv, ProxyTypes
<1>2. y \in ServedExchange /\ y.at = "upstream" /\ y.id = requestSeq + 1
  <2>1. NotSent \in ServedExchange
    BY DEF NotSent, ServedExchange, States
  <2>2. "upstream" \in States /\ requestSeq + 1 \in Nat
    BY <1>1 DEF States
  <2> DEFINE z == [NotSent EXCEPT !.at = "upstream"]
  <2>3. z \in ServedExchange /\ z.at = "upstream"
    BY <2>1, <2>2, ExchangeWith
  <2>4. y = [z EXCEPT !.id = requestSeq + 1]
    OBVIOUS
  <2> HIDE DEF y, z
  <2> QED
    BY <2>2, <2>3, <2>4, ExchangeWith
<1> HIDE DEF y
<1>3. exchange' \in [Clients -> ServedExchange] /\ exchange'[c] = y
      /\ \A d \in Clients : d # c => exchange'[d] = exchange[d]
  BY <1>1, <1>2
<1>4. ProxyTypes'
  BY <1>1, <1>3 DEF ProxyInv, ProxyTypes
<1>5. SUFFICES ASSUME ~broken
               PROVE  /\ Ledger(exchange', records, requestSeq + 1) /\ Told(exchange', profile)
                      /\ \A i \in DOMAIN writeQueue : writeQueue[i] \in Clients =>
                            exchange'[writeQueue[i]].at \in Recorded
                      /\ writeQueue = <<>> => profile = records
  BY <1>1, <1>4 DEF ProxyInv
<1>6. /\ Ledger(exchange, records, requestSeq) /\ Told(exchange, profile)
      /\ \A i \in DOMAIN writeQueue : writeQueue[i] \in Clients =>
            exchange[writeQueue[i]].at \in Recorded
      /\ writeQueue = <<>> => profile = records
  BY <1>5 DEF ProxyInv
<1>7. /\ \A d \in Clients : exchange[d].at # "idle" => exchange[d].id \in 1..requestSeq
      /\ \A a, d \in Clients : exchange[a].at # "idle" /\ exchange[d].at # "idle"
                                 /\ exchange[a].id = exchange[d].id => a = d
  BY <1>6 DEF Ledger
<1>8. \A d \in Clients : exchange[d].at \in Recorded => d # c /\ exchange'[d] = exchange[d]
  BY <1>1, <1>3 DEF Recorded
<1>9. \A d \in Clients : exchange'[d].at \in Recorded => exchange'[d] = exchange[d]
  BY <1>2, <1>3 DEF Recorded
<1>10. \A d \in Clients : exchange'[d].at # "idle" => exchange'[d].id \in 1..requestSeq + 1
  BY <1>1, <1>2, <1>3, <1>7
<1>11. \A a, d \in Clients : exchange'[a].at # "idle" /\ exchange'[d].at # "idle"
                              /\ exchange'[a].id = exchange'[d].id => a = d
  BY <1>1, <1>2, <1>3, <1>7
<1>12. Ledger(exchange', records, requestSeq + 1)
  <2>1. \A i \in DOMAIN records : \E d \in Clients :
            exchange'[d].at \in Recorded /\ records[i].id = exchange'[d].id
    BY <1>6, <1>8 DEF Ledger
  <2>2. \A d \in Clients : exchange'[d].at \in Recorded =>
            \E i \in DOMAIN records : records[i] = Record(exchange'[d], records[i].error)
    BY <1>6, <1>9 DEF Ledger
  <2>3. \A i, j \in DOMAIN records : records[i].id = records[j].id => i = j
    BY <1>6 DEF Ledger
  <2> QED
    BY <1>10, <1>11, <2>1, <2>2, <2>3 DEF Ledger
<1>13. Told(exchange', profile)
  BY <1>6, <1>2, <1>3 DEF Told
<1>14. \A i \in DOMAIN writeQueue : writeQueue[i] \in Clients => exchange'[writeQueue[i]].at \in Recorded
  BY <1>6, <1>8
<1> QED
  BY <1>6, <1>12, <1>13, <1>14

\* What goes on upstream or in a stream is not recorded.
LEMMA UnderWayKeeps ==
    ASSUME ProxyInv, NEW c \in Clients, NEW y \in ServedExchange, exchange' = [exchange EXCEPT ![c] = y],
           exchange[c].at \notin Recorded, exchange[c].at # "idle",
           y.at \notin Recorded, y.at # "idle", y.id = exchange[c].id,
           UNCHANGED <<requestSeq, records, writeQueue, broken, profile>>
    PROVE  ProxyInv'
<1>1. ProxyTypes /\ exchange \in [Clients -> ServedExchange]
  BY DEF ProxyInv, ProxyTypes
<1>2. exchange' \in [Clients -> ServedExchange] /\ exchange'[c] = y
      /\ \A d \in Clients : d # c => exchange'[d] = exchange[d]
  BY <1>1
<1>3. ProxyTypes'
  BY <1>1, <1>2 DEF ProxyTypes
<1>4. \A d \in Clients : KeptExchange(exchange[d], exchange'[d]) /\ (exchange'[d].at = "done" => exchange[d].at = "done")
  BY <1>2 DEF KeptExchange, Recorded
<1> QED
  BY <1>3, <1>4, QuietStep

\* The steps of one request after it came.
LEMMA ClientSteps ==
    ASSUME ProxyInv, NEW c \in Clients,
           ProxyResponse(c) \/ Chunk(c) \/ EndOfStream(c) \/ EndOfBody(c) \/ BreakOff(c)
    PROVE  ProxyInv'
<1> DEFINE x == exchange[c]
<1>1. exchange \in [Clients -> ServedExchange] /\ x \in ServedExchange
  BY DEF ProxyInv, ProxyTypes
<1>2. x.stream \in Seq(StreamedUsage) /\ x.status \in Nat
  BY <1>1 DEF ServedExchange
<1>3. CASE ProxyResponse(c)
  <2>1. x.at = "upstream" /\ UNCHANGED <<requestSeq, records, writeQueue, broken, profile>>
    BY <1>3 DEF ProxyResponse
  <2>2. ASSUME NEW s \in Statuses, NEW usage \in 0..1,
               exchange' = [exchange EXCEPT ![c].at = "body", ![c].status = s, ![c].usage = usage]
        PROVE  ProxyInv'
    <3> DEFINE y == [[[x EXCEPT !.at = "body"] EXCEPT !.status = s] EXCEPT !.usage = usage]
    <3>1. exchange' = [exchange EXCEPT ![c] = y]
      BY <1>1, <2>2
    <3>2. s \in Nat /\ usage \in Nat /\ "body" \in States
      BY ProxyAssumption DEF States
    <3>3. y \in ServedExchange /\ y.at = "body" /\ y.id = x.id
      <4> DEFINE y1 == [x EXCEPT !.at = "body"]
                 y2 == [y1 EXCEPT !.status = s]
      <4>1. y1 \in ServedExchange /\ y1.at = "body" /\ y1.id = x.id
        BY <1>1, <3>2, ExchangeWith
      <4>2. y = [y2 EXCEPT !.usage = usage]
        OBVIOUS
      <4> HIDE DEF y, y1, x
      <4>3. y2 \in ServedExchange /\ y2.at = "body" /\ y2.id = x.id
        BY <3>2, <4>1, ExchangeWith
      <4> HIDE DEF y2
      <4> QED
        BY <3>2, <4>2, <4>3, ExchangeWith
    <3> HIDE DEF y
    <3> QED
      BY <2>1, <3>1, <3>3, UnderWayKeeps DEF Recorded
  <2>3. ASSUME NEW s \in Statuses, NEW events \in Streams,
               exchange' = [exchange EXCEPT ![c].at = "stream", ![c].status = s, ![c].stream = events]
        PROVE  ProxyInv'
    <3> DEFINE y == [[[x EXCEPT !.at = "stream"] EXCEPT !.status = s] EXCEPT !.stream = events]
    <3>1. exchange' = [exchange EXCEPT ![c] = y]
      BY <1>1, <2>3
    <3>2. s \in Nat /\ events \in Seq(StreamedUsage) /\ "stream" \in States
      BY ProxyAssumption DEF StreamedUsage, States
    <3>3. y \in ServedExchange /\ y.at = "stream" /\ y.id = x.id
      <4> DEFINE y1 == [x EXCEPT !.at = "stream"]
                 y2 == [y1 EXCEPT !.status = s]
      <4>1. y1 \in ServedExchange /\ y1.at = "stream" /\ y1.id = x.id
        BY <1>1, <3>2, ExchangeWith
      <4>2. y = [y2 EXCEPT !.stream = events]
        OBVIOUS
      <4> HIDE DEF y, y1, x
      <4>3. y2 \in ServedExchange /\ y2.at = "stream" /\ y2.id = x.id
        BY <3>2, <4>1, ExchangeWith
      <4> HIDE DEF y2
      <4> QED
        BY <3>2, <4>2, <4>3, ExchangeWith
    <3> HIDE DEF y
    <3> QED
      BY <2>1, <3>1, <3>3, UnderWayKeeps DEF Recorded
  <2> QED
    BY <1>3, <2>2, <2>3 DEF ProxyResponse
<1>4. CASE Chunk(c)
  <2> DEFINE e == Head(x.stream)
             y == [Feed(x, e) EXCEPT !.stream = Tail(x.stream)]
  <2>1. x.at = "stream" /\ x.stream # <<>> /\ UNCHANGED <<requestSeq, records, writeQueue, broken, profile>>
    BY <1>4 DEF Chunk
  <2>2. e \in StreamedUsage /\ Tail(x.stream) \in Seq(StreamedUsage)
    BY <1>2, <2>1, HeadTailProperties
  <2> HIDE DEF e
  <2>3. /\ Feed(x, e) \in ServedExchange /\ Feed(x, e).id = x.id /\ Feed(x, e).at = x.at
        /\ Feed(x, e).stream = x.stream
    BY <1>1, <2>2, Parsed
  <2>4. y \in ServedExchange /\ y.id = x.id /\ y.at = "stream"
    BY <2>1, <2>2, <2>3, ExchangeWith
  <2>5. exchange' = [exchange EXCEPT ![c] = y]
    BY <1>4 DEF Chunk, e
  <2> HIDE DEF y
  <2> QED
    BY <2>1, <2>4, <2>5, UnderWayKeeps DEF Recorded
<1>5. CASE EndOfStream(c)
  <2>1. /\ x.at = "stream" /\ UNCHANGED <<requestSeq, broken, profile>>
        /\ Recording(c, FinishParsing(x), HttpError(x.status), "flushing")
    BY <1>5 DEF EndOfStream
  <2>2. FinishParsing(x) \in ServedExchange /\ FinishParsing(x).id = x.id /\ HttpError(x.status) \in ErrorKind
    BY <1>1, <1>2, Parsed, Errors
  <2>3. "flushing" \in Recorded \ {"done"}
    BY DEF Recorded
  <2> QED
    BY <2>1, <2>2, <2>3, RecordingKeeps
<1>6. CASE EndOfBody(c)
  <2>1. /\ x.at = "body" /\ UNCHANGED <<requestSeq, broken, profile>>
        /\ Recording(c, x, HttpError(x.status), "recording")
    BY <1>6 DEF EndOfBody
  <2>2. HttpError(x.status) \in ErrorKind /\ "recording" \in Recorded \ {"done"}
    BY <1>2, Errors DEF Recorded
  <2> QED
    BY <1>1, <2>1, <2>2, RecordingKeeps
<1>7. CASE BreakOff(c)
  <2>1. UNCHANGED <<requestSeq, broken, profile>>
    BY <1>7 DEF BreakOff
  <2>2. CASE x.at = "upstream" /\ Recording(c, [x EXCEPT !.status = 502], BrokenOff, "reporting")
    <3>1. [x EXCEPT !.status = 502] \in ServedExchange /\ [x EXCEPT !.status = 502].id = x.id
      <4> DEFINE code == 502
      <4>1. code \in Nat
        OBVIOUS
      <4> HIDE DEF code
      <4>2. [x EXCEPT !.status = code] \in ServedExchange /\ [x EXCEPT !.status = code].id = x.id
        BY <1>1, <4>1, ExchangeWith
      <4> QED
        BY <4>2 DEF code
    <3>2. "reporting" \in Recorded \ {"done"}
      BY DEF Recorded
    <3> QED
      BY <2>1, <2>2, <3>1, <3>2, Errors, RecordingKeeps
  <2>3. CASE x.at = "body" /\ Recording(c, [x EXCEPT !.usage = 0], BrokenOff, "rerecording")
    <3>1. [x EXCEPT !.usage = 0] \in ServedExchange /\ [x EXCEPT !.usage = 0].id = x.id
      BY <1>1 DEF ServedExchange
    <3>2. "rerecording" \in Recorded \ {"done"}
      BY DEF Recorded
    <3> QED
      BY <2>1, <2>3, <3>1, <3>2, Errors, RecordingKeeps
  <2>4. CASE /\ x.at = "stream" /\ exchange' = [exchange EXCEPT ![c].at = "lost"]
             /\ UNCHANGED <<records, writeQueue>>
    <3> DEFINE y == [x EXCEPT !.at = "lost"]
    <3>1. y \in ServedExchange /\ y.at = "lost" /\ y.id = x.id
      BY <1>1 DEF ServedExchange, States
    <3>2. exchange' = [exchange EXCEPT ![c] = y]
      BY <2>4
    <3> HIDE DEF y
    <3> QED
      BY <2>1, <2>4, <3>1, <3>2, UnderWayKeeps DEF Recorded
  <2> QED
    BY <1>7, <2>2, <2>3, <2>4 DEF BreakOff
<1> QED
  BY <1>3, <1>4, <1>5, <1>6, <1>7

\* A snapshot that is written tells of every record there is.
LEMMA WriteSnapshotKeeps == ProxyInv /\ WriteSnapshot => ProxyInv'
<1> SUFFICES ASSUME ProxyInv, WriteSnapshot PROVE ProxyInv'
  OBVIOUS
<1> DEFINE c == Head(writeQueue)
<1>1. /\ writeQueue # <<>> /\ ~broken /\ profile' = records /\ writeQueue' = Tail(writeQueue)
      /\ exchange' = IF c \in Clients THEN [exchange EXCEPT ![c].at = "done"] ELSE exchange
      /\ UNCHANGED <<requestSeq, records, broken>>
  BY DEF WriteSnapshot
<1>2. /\ exchange \in [Clients -> ServedExchange] /\ requestSeq \in Nat /\ records \in Seq(ProxyRecord)
      /\ writeQueue \in Seq(Clients \union {"stop"}) /\ broken \in BOOLEAN
  BY DEF ProxyInv, ProxyTypes
<1>3. /\ Ledger(exchange, records, requestSeq)
      /\ \A i \in DOMAIN writeQueue : writeQueue[i] \in Clients =>
            exchange[writeQueue[i]].at \in Recorded
  BY <1>1 DEF ProxyInv
<1>4. /\ Tail(writeQueue) \in Seq(Clients \union {"stop"}) /\ Len(Tail(writeQueue)) = Len(writeQueue) - 1
      /\ \A i \in 1..Len(Tail(writeQueue)) : Tail(writeQueue)[i] = writeQueue[i + 1]
  BY <1>1, <1>2, HeadTailProperties
<1>5. Len(writeQueue) \in Nat \ {0} /\ DOMAIN writeQueue = 1..Len(writeQueue) /\ c = writeQueue[1]
  BY <1>1, <1>2
<1>6. c \in Clients => exchange[c].at \in Recorded
  <2>1. 1 \in DOMAIN writeQueue
    BY <1>5
  <2> QED
    BY <1>3, <1>5, <2>1
<1> HIDE DEF c
<1>7. exchange' \in [Clients -> ServedExchange]
      /\ \A d \in Clients : KeptExchange(exchange[d], exchange'[d])
  <2>1. CASE c \in Clients
    <3> DEFINE x == exchange[c]
               y == [x EXCEPT !.at = "done"]
    <3>1. x \in ServedExchange /\ "done" \in States
      BY <1>2, <2>1 DEF States
    <3>2. y \in ServedExchange /\ KeptExchange(x, y)
      BY <1>6, <2>1, <3>1 DEF ServedExchange, KeptExchange, Recorded
    <3>3. exchange' = [exchange EXCEPT ![c] = y]
      BY <1>1, <2>1
    <3> HIDE DEF y
    <3>4. exchange' \in [Clients -> ServedExchange] /\ exchange'[c] = y
          /\ \A d \in Clients : d # c => exchange'[d] = exchange[d]
      BY ONLY <1>2, <2>1, <3>2, <3>3
    <3> QED
      BY <2>1, <3>2, <3>4 DEF KeptExchange
  <2>2. CASE c \notin Clients
    BY <1>1, <1>2, <2>2 DEF KeptExchange
  <2> QED
    BY <2>1, <2>2
<1>8. ProxyTypes'
  BY <1>1, <1>2, <1>4, <1>7 DEF ProxyTypes
<1>9. Ledger(exchange', records, requestSeq)
  BY <1>2, <1>3, <1>7, LedgerStays
<1>10. Told(exchange', records)
  <2> SUFFICES ASSUME NEW d \in Clients, exchange'[d].at = "done"
               PROVE  \E i \in DOMAIN records : records[i] = Record(exchange'[d], records[i].error)
    BY DEF Told
  <2>1. exchange'[d].at \in Recorded
    BY DEF Recorded
  <2> QED
    BY <1>9, <2>1 DEF Ledger
<1>11. ASSUME NEW i \in DOMAIN writeQueue', writeQueue'[i] \in Clients
       PROVE  exchange'[writeQueue'[i]].at \in Recorded
  <2>1. i + 1 \in DOMAIN writeQueue /\ writeQueue'[i] = writeQueue[i + 1]
    BY <1>1, <1>4, <1>5
  <2>2. exchange[writeQueue'[i]].at \in Recorded
    BY <1>3, <1>11, <2>1
  <2> QED
    BY <1>7, <1>11, <2>2 DEF KeptExchange
<1> QED
  BY <1>1, <1>8, <1>9, <1>10, <1>11 DEF ProxyInv

\* A snapshot that fails is recorded again as an error, or breaks the promise.
LEMMA SnapshotFailsKeeps == ProxyInv /\ SnapshotFails => ProxyInv'
<1> SUFFICES ASSUME ProxyInv, SnapshotFails PROVE ProxyInv'
  OBVIOUS
<1> DEFINE c == Head(writeQueue)
           at == exchange[c].at
           again == IF at = "recording" THEN exchange[c] ELSE [exchange[c] EXCEPT !.status = 502]
           next == IF at = "recording" THEN "rerecording" ELSE "reporting"
           queue == Tail(writeQueue)
<1>1. /\ writeQueue # <<>> /\ broken' = TRUE /\ UNCHANGED <<requestSeq, profile>>
      /\ IF c \in Clients /\ at \in {"recording", "rerecording"}
         THEN /\ records' = Append(records, Record(again, BrokenOff))
              /\ writeQueue' = Append(queue, c)
              /\ exchange' = [exchange EXCEPT ![c] = [again EXCEPT !.at = next]]
         ELSE /\ exchange' = IF c \in Clients THEN [exchange EXCEPT ![c].at = "done"] ELSE exchange
              /\ writeQueue' = queue /\ UNCHANGED records
  BY DEF SnapshotFails
<1>2. /\ exchange \in [Clients -> ServedExchange] /\ requestSeq \in Nat /\ records \in Seq(ProxyRecord)
      /\ writeQueue \in Seq(Clients \union {"stop"}) /\ profile \in Seq(ProxyRecord)
  BY DEF ProxyInv, ProxyTypes
<1>3. queue \in Seq(Clients \union {"stop"}) /\ c \in Clients \union {"stop"}
  BY <1>1, <1>2, HeadTailProperties
<1> HIDE DEF c, queue
<1>4. SUFFICES /\ exchange' \in [Clients -> ServedExchange] /\ records' \in Seq(ProxyRecord)
               /\ writeQueue' \in Seq(Clients \union {"stop"})
  BY <1>1, <1>2 DEF ProxyInv, ProxyTypes
<1>5. CASE c \in Clients /\ at \in {"recording", "rerecording"}
  <2>1. exchange[c] \in ServedExchange
    BY <1>2, <1>5
  <2>2. again \in ServedExchange
    <3> DEFINE code == 502
    <3>1. code \in Nat
      OBVIOUS
    <3> HIDE DEF code
    <3>2. [exchange[c] EXCEPT !.status = code] \in ServedExchange
      BY <2>1, <3>1, ExchangeWith
    <3> QED
      BY <2>1, <3>2 DEF code
  <2>3. next \in States
    BY DEF States
  <2> HIDE DEF again, next
  <2>4. [again EXCEPT !.at = next] \in ServedExchange /\ Record(again, BrokenOff) \in ProxyRecord
    BY <2>2, <2>3, Errors, RecordTyped
  <2>5. /\ records' = Append(records, Record(again, BrokenOff)) /\ writeQueue' = Append(queue, c)
        /\ exchange' = [exchange EXCEPT ![c] = [again EXCEPT !.at = next]]
    BY <1>1, <1>5
  <2>6. exchange' \in [Clients -> ServedExchange]
    BY <1>2, <2>4, <2>5
  <2>7. records' \in Seq(ProxyRecord)
    BY <1>2, <2>4, <2>5, AppendProperties
  <2>8. writeQueue' \in Seq(Clients \union {"stop"})
    BY <1>3, <2>5, AppendProperties
  <2> QED
    BY <2>6, <2>7, <2>8
<1>6. CASE ~(c \in Clients /\ at \in {"recording", "rerecording"})
  <2>1. /\ exchange' = IF c \in Clients THEN [exchange EXCEPT ![c].at = "done"] ELSE exchange
        /\ writeQueue' = queue /\ records' = records
    BY <1>1, <1>6
  <2>2. c \in Clients => [exchange[c] EXCEPT !.at = "done"] \in ServedExchange
    <3>1. "done" \in States
      BY DEF States
    <3> QED
      BY <1>2, <3>1, ExchangeWith
  <2>3. exchange' \in [Clients -> ServedExchange]
    BY <1>2, <2>1, <2>2
  <2> QED
    BY <1>2, <1>3, <2>1, <2>3
<1> QED
  BY <1>5, <1>6

\* Stopping breaks off what is under way, and records it once.
LEMMA StopServingKeeps == ProxyInv /\ StopServing => ProxyInv'
<1> SUFFICES ASSUME ProxyInv, StopServing PROVE ProxyInv'
  OBVIOUS
<1> DEFINE Up == {c \in Clients : exchange[c].at = "upstream"}
           Body == {c \in Clients : exchange[c].at = "body"}
           Streaming == {c \in Clients : exchange[c].at = "stream"}
           cut == SetToSeq(Up \union Body)
           Status(c) == IF c \in Up THEN [exchange[c] EXCEPT !.status = 502]
                        ELSE [exchange[c] EXCEPT !.usage = 0]
           new == [i \in DOMAIN cut |-> Record(Status(cut[i]), BrokenOff)]
           After(c) == CASE c \in Streaming -> [exchange[c] EXCEPT !.at = "lost"]
                         [] c \in Up   -> [Status(c) EXCEPT !.at = "reporting"]
                         [] c \in Body -> [Status(c) EXCEPT !.at = "rerecording"]
                         [] OTHER      -> exchange[c]
<1>1. /\ exchange' = [c \in Clients |-> After(c)] /\ records' = records \o new
      /\ writeQueue' = writeQueue \o <<"stop">> \o cut /\ UNCHANGED <<requestSeq, broken, profile>>
  BY DEF StopServing
<1>2. /\ exchange \in [Clients -> ServedExchange] /\ requestSeq \in Nat /\ records \in Seq(ProxyRecord)
      /\ writeQueue \in Seq(Clients \union {"stop"}) /\ profile \in Seq(ProxyRecord) /\ broken \in BOOLEAN
  BY DEF ProxyInv, ProxyTypes
<1>3. /\ cut \in Seq(Up \union Body) /\ DOMAIN cut = 1..Len(cut) /\ Len(cut) \in Nat
      /\ \A i, j \in DOMAIN cut : cut[i] = cut[j] => i = j
      /\ \A x \in Up \union Body : \E i \in DOMAIN cut : cut[i] = x
  <2> DEFINE S == Up \union Body
             s == SetToSeq(S)
  <2>1. IsFiniteSet(S)
    BY ProxyAssumption, FS_Subset
  <2> HIDE DEF S
  <2>2. /\ s \in Seq(S) /\ DOMAIN s = 1..Len(s) /\ Len(s) \in Nat
        /\ \A i, j \in DOMAIN s : s[i] = s[j] => i = j
        /\ \A x \in S : \E i \in DOMAIN s : s[i] = x
    BY ONLY <2>1, SetInOrder
  <2>3. cut = s /\ S = Up \union Body
    BY DEF S
  <2> HIDE DEF s, cut
  <2> QED
    BY ONLY <2>2, <2>3
<1> HIDE DEF cut
<1>4. cut \in Seq(Clients) /\ \A i \in DOMAIN cut : cut[i] \in Up \union Body
  BY <1>3
<1>5. ASSUME NEW c \in Clients
      PROVE  Status(c) \in ServedExchange /\ Status(c).id = exchange[c].id /\ Status(c).at = exchange[c].at
  <2> DEFINE code == 502
  <2>1. code \in Nat /\ 0 \in Nat /\ exchange[c] \in ServedExchange
    BY <1>2
  <2> HIDE DEF code
  <2>2. /\ [exchange[c] EXCEPT !.status = code] \in ServedExchange
        /\ [exchange[c] EXCEPT !.status = code].id = exchange[c].id
        /\ [exchange[c] EXCEPT !.status = code].at = exchange[c].at
    BY <2>1, ExchangeWith
  <2>3. /\ [exchange[c] EXCEPT !.usage = 0] \in ServedExchange
        /\ [exchange[c] EXCEPT !.usage = 0].id = exchange[c].id
        /\ [exchange[c] EXCEPT !.usage = 0].at = exchange[c].at
    BY <2>1, ExchangeWith
  <2> QED
    BY <2>2, <2>3 DEF code
<1>6. "lost" \in States /\ "reporting" \in States /\ "rerecording" \in States
  BY DEF States
<1> HIDE DEF Status
<1>7. ASSUME NEW c \in Clients
      PROVE  /\ After(c) \in ServedExchange /\ After(c).id = exchange[c].id
             /\ c \notin Up \union Body => KeptExchange(exchange[c], After(c))
                                            /\ (After(c).at = "done" => exchange[c].at = "done")
             /\ c \in Up \union Body => /\ After(c).at \in {"reporting", "rerecording"}
                                        /\ Record(After(c), BrokenOff) = Record(Status(c), BrokenOff)
  <2>1. exchange[c] \in ServedExchange
    BY <1>2
  <2>2. CASE c \in Streaming
    <3>1. After(c) = [exchange[c] EXCEPT !.at = "lost"] /\ exchange[c].at = "stream" /\ c \notin Up \union Body
      BY <2>2
    <3>2. After(c) \in ServedExchange /\ After(c).id = exchange[c].id /\ After(c).at = "lost"
      BY <1>6, <2>1, <3>1, ExchangeWith
    <3> HIDE DEF After
    <3> QED
      BY <3>1, <3>2 DEF KeptExchange, Recorded
  <2>3. CASE c \in Up
    <3>1. After(c) = [Status(c) EXCEPT !.at = "reporting"]
      BY <2>3
    <3> HIDE DEF After
    <3>2. After(c) \in ServedExchange /\ After(c).id = exchange[c].id /\ After(c).at = "reporting"
      BY <1>5, <1>6, <3>1, ExchangeWith
    <3>3. Record(After(c), BrokenOff) = Record(Status(c), BrokenOff)
      BY <1>5, <1>6, <3>1, Errors, RecordTyped
    <3> QED
      BY <2>3, <3>2, <3>3
  <2>4. CASE c \in Body
    <3>1. After(c) = [Status(c) EXCEPT !.at = "rerecording"]
      BY <2>4
    <3> HIDE DEF After
    <3>2. After(c) \in ServedExchange /\ After(c).id = exchange[c].id /\ After(c).at = "rerecording"
      BY <1>5, <1>6, <3>1, ExchangeWith
    <3>3. Record(After(c), BrokenOff) = Record(Status(c), BrokenOff)
      BY <1>5, <1>6, <3>1, Errors, RecordTyped
    <3> QED
      BY <2>4, <3>2, <3>3
  <2>5. CASE c \notin Streaming /\ c \notin Up /\ c \notin Body
    <3>1. After(c) = exchange[c]
      BY <2>5
    <3> HIDE DEF After
    <3> QED
      BY <2>1, <2>5, <3>1 DEF KeptExchange
  <2> QED
    BY <2>2, <2>3, <2>4, <2>5
<1>8. exchange' \in [Clients -> ServedExchange] /\ \A c \in Clients : exchange'[c] = After(c)
  BY <1>1, <1>7
<1> HIDE DEF After, Up, Body
<1>9. /\ new \in Seq(ProxyRecord) /\ Len(new) = Len(cut)
      /\ \A i \in DOMAIN cut : new[i] = Record(exchange'[cut[i]], BrokenOff)
  <2>1. \A i \in DOMAIN cut : Record(Status(cut[i]), BrokenOff) \in ProxyRecord
    BY <1>4, <1>5, Errors, RecordTyped
  <2>2. new \in Seq(ProxyRecord) /\ Len(new) = Len(cut)
    BY <1>3, <2>1
  <2>3. ASSUME NEW i \in DOMAIN cut PROVE new[i] = Record(exchange'[cut[i]], BrokenOff)
    <3>1. cut[i] \in Clients /\ cut[i] \in Up \union Body
      BY <1>4
    <3> QED
      BY <1>7, <1>8, <3>1
  <2> QED
    BY <2>2, <2>3
<1> HIDE DEF new
<1>10. ProxyTypes'
  <2>1. records' \in Seq(ProxyRecord)
    BY <1>1, <1>2, <1>9, ConcatProperties
  <2>2. writeQueue' \in Seq(Clients \union {"stop"})
    <3>1. <<"stop">> \in Seq(Clients \union {"stop"}) /\ cut \in Seq(Clients \union {"stop"})
      BY <1>4
    <3> QED
      BY <1>1, <1>2, <3>1, ConcatProperties
  <2> QED
    BY <1>1, <1>2, <1>8, <2>1, <2>2 DEF ProxyTypes
<1>11. SUFFICES ASSUME ~broken
                PROVE  /\ Ledger(exchange', records', requestSeq) /\ Told(exchange', profile)
                       /\ \A i \in DOMAIN writeQueue' : writeQueue'[i] \in Clients =>
                             exchange'[writeQueue'[i]].at \in Recorded
                       /\ writeQueue' # <<>>
  BY <1>1, <1>10 DEF ProxyInv
<1>12. /\ Ledger(exchange, records, requestSeq) /\ Told(exchange, profile)
       /\ \A i \in DOMAIN writeQueue : writeQueue[i] \in Clients =>
             exchange[writeQueue[i]].at \in Recorded
  BY <1>11 DEF ProxyInv
<1>13. \A c \in Clients : c \in Up \union Body =>
          exchange[c].at \in {"upstream", "body"} /\ exchange'[c].at \in Recorded /\ exchange'[c].at # "done"
          /\ exchange'[c].id = exchange[c].id
  <2> SUFFICES ASSUME NEW c \in Clients, c \in Up \union Body
               PROVE  exchange[c].at \in {"upstream", "body"} /\ exchange'[c].at \in Recorded
                      /\ exchange'[c].at # "done" /\ exchange'[c].id = exchange[c].id
    OBVIOUS
  <2>1. exchange[c].at \in {"upstream", "body"}
    BY DEF Up, Body
  <2>2. exchange'[c].at \in {"reporting", "rerecording"} /\ exchange'[c].id = exchange[c].id
    BY <1>7, <1>8
  <2> QED
    BY <2>1, <2>2 DEF Recorded
<1>14. \A c \in Clients : c \notin Up \union Body =>
          KeptExchange(exchange[c], exchange'[c]) /\ (exchange'[c].at = "done" => exchange[c].at = "done")
  BY <1>7, <1>8
<1>15. Ledger(exchange', records', requestSeq)
  <2>1. \A i \in DOMAIN cut :
              /\ exchange[cut[i]].at \in {"upstream", "body", "stream"}
              /\ exchange'[cut[i]].at \in Recorded /\ exchange'[cut[i]].id = exchange[cut[i]].id
              /\ new[i] = Record(exchange'[cut[i]], new[i].error)
    <3> SUFFICES ASSUME NEW i \in DOMAIN cut
                 PROVE  /\ exchange[cut[i]].at \in {"upstream", "body", "stream"}
                        /\ exchange'[cut[i]].at \in Recorded /\ exchange'[cut[i]].id = exchange[cut[i]].id
                        /\ new[i] = Record(exchange'[cut[i]], new[i].error)
      OBVIOUS
    <3>1. cut[i] \in Clients /\ cut[i] \in Up \union Body
      BY <1>4
    <3>2. new[i] = Record(exchange'[cut[i]], new[i].error)
      BY <1>9, RecordOf
    <3> QED
      BY <1>13, <3>1, <3>2
  <2>2. \A c \in Clients : (\A i \in DOMAIN cut : cut[i] # c) => KeptExchange(exchange[c], exchange'[c])
    BY <1>3, <1>14
  <2>3. Ledger(exchange', records \o new, requestSeq)
    BY <1>2, <1>3, <1>4, <1>9, <1>12, <2>1, <2>2, LedgerGrows
  <2> QED
    BY <1>1, <2>3
<1>16. Told(exchange', profile)
  <2> SUFFICES ASSUME NEW c \in Clients, exchange'[c].at = "done"
               PROVE  \E i \in DOMAIN profile : profile[i] = Record(exchange'[c], profile[i].error)
    BY DEF Told
  <2>1. exchange[c].at = "done" /\ exchange[c].at \in Recorded /\ KeptExchange(exchange[c], exchange'[c])
    BY <1>13, <1>14 DEF Recorded
  <2>2. PICK i \in DOMAIN profile : profile[i] = Record(exchange[c], profile[i].error)
    BY <1>12, <2>1 DEF Told
  <2> QED
    BY <2>1, <2>2, KeptRecord
<1>17. /\ \A i \in DOMAIN writeQueue' : writeQueue'[i] \in Clients => exchange'[writeQueue'[i]].at \in Recorded
       /\ writeQueue' # <<>>
  <2> DEFINE q == writeQueue
             n == Len(writeQueue)
             one == <<"stop">>
  <2>1. one \in Seq(Clients \union {"stop"}) /\ cut \in Seq(Clients \union {"stop"}) /\ Len(one) = 1 /\ one[1] = "stop"
    BY <1>4
  <2>0. n \in Nat /\ DOMAIN q = 1..n /\ q \in Seq(Clients \union {"stop"})
    BY <1>2
  <2> HIDE DEF one
  <2>2. /\ q \o one \in Seq(Clients \union {"stop"}) /\ Len(q \o one) = n + 1 /\ n \in Nat /\ DOMAIN q = 1..n
        /\ \A i \in 1..n + 1 : (q \o one)[i] = IF i <= n THEN q[i] ELSE one[i - n]
    <3> DEFINE S == Clients \union {"stop"}
    <3>1. q \in Seq(S) /\ one \in Seq(S)
      BY <2>0, <2>1
    <3> HIDE DEF S
    <3>2. /\ q \o one \in Seq(S) /\ Len(q \o one) = Len(q) + Len(one)
          /\ \A i \in 1..Len(q) + Len(one) : (q \o one)[i] = IF i <= Len(q) THEN q[i] ELSE one[i - Len(q)]
      BY ONLY <3>1, ConcatProperties
    <3> QED
      BY <2>0, <2>1, <3>2 DEF S
  <2>3. /\ writeQueue' \in Seq(Clients \union {"stop"}) /\ Len(writeQueue') = (n + 1) + Len(cut)
        /\ \A i \in 1..(n + 1) + Len(cut) : writeQueue'[i] = IF i <= n + 1 THEN (q \o one)[i] ELSE cut[i - (n + 1)]
    BY <1>1, <2>1, <2>2, ConcatProperties DEF one
  <2>4. writeQueue' # <<>>
    BY <1>3, <2>2, <2>3
  <2>5. ASSUME NEW i \in DOMAIN writeQueue', writeQueue'[i] \in Clients
        PROVE  exchange'[writeQueue'[i]].at \in Recorded
    <3>1. i \in 1..(n + 1) + Len(cut)
      BY <2>3
    <3>2. CASE i <= n
      <4>1. writeQueue'[i] = q[i] /\ i \in DOMAIN q
        BY <1>3, <2>2, <2>3, <3>1, <3>2
      <4>2. exchange[q[i]].at \in Recorded
        BY <1>12, <2>5, <4>1
      <4>3. q[i] \in Clients
        BY <2>5, <4>1
      <4>4. CASE q[i] \in Up \union Body
        BY <1>13, <4>1, <4>3, <4>4
      <4>5. CASE q[i] \notin Up \union Body
        BY <1>14, <4>1, <4>2, <4>3, <4>5 DEF KeptExchange
      <4> QED
        BY <4>4, <4>5
    <3>3. CASE i = n + 1
      <4>1. writeQueue'[i] = "stop"
        BY <1>3, <2>1, <2>2, <2>3, <3>1, <3>3
      <4> QED
        BY <2>5, <4>1, ProxyAssumption
    <3>4. CASE i > n + 1
      <4>1. i - (n + 1) \in DOMAIN cut /\ writeQueue'[i] = cut[i - (n + 1)]
        BY <1>3, <2>2, <2>3, <3>1, <3>4
      <4>2. cut[i - (n + 1)] \in Clients /\ cut[i - (n + 1)] \in Up \union Body
        BY <1>4, <4>1
      <4> QED
        BY <1>13, <4>1, <4>2
    <3> QED
      BY <2>2, <3>1, <3>2, <3>3, <3>4
  <2> QED
    BY <2>4, <2>5
<1> QED
  BY <1>15, <1>16, <1>17

\* Every step of the proxy keeps the ledger.
LEMMA ProxyKeeps == ProxyInv /\ [ProxyNext]_proxyVars => ProxyInv'
<1> SUFFICES ASSUME ProxyInv, [ProxyNext]_proxyVars PROVE ProxyInv'
  OBVIOUS
<1>1. CASE StartServing
  BY <1>1 DEF StartServing, ProxyInv, ProxyTypes, Ledger, Told
<1>2. CASE StopServing
  BY <1>2, StopServingKeeps
<1>3. CASE WriteSnapshot
  BY <1>3, WriteSnapshotKeeps
<1>4. CASE SnapshotFails
  BY <1>4, SnapshotFailsKeeps
<1>5. CASE \E c \in Clients : Arrive(c)
  BY <1>5, ArriveKeeps
<1>6. CASE \E c \in Clients : ProxyResponse(c) \/ Chunk(c) \/ EndOfStream(c) \/ EndOfBody(c) \/ BreakOff(c)
  BY <1>6, ClientSteps
<1>7. CASE UNCHANGED proxyVars
  BY <1>7 DEF proxyVars, ProxyInv, ProxyTypes, Ledger, Told
<1> QED
  BY <1>1, <1>2, <1>3, <1>4, <1>5, <1>6, <1>7 DEF ProxyNext

\* With the ledger kept, every exchange is recorded once and the totals agree.
LEMMA ProxyInvSuffices == ProxyInv => EveryExchangeOnce
<1> SUFFICES ASSUME ProxyInv, ~broken
             PROVE  /\ \A i, j \in DOMAIN records : i # j => records[i].id # records[j].id
                    /\ \A c \in Clients : exchange[c].at = "done" =>
                          \E r \in Range(profile) : r = Record(exchange[c], r.error)
                    /\ writeQueue = <<>> => profile = records
                    /\ LET t == SnapshotTotals(profile)
                       IN  t.requests = t.successes + t.errors /\ t.retryable <= t.errors
  BY DEF EveryExchangeOnce
<1>1. Ledger(exchange, records, requestSeq) /\ Told(exchange, profile) /\ profile \in Seq(ProxyRecord)
      /\ (writeQueue = <<>> => profile = records)
  BY DEF ProxyInv, ProxyTypes
<1>2. \A i, j \in DOMAIN records : i # j => records[i].id # records[j].id
  BY <1>1 DEF Ledger
<1>3. ASSUME NEW c \in Clients, exchange[c].at = "done"
      PROVE  \E r \in Range(profile) : r = Record(exchange[c], r.error)
  <2>1. PICK i \in DOMAIN profile : profile[i] = Record(exchange[c], profile[i].error)
    BY <1>1, <1>3 DEF Told
  <2>2. profile[i] \in Range(profile)
    BY DEF Range
  <2> QED
    BY <2>1, <2>2
<1> QED
  BY <1>1, <1>2, <1>3, TotalsAgree

\* Every request that was answered is recorded once, under an id of its own, and is
\* in the profile, whose totals agree; unless a snapshot could not be written
\* (provider-proxy/run.ts:180-438).
THEOREM ExchangesOnce == ProxySpec => []EveryExchangeOnce
  BY ProxyStarts, ProxyKeeps, ProxyInvSuffices, PTL DEF ProxySpec

-------------------------------------------------------------------------------
(***************************************************************************)
(* The matrix of jobs (MatrixRuns).                                        *)
(***************************************************************************)
Distinct(s) == \A i, j \in DOMAIN s : s[i] = s[j] => i = j

\* A value at the end of a sequence: it adds to what the sequence has.
LEMMA WithOneMore ==
    ASSUME NEW S, NEW s \in Seq(S), NEW x \in S
    PROVE  /\ Append(s, x) \in Seq(S) /\ Range(Append(s, x)) = Range(s) \union {x}
           /\ Distinct(s) /\ x \notin Range(s) => Distinct(Append(s, x))
<1> DEFINE t == Append(s, x)
           n == Len(s)
<1>1. n \in Nat /\ DOMAIN s = 1..n /\ t \in Seq(S) /\ Len(t) = n + 1 /\ DOMAIN t = 1..n + 1
      /\ (\A i \in 1..n : t[i] = s[i]) /\ t[n + 1] = x
  BY AppendProperties
<1> HIDE DEF t, n
<1>2. Range(t) = Range(s) \union {x}
  <2>1. \A i \in 1..n + 1 : i \in 1..n \/ i = n + 1
    BY <1>1
  <2>2. \A i \in 1..n : i \in 1..n + 1
    BY <1>1
  <2>3. n + 1 \in 1..n + 1
    BY <1>1
  <2> QED
    BY <1>1, <2>1, <2>2, <2>3 DEF Range
<1>3. ASSUME Distinct(s), x \notin Range(s) PROVE Distinct(t)
  <2>1. ASSUME NEW i \in DOMAIN t, NEW j \in DOMAIN t, t[i] = t[j] PROVE i = j
    <3>1. (i \in 1..n \/ i = n + 1) /\ (j \in 1..n \/ j = n + 1)
      BY <1>1
    <3>2. \A k \in 1..n : s[k] # x
      BY <1>1, <1>3 DEF Range
    <3> QED
      BY <1>1, <1>3, <2>1, <3>1, <3>2 DEF Distinct
  <2> QED
    BY <2>1 DEF Distinct
<1> QED
  BY <1>1, <1>2, <1>3 DEF t

\* Unique gives every value of the sequence, once.
LEMMA UniqueIs ==
    ASSUME NEW S, NEW s \in Seq(S)
    PROVE  Unique(s) \in Seq(S) /\ Range(Unique(s)) = Range(s) /\ Distinct(Unique(s))
<1> DEFINE m == Len(s)
           f == [p \in Seq(S) \X S |-> IF p[2] \in Range(p[1]) THEN p[1] ELSE Append(p[1], p[2])]
           F(k) == k = [n \in 0..Len(s) |->
                          IF n = 0 THEN <<>>
                          ELSE IF s[n] \in Range(k[n - 1]) THEN k[n - 1] ELSE Append(k[n - 1], s[n])]
           kept == CHOOSE k : F(k)
<1>1. Unique(s) = kept[m]
  BY DEF Unique
<1>2. m \in Nat /\ DOMAIN s = 1..m /\ \A n \in 1..m : s[n] \in S
  OBVIOUS
<1>3. f \in [Seq(S) \X S -> Seq(S)]
  <2>1. \A q \in Seq(S), x \in S : Append(q, x) \in Seq(S)
    OBVIOUS
  <2> QED
    BY <2>1
<1>4. PICK w \in [0..m -> Seq(S)] : Follows(f, w, s, <<>>)
  <2>1. <<>> \in Seq(S)
    OBVIOUS
  <2> HIDE DEF f
  <2> QED
    BY <1>3, <2>1, Recursion
<1>5. F(w)
  <2>1. w = [n \in 0..m |-> IF n = 0 THEN <<>> ELSE f[<<w[n - 1], s[n]>>]]
    BY <1>4 DEF Follows
  <2>2. \A n \in 0..m : n # 0 => w[n - 1] \in Seq(S) /\ s[n] \in S
    <3>1. \A n \in 0..m : n # 0 => n - 1 \in 0..m /\ n \in 1..m
      BY <1>2
    <3> QED
      BY <1>2, <1>4, <3>1
  <2>3. \A n \in 0..m : n # 0 => f[<<w[n - 1], s[n]>>]
            = IF s[n] \in Range(w[n - 1]) THEN w[n - 1] ELSE Append(w[n - 1], s[n])
    <3> HIDE DEF m
    <3> QED
      BY <2>2
  <2> HIDE DEF f, m
  <2>4. w = [n \in 0..m |->
               IF n = 0 THEN <<>>
               ELSE IF s[n] \in Range(w[n - 1]) THEN w[n - 1] ELSE Append(w[n - 1], s[n])]
    BY <2>1, <2>3
  <2> QED
    BY <2>4 DEF m
<1>6. F(kept)
  <2> HIDE DEF F
  <2> QED
    BY <1>5
<1> HIDE DEF kept, f
<1>7. kept[0] = <<>>
      /\ \A n \in 1..m : kept[n] = IF s[n] \in Range(kept[n - 1]) THEN kept[n - 1]
                                   ELSE Append(kept[n - 1], s[n])
  <2>1. 0 \in 0..m /\ \A n \in 1..m : n \in 0..m /\ n # 0
    BY <1>2
  <2> QED
    BY <1>6, <2>1
<1> HIDE DEF F, m
<1> DEFINE Upto(n) == {s[i] : i \in 1..n}
           G == {n \in 0..m : kept[n] \in Seq(S) /\ Range(kept[n]) = Upto(n) /\ Distinct(kept[n])}
<1>8. 0 \in G
  <2>1. kept[0] = <<>> /\ 0 \in 0..m /\ 1..0 = {}
    BY <1>2, <1>7
  <2>2. Upto(0) = {} /\ Range(<<>>) = {} /\ Distinct(<<>>) /\ <<>> \in Seq(S)
    BY <2>1 DEF Range, Distinct
  <2> HIDE DEF Upto
  <2> QED
    BY <2>1, <2>2
<1>9. ASSUME NEW n \in 1..m, n - 1 \in G PROVE n \in G
  <2> DEFINE k == kept[n - 1]
  <2>1. k \in Seq(S) /\ Range(k) = Upto(n - 1) /\ Distinct(k) /\ s[n] \in S /\ n \in 0..m
    BY <1>2, <1>9
  <2>2. Upto(n) = Upto(n - 1) \union {s[n]}
    <3>1. \A i \in 1..n : i \in 1..n - 1 \/ i = n
      BY <1>2
    <3>2. n \in 1..n /\ \A i \in 1..n - 1 : i \in 1..n
      BY <1>2
    <3> QED
      BY <3>1, <3>2
  <2>3. kept[n] = IF s[n] \in Range(k) THEN k ELSE Append(k, s[n])
    BY <1>7
  <2> HIDE DEF k, Upto
  <2>4. kept[n] \in Seq(S) /\ Range(kept[n]) = Upto(n) /\ Distinct(kept[n])
    <3>1. CASE s[n] \in Range(k)
      BY <2>1, <2>2, <2>3, <3>1
    <3>2. CASE s[n] \notin Range(k)
      <4>1. /\ Append(k, s[n]) \in Seq(S) /\ Range(Append(k, s[n])) = Range(k) \union {s[n]}
            /\ Distinct(Append(k, s[n]))
        BY <2>1, <3>2, WithOneMore
      <4> QED
        BY <2>1, <2>2, <2>3, <3>2, <4>1
    <3> QED
      BY <3>1, <3>2
  <2> QED
    BY <2>1, <2>4
<1>10. m \in G
  <2> HIDE DEF G
  <2>1. \A n \in 0..m : n \in G
    BY <1>2, <1>8, <1>9, Climb
  <2> QED
    BY <1>2, <2>1
<1>11. kept[m] \in Seq(S) /\ Range(kept[m]) = Upto(m) /\ Distinct(kept[m])
  BY <1>10
<1>12. Upto(m) = Range(s)
  BY <1>2 DEF Range
<1> QED
  BY <1>1, <1>11, <1>12

\* Two sequences with no value in common, one after the other.
LEMMA JoinedDistinct ==
    ASSUME NEW S, NEW s \in Seq(S), NEW t \in Seq(S)
    PROVE  /\ s \o t \in Seq(S) /\ Range(s \o t) = Range(s) \union Range(t)
           /\ Distinct(s) /\ Distinct(t) /\ Range(s) \intersect Range(t) = {} => Distinct(s \o t)
<1> DEFINE u == s \o t
           m == Len(s)
           n == Len(t)
<1>1. /\ m \in Nat /\ n \in Nat /\ DOMAIN s = 1..m /\ DOMAIN t = 1..n
      /\ u \in Seq(S) /\ Len(u) = m + n /\ DOMAIN u = 1..m + n
      /\ \A i \in 1..m + n : u[i] = IF i <= m THEN s[i] ELSE t[i - m]
  BY ConcatProperties
<1> HIDE DEF u, m, n
<1>2. \A i \in 1..m + n : (i <= m /\ i \in 1..m) \/ (i > m /\ i - m \in 1..n)
  BY <1>1
<1>3. \A i \in 1..m : i \in 1..m + n /\ u[i] = s[i]
  BY <1>1
<1>4. \A i \in 1..n : i + m \in 1..m + n /\ u[i + m] = t[i]
  <2>1. \A i \in 1..n : i + m \in 1..m + n /\ ~(i + m <= m) /\ (i + m) - m = i
    BY <1>1
  <2> QED
    BY <1>1, <2>1
<1>5. Range(u) = Range(s) \union Range(t)
  <2>1. \A x \in Range(u) : x \in Range(s) \union Range(t)
    BY <1>1, <1>2 DEF Range
  <2>2. \A x \in Range(s) : x \in Range(u)
    BY <1>1, <1>3 DEF Range
  <2>3. \A x \in Range(t) : x \in Range(u)
    BY <1>1, <1>4 DEF Range
  <2> QED
    BY <2>1, <2>2, <2>3
<1>6. ASSUME Distinct(s), Distinct(t), Range(s) \intersect Range(t) = {} PROVE Distinct(u)
  <2>1. ASSUME NEW i \in DOMAIN u, NEW j \in DOMAIN u, u[i] = u[j] PROVE i = j
    <3>1. i \in 1..m + n /\ j \in 1..m + n
      BY <1>1
    <3>2. \A k \in 1..m, l \in 1..n : s[k] # t[l]
      BY <1>1, <1>6 DEF Range
    <3>3. CASE i <= m /\ j <= m
      <4>1. i \in 1..m /\ j \in 1..m /\ s[i] = s[j]
        BY <1>1, <1>2, <2>1, <3>1, <3>3
      <4> QED
        BY <1>1, <1>6, <4>1 DEF Distinct
    <3>4. CASE i > m /\ j > m
      <4>1. i - m \in 1..n /\ j - m \in 1..n /\ t[i - m] = t[j - m]
        BY <1>1, <1>2, <2>1, <3>1, <3>4
      <4>2. i - m = j - m
        BY <1>1, <1>6, <4>1 DEF Distinct
      <4> QED
        BY <1>1, <3>1, <4>2
    <3>5. ~(i <= m /\ j > m)
      BY <1>1, <1>2, <2>1, <3>1, <3>2
    <3>6. ~(j <= m /\ i > m)
      BY <1>1, <1>2, <2>1, <3>1, <3>2
    <3> QED
      BY <1>1, <3>1, <3>3, <3>4, <3>5, <3>6
  <2> QED
    BY <2>1 DEF Distinct
<1> QED
  BY <1>1, <1>5, <1>6 DEF u

\* Sequences one after the other, each value once when no two have it.
LEMMA FlattenedIs ==
    ASSUME NEW S, NEW s \in Seq(Seq(S)),
           \A i \in DOMAIN s : Distinct(s[i]),
           \A i, j \in DOMAIN s : i # j => Range(s[i]) \intersect Range(s[j]) = {}
    PROVE  /\ FlattenSeq(s) \in Seq(S) /\ Distinct(FlattenSeq(s))
           /\ Range(FlattenSeq(s)) = UNION {Range(s[i]) : i \in DOMAIN s}
<1> DEFINE m == Len(s)
           f == [p \in Seq(S) \X Seq(S) |-> p[1] \o p[2]]
           F(k) == k = [i \in 1..Len(s) |-> IF i = 1 THEN s[i] ELSE k[i - 1] \o s[i]]
           flatten == CHOOSE k : F(k)
           Upto(n) == UNION {Range(s[i]) : i \in 1..n}
<1>1. m \in Nat /\ DOMAIN s = 1..m /\ \A n \in 1..m : s[n] \in Seq(S)
  OBVIOUS
<1>2. CASE m = 0
  <2>1. FlattenSeq(s) = s /\ s = <<>>
    BY <1>2 DEF FlattenSeq
  <2>2. DOMAIN <<>> = {}
    OBVIOUS
  <2> QED
    BY <2>1, <2>2 DEF Distinct, Range
<1>3. CASE m # 0
  <2>1. FlattenSeq(s) = flatten[m]
    BY <1>3 DEF FlattenSeq
  <2>2. PICK w \in [0..m -> Seq(S)] : Follows(f, w, s, <<>>)
    <3>1. <<>> \in Seq(S)
      OBVIOUS
    <3>2. f \in [Seq(S) \X Seq(S) -> Seq(S)]
      <4>1. \A q, r \in Seq(S) : q \o r \in Seq(S)
        BY ConcatProperties
      <4> QED
        BY <4>1
    <3> HIDE DEF f
    <3> QED
      BY <3>1, <3>2, Recursion
  <2>3. w[0] = <<>> /\ \A n \in 1..m : w[n - 1] \in Seq(S) /\ w[n] = w[n - 1] \o s[n]
    <3>1. 0 \in 0..m /\ \A n \in 1..m : n \in 0..m /\ n - 1 \in 0..m /\ n # 0
      BY <1>1
    <3>2. w = [n \in 0..m |-> IF n = 0 THEN <<>> ELSE f[<<w[n - 1], s[n]>>]]
      BY <2>2 DEF Follows
    <3>3. \A n \in 1..m : f[<<w[n - 1], s[n]>>] = w[n - 1] \o s[n]
      <4>1. \A n \in 1..m : w[n - 1] \in Seq(S) /\ s[n] \in Seq(S)
        BY <1>1, <2>2, <3>1
      <4> HIDE DEF m
      <4> QED
        BY <4>1
    <3> HIDE DEF f, m
    <3> QED
      BY <2>2, <3>1, <3>2, <3>3
  <2> HIDE DEF f
  <2> DEFINE k == [i \in 1..m |-> w[i]]
  <2>4. F(k)
    <3>1. 1 \in 1..m /\ w[1] = s[1]
      <4>1. 1 \in 1..m /\ 1 - 1 = 0
        BY <1>1, <1>3
      <4>2. w[1] = <<>> \o s[1] /\ s[1] \in Seq(S)
        BY <1>1, <2>3, <4>1
      <4> QED
        BY <4>1, <4>2, ConcatEmptySeq
    <3>2. \A i \in 1..m : i # 1 => i - 1 \in 1..m
      BY <1>1
    <3>3. \A i \in 1..m : w[i] = IF i = 1 THEN s[i] ELSE k[i - 1] \o s[i]
      <4> SUFFICES ASSUME NEW i \in 1..m PROVE w[i] = IF i = 1 THEN s[i] ELSE k[i - 1] \o s[i]
        OBVIOUS
      <4>1. i # 1 => k[i - 1] = w[i - 1]
        BY <3>2
      <4> HIDE DEF k
      <4> QED
        BY <2>3, <3>1, <4>1
    <3>4. k = [i \in 1..m |-> w[i]]
      OBVIOUS
    <3> HIDE DEF k
    <3>5. k = [i \in 1..m |-> IF i = 1 THEN s[i] ELSE k[i - 1] \o s[i]]
      BY <3>3, <3>4
    <3> QED
      BY <3>5
  <2>5. F(flatten)
    <3> HIDE DEF F, k
    <3> QED
      BY <2>4
  <2> HIDE DEF flatten
  <2>6. \A i \in 1..m : flatten[i] = IF i = 1 THEN s[i] ELSE flatten[i - 1] \o s[i]
    BY <2>5
  <2> HIDE DEF F, m, k
  <2> DEFINE Good(q, n) == q \in Seq(S) /\ Range(q) = Upto(n) /\ Distinct(q)
             G == {n \in 0..m : n = 0 \/ Good(flatten[n], n)}
  <2>7. 0 \in G
    BY <1>1
  <2>8. ASSUME NEW n \in 1..m, n - 1 \in G PROVE n \in G
    <3>0. n \in 0..m /\ n \in DOMAIN s
      BY <1>1
    <3>1. n \in 0..m /\ s[n] \in Seq(S) /\ Distinct(s[n])
      BY <1>1, <3>0
    <3>2. Upto(n) = Upto(n - 1) \union Range(s[n])
      <4>1. \A i \in 1..n : i \in 1..n - 1 \/ i = n
        BY <1>1
      <4>2. n \in 1..n /\ \A i \in 1..n - 1 : i \in 1..n
        BY <1>1
      <4> QED
        BY <4>1, <4>2
    <3>3. Upto(n - 1) \intersect Range(s[n]) = {}
      <4>1. \A i \in 1..n - 1 : i \in DOMAIN s /\ n \in DOMAIN s /\ i # n
        BY <1>1
      <4> QED
        BY <4>1
    <3>4. CASE n = 1
      <4>1. 1..0 = {}
        OBVIOUS
      <4>2. Upto(n - 1) = {}
        BY <3>4, <4>1
      <4> HIDE DEF Upto
      <4>3. flatten[n] = s[n]
        BY <2>6, <3>4
      <4> QED
        BY <3>1, <3>2, <4>2, <4>3
    <3>5. CASE n # 1
      <4>1. n - 1 # 0
        BY <1>1, <3>5
      <4> HIDE DEF Upto
      <4>2. Good(flatten[n - 1], n - 1) /\ flatten[n] = flatten[n - 1] \o s[n]
        BY <2>6, <2>8, <3>5, <4>1
      <4>3. Good(flatten[n - 1] \o s[n], n)
        BY <3>1, <3>2, <3>3, <4>2, JoinedDistinct
      <4> QED
        BY <3>1, <4>2, <4>3
    <3> QED
      BY <3>4, <3>5
  <2>9. m \in G
    <3> HIDE DEF G
    <3>1. \A n \in 0..m : n \in G
      BY <1>1, <2>7, <2>8, Climb
    <3> QED
      BY <1>1, <3>1
  <2>10. Good(flatten[m], m)
    BY <1>3, <2>9
  <2> QED
    BY <1>1, <2>1, <2>10
<1> QED
  BY <1>2, <1>3

Planned(C) == C \X Benchmarks \X STRING

\* Sequences of one value and of none.
LEMMA OneOrNone ==
    ASSUME NEW S, NEW x \in S
    PROVE  <<>> \in Seq(S) /\ <<x>> \in Seq(S)
  OBVIOUS

\* The jobs of one coder and one benchmark: its tasks, each once.
LEMMA JobsOfTasks ==
    ASSUME NEW C, NEW c \in C, NEW b \in Benchmarks, NEW tasks \in Seq(STRING), Distinct(tasks)
    PROVE  LET of == [i \in DOMAIN tasks |-> <<c, b, tasks[i]>>]
           IN  of \in Seq(Planned(C)) /\ Distinct(of) /\ Range(of) = {<<c, b, t>> : t \in Range(tasks)}
<1> DEFINE of == [i \in DOMAIN tasks |-> <<c, b, tasks[i]>>]
           n == Len(tasks)
<1>1. n \in Nat /\ DOMAIN tasks = 1..n /\ \A i \in 1..n : tasks[i] \in STRING
  OBVIOUS
<1>2. \A i \in 1..n : <<c, b, tasks[i]>> \in Planned(C)
  BY <1>1 DEF Planned
<1>3. of \in Seq(Planned(C)) /\ DOMAIN of = 1..n
  <2> HIDE DEF n
  <2>1. of = [i \in 1..n |-> <<c, b, tasks[i]>>]
    BY <1>1
  <2>2. of \in [1..n -> Planned(C)]
    BY <1>2, <2>1
  <2> QED
    BY <1>1, <2>2
<1>4. Distinct(of)
  BY <1>1 DEF Distinct
<1>5. Range(of) = {<<c, b, t>> : t \in Range(tasks)}
  BY DEF Range
<1> QED
  BY <1>3, <1>4, <1>5

\* The jobs of one coder: every task of every benchmark, each once.
LEMMA JobsOfCoder ==
    ASSUME NEW C, NEW c \in C, NEW benchmarks \in Seq(Benchmarks), Distinct(benchmarks),
           NEW tasks \in [Benchmarks -> Seq(STRING)], \A b \in Benchmarks : Distinct(tasks[b]),
           NEW each, each = FlattenSeq([i \in DOMAIN benchmarks |->
               [k \in DOMAIN tasks[benchmarks[i]] |-> <<c, benchmarks[i], tasks[benchmarks[i]][k]>>]])
    PROVE  each \in Seq(Planned(C)) /\ Distinct(each)
           /\ Range(each) = UNION {{<<c, b, t>> : t \in Range(tasks[b])} : b \in Range(benchmarks)}
<1> DEFINE Of(b) == [k \in DOMAIN tasks[b] |-> <<c, b, tasks[b][k]>>]
           n == Len(benchmarks)
           s == [i \in DOMAIN benchmarks |-> Of(benchmarks[i])]
<1>1. n \in Nat /\ DOMAIN benchmarks = 1..n /\ \A i \in 1..n : benchmarks[i] \in Benchmarks
  OBVIOUS
<1>2. \A b \in Benchmarks :
        Of(b) \in Seq(Planned(C)) /\ Distinct(Of(b)) /\ Range(Of(b)) = {<<c, b, t>> : t \in Range(tasks[b])}
  <2> SUFFICES ASSUME NEW b \in Benchmarks
               PROVE  Of(b) \in Seq(Planned(C)) /\ Distinct(Of(b))
                      /\ Range(Of(b)) = {<<c, b, t>> : t \in Range(tasks[b])}
    OBVIOUS
  <2> QED
    BY JobsOfTasks
<1>3. each = FlattenSeq(s)
  OBVIOUS
<1> HIDE DEF Of, n
<1>4. s \in Seq(Seq(Planned(C))) /\ DOMAIN s = 1..n /\ \A i \in 1..n : s[i] = Of(benchmarks[i])
  <2>1. s = [i \in 1..n |-> Of(benchmarks[i])]
    BY <1>1
  <2>2. \A i \in 1..n : Of(benchmarks[i]) \in Seq(Planned(C))
    BY <1>1, <1>2
  <2> QED
    BY <1>1, <2>1, <2>2
<1> HIDE DEF s
<1>5. \A i \in DOMAIN s : Distinct(s[i])
  BY <1>1, <1>2, <1>4
<1>6. \A i, j \in DOMAIN s : i # j => Range(s[i]) \intersect Range(s[j]) = {}
  <2> SUFFICES ASSUME NEW i \in 1..n, NEW j \in 1..n, i # j
               PROVE  Range(s[i]) \intersect Range(s[j]) = {}
    BY <1>4
  <2>1. benchmarks[i] # benchmarks[j] /\ benchmarks[i] \in Benchmarks /\ benchmarks[j] \in Benchmarks
    BY <1>1 DEF Distinct
  <2>2. /\ Range(s[i]) = {<<c, benchmarks[i], t>> : t \in Range(tasks[benchmarks[i]])}
        /\ Range(s[j]) = {<<c, benchmarks[j], t>> : t \in Range(tasks[benchmarks[j]])}
    BY <1>2, <1>4, <2>1
  <2> QED
    BY <2>1, <2>2
<1>7. /\ FlattenSeq(s) \in Seq(Planned(C)) /\ Distinct(FlattenSeq(s))
      /\ Range(FlattenSeq(s)) = UNION {Range(s[i]) : i \in DOMAIN s}
  BY <1>4, <1>5, <1>6, FlattenedIs
<1>8. UNION {Range(s[i]) : i \in DOMAIN s}
        = UNION {{<<c, b, t>> : t \in Range(tasks[b])} : b \in Range(benchmarks)}
  <2>1. \A i \in 1..n : Range(s[i]) = {<<c, benchmarks[i], t>> : t \in Range(tasks[benchmarks[i]])}
    BY <1>1, <1>2, <1>4
  <2> DEFINE Of2(b) == {<<c, b, t>> : t \in Range(tasks[b])}
  <2>2. \A i \in 1..n : Range(s[i]) = Of2(benchmarks[i])
    BY <2>1
  <2>3. Range(benchmarks) = {benchmarks[i] : i \in 1..n}
    BY <1>1 DEF Range
  <2> HIDE DEF Of2
  <2>4. UNION {Range(s[i]) : i \in DOMAIN s} = UNION {Of2(b) : b \in Range(benchmarks)}
    BY <1>4, <2>2, <2>3
  <2> QED
    BY <2>4 DEF Of2
<1> QED
  BY <1>3, <1>7, <1>8

Normal(o) ==
    /\ o.coders \in Seq(DOMAIN Adapters) /\ Distinct(o.coders)
    /\ o.benchmarks \in Seq(Benchmarks) /\ Distinct(o.benchmarks)
    /\ o.tasks \in [Benchmarks -> Seq(STRING)] /\ \A b \in Benchmarks : Distinct(o.tasks[b])

\* The product: every task of every benchmark for every coder, each once.
LEMMA ProductIs ==
    ASSUME NEW o, Normal(o)
    PROVE  /\ Product(o) \in Seq(Planned(DOMAIN Adapters)) /\ Distinct(Product(o))
           /\ \A c \in Range(o.coders), b \in Range(o.benchmarks) :
                 \A t \in Range(o.tasks[b]) : <<c, b, t>> \in Range(Product(o))
<1> DEFINE C == DOMAIN Adapters
           Each(c) == FlattenSeq([i \in DOMAIN o.benchmarks |->
                         [k \in DOMAIN o.tasks[o.benchmarks[i]] |->
                             <<c, o.benchmarks[i], o.tasks[o.benchmarks[i]][k]>>]])
           Of(c) == UNION {{<<c, b, t>> : t \in Range(o.tasks[b])} : b \in Range(o.benchmarks)}
           n == Len(o.coders)
           s == [i \in DOMAIN o.coders |-> Each(o.coders[i])]
<1>1. n \in Nat /\ DOMAIN o.coders = 1..n /\ \A i \in 1..n : o.coders[i] \in C
  BY DEF Normal
<1>2. ASSUME NEW c \in C
      PROVE  Each(c) \in Seq(Planned(C)) /\ Distinct(Each(c)) /\ Range(Each(c)) = Of(c)
  <2> DEFINE each == Each(c)
             benchmarks == o.benchmarks
             tasks == o.tasks
  <2>1. /\ benchmarks \in Seq(Benchmarks) /\ Distinct(benchmarks)
        /\ tasks \in [Benchmarks -> Seq(STRING)] /\ \A b \in Benchmarks : Distinct(tasks[b])
    BY DEF Normal
  <2>2. each = FlattenSeq([i \in DOMAIN benchmarks |->
               [k \in DOMAIN tasks[benchmarks[i]] |-> <<c, benchmarks[i], tasks[benchmarks[i]][k]>>]])
    OBVIOUS
  <2>3. Of(c) = UNION {{<<c, b, t>> : t \in Range(tasks[b])} : b \in Range(benchmarks)}
    OBVIOUS
  <2> HIDE DEF benchmarks, tasks, each, Each, C, Of
  <2>4. each \in Seq(Planned(C)) /\ Distinct(each)
        /\ Range(each) = UNION {{<<c, b, t>> : t \in Range(tasks[b])} : b \in Range(benchmarks)}
    BY ONLY c \in C, <2>1, <2>2, JobsOfCoder
  <2> QED
    BY <2>3, <2>4 DEF each
<1>3. Product(o) = FlattenSeq(s)
  BY DEF Product
<1> HIDE DEF Each, n
<1>4. s \in Seq(Seq(Planned(C))) /\ DOMAIN s = 1..n /\ \A i \in 1..n : s[i] = Each(o.coders[i])
  <2>1. s = [i \in 1..n |-> Each(o.coders[i])]
    BY <1>1
  <2>2. \A i \in 1..n : Each(o.coders[i]) \in Seq(Planned(C))
    BY <1>1, <1>2
  <2> QED
    BY <1>1, <2>1, <2>2
<1> HIDE DEF s, C
<1>5. \A i \in DOMAIN s : Distinct(s[i])
  BY <1>1, <1>2, <1>4
<1>6. \A i, j \in DOMAIN s : i # j => Range(s[i]) \intersect Range(s[j]) = {}
  <2> SUFFICES ASSUME NEW i \in 1..n, NEW j \in 1..n, i # j
               PROVE  Range(s[i]) \intersect Range(s[j]) = {}
    BY <1>4
  <2>1. o.coders[i] # o.coders[j] /\ o.coders[i] \in C /\ o.coders[j] \in C
    BY <1>1 DEF Distinct, Normal
  <2>2. Range(s[i]) = Of(o.coders[i]) /\ Range(s[j]) = Of(o.coders[j])
    BY <1>2, <1>4, <2>1
  <2>3. \A c \in C : \A x \in Of(c) : x[1] = c
    OBVIOUS
  <2> HIDE DEF Of
  <2> QED
    BY <2>1, <2>2, <2>3
<1>7. /\ FlattenSeq(s) \in Seq(Planned(C)) /\ Distinct(FlattenSeq(s))
      /\ Range(FlattenSeq(s)) = UNION {Range(s[i]) : i \in DOMAIN s}
  BY <1>4, <1>5, <1>6, FlattenedIs
<1>8. ASSUME NEW c \in Range(o.coders), NEW b \in Range(o.benchmarks), NEW t \in Range(o.tasks[b])
      PROVE  <<c, b, t>> \in Range(Product(o))
  <2>1. PICK i \in 1..n : c = o.coders[i]
    BY <1>1 DEF Range
  <2>2. <<c, b, t>> \in Of(c)
    OBVIOUS
  <2>3. Of(c) = Range(s[i])
    BY <1>1, <1>2, <1>4, <2>1
  <2> HIDE DEF Of
  <2> QED
    BY <1>3, <1>4, <1>7, <2>2, <2>3
<1> QED
  BY <1>3, <1>7, <1>8 DEF C

\* What a request is made of, once it has been normalized.
LEMMA NormalizedIs ==
    ASSUME NEW r \in MatrixRequest
    PROVE  /\ Normal(Normalized(r))
           /\ Normalized(r).mode = r.mode /\ Normalized(r).proxy = r.proxy
           /\ Normalized(r).baseUrl = r.baseUrl /\ Normalized(r).concurrency = r.concurrency
<1> DEFINE bs == IF r.benchmarks # <<>> THEN r.benchmarks ELSE InferBenchmarks(r.tasks, r.generic)
           benchmarks == Unique(bs)
           cs == IF r.coders = <<>> THEN <<"lightcc">> ELSE r.coders
           Tasks(b) == r.tasks[b] \o (IF Contains(benchmarks, b) THEN r.generic ELSE <<>>)
<1>1. /\ r.coders \in Seq(DOMAIN Adapters) /\ r.benchmarks \in Seq(Benchmarks)
      /\ r.tasks \in [Benchmarks -> Seq(STRING)] /\ r.generic \in Seq(STRING)
  BY DEF MatrixRequest
<1>2. bs \in Seq(Benchmarks)
  <2> DEFINE one == IF r.tasks["swebench"] = <<>> THEN <<>> ELSE <<"swebench">>
             two == IF r.tasks["terminal-bench"] = <<>> THEN <<>> ELSE <<"terminal-bench">>
  <2>0. "swebench" \in Benchmarks /\ "terminal-bench" \in Benchmarks
    BY DEF Benchmarks
  <2>1. one \in Seq(Benchmarks) /\ two \in Seq(Benchmarks) /\ <<"terminal-bench">> \in Seq(Benchmarks)
    BY <2>0, OneOrNone
  <2>2. one \o two \in Seq(Benchmarks)
    <3> HIDE DEF one, two
    <3> QED
      BY <2>1, ConcatProperties
  <2>3. InferBenchmarks(r.tasks, r.generic)
          = IF one \o two = <<>> /\ r.generic # <<>> THEN <<"terminal-bench">> ELSE one \o two
    BY DEF InferBenchmarks
  <2> HIDE DEF one, two
  <2> QED
    BY <1>1, <2>1, <2>2, <2>3
<1>3. cs \in Seq(DOMAIN Adapters)
  <2>1. <<"lightcc">> \in Seq(DOMAIN Adapters)
    BY MatrixAssumption, OneOrNone
  <2> QED
    BY <1>1, <2>1
<1>4. \A b \in Benchmarks : Tasks(b) \in Seq(STRING)
  <2> SUFFICES ASSUME NEW b \in Benchmarks PROVE Tasks(b) \in Seq(STRING)
    OBVIOUS
  <2> DEFINE more == IF Contains(benchmarks, b) THEN r.generic ELSE <<>>
  <2>1. r.tasks[b] \in Seq(STRING) /\ more \in Seq(STRING)
    <3>1. <<>> \in Seq(STRING)
      OBVIOUS
    <3> QED
      BY <1>1, <3>1
  <2> HIDE DEF more
  <2>2. r.tasks[b] \o more \in Seq(STRING)
    BY <2>1, ConcatProperties
  <2> QED
    BY <2>2 DEF more
<1>5. Normalized(r) = [r EXCEPT !.coders = Unique(cs), !.benchmarks = benchmarks,
                                !.tasks = [b \in Benchmarks |-> Unique(Tasks(b))]]
  BY DEF Normalized
<1> HIDE DEF bs, benchmarks, cs, Tasks
<1>6. benchmarks \in Seq(Benchmarks) /\ Distinct(benchmarks)
  BY <1>2, UniqueIs DEF benchmarks
<1>7. Unique(cs) \in Seq(DOMAIN Adapters) /\ Distinct(Unique(cs))
  BY <1>3, UniqueIs
<1>8. \A b \in Benchmarks : Unique(Tasks(b)) \in Seq(STRING) /\ Distinct(Unique(Tasks(b)))
  BY <1>4, UniqueIs
<1> DEFINE ts == [b \in Benchmarks |-> Unique(Tasks(b))]
           c == Unique(cs)
<1>9. ts \in [Benchmarks -> Seq(STRING)] /\ \A b \in Benchmarks : Distinct(ts[b])
  BY <1>8
<1>10. Normalized(r) = [r EXCEPT !.coders = c, !.benchmarks = benchmarks, !.tasks = ts]
  BY <1>5
<1> HIDE DEF ts, c
<1>11. /\ Normalized(r).coders = c /\ Normalized(r).benchmarks = benchmarks /\ Normalized(r).tasks = ts
       /\ Normalized(r).mode = r.mode /\ Normalized(r).proxy = r.proxy
       /\ Normalized(r).baseUrl = r.baseUrl /\ Normalized(r).concurrency = r.concurrency
  BY <1>10 DEF MatrixRequest
<1> QED
  BY <1>6, <1>7, <1>9, <1>11 DEF Normal, c

MatrixPhases == {"plan", "plan.json", "jobs", "rejected", "failed", "completed"}
MatrixStages == {"take", "mkdir", "port", "listen", "run", "stop", "report", "failed", "done"}
WorkerState == [job : Nat, at : MatrixStages, port : Ports \union {NoPort}, held : BOOLEAN,
                exit : {0, 1}]
Busy(x) == x.at \notin {"take", "done"}
Outcome(pl, i, status) == [status |-> status, index |-> i, task |-> pl[i].task]
Outcomes(pl) == {NoResult} \union {Outcome(pl, i, s) : i \in 1..Len(pl), s \in {"completed", "failed"}}

MatrixTypes ==
    /\ request \in Requests /\ phase \in MatrixPhases /\ nextIndex \in Nat
    /\ Len(plan) \in Nat /\ DOMAIN plan = 1..Len(plan)
    /\ worker \in [DOMAIN worker -> WorkerState]
    /\ results \in [1..Len(plan) -> Outcomes(plan)]
    /\ runs \in [1..Len(plan) -> Nat] /\ listening \in [Ports -> Nat]

\* The plan is that of the request.
PlanInv ==
    /\ \A i \in 1..Len(plan) : plan[i] = BuildJob(Normalized(request), i)
    /\ phase = "plan" => nextIndex = 0 /\ \A p \in Ports : listening[p] = 0
    /\ phase \in {"plan", "plan.json"} => nextIndex = 0
    /\ phase \notin {"plan", "rejected"} => Len(plan) = Len(Product(Normalized(request)))
    /\ Len(plan) > 0 => DOMAIN worker # {}

\* What a worker knows of its job and of the port it was given.
Sound(x, pl, next, ran, heard, ph) ==
    /\ Busy(x) => x.job \in 1..Len(pl) /\ x.job <= next
    /\ x.at \in {"mkdir", "port", "listen", "run"} => ran[x.job] = 0
    /\ x.at \in {"stop", "report"} => ran[x.job] = 1
    /\ x.held => x.at \in {"run", "stop", "failed"} /\ x.port \in Ports
    /\ x.at = "listen" => x.port \in Ports
    /\ x.at = "run" /\ pl[x.job].proxy => x.held
    /\ x.held /\ x.at \in {"run", "stop"} => heard[x.port] = x.job
    /\ x.at = "done" => next >= Len(pl) \/ ph = "rejected"

\* No two workers have the same job.
WorkersInv ==
    /\ \A w \in DOMAIN worker : Sound(worker[w], plan, nextIndex, runs, listening, phase)
    /\ \A v, w \in DOMAIN worker :
          v # w /\ Busy(worker[v]) /\ Busy(worker[w]) => worker[v].job # worker[w].job

\* A job that was taken is in a worker's hands or has its result, unless the run was
\* rejected, and has run once at most.
JobsInv ==
    \A i \in 1..Len(plan) :
        /\ runs[i] <= 1 /\ (i > nextIndex => runs[i] = 0)
        /\ \/ results[i] = NoResult
           \/ results[i] = Outcome(plan, i, "completed") /\ runs[i] = 1
           \/ results[i] = Outcome(plan, i, "failed")
        /\ i <= nextIndex =>
              \/ results[i] # NoResult \/ phase = "rejected"
              \/ \E w \in DOMAIN worker : Busy(worker[w]) /\ worker[w].job = i
        /\ phase \in {"completed", "failed"} => results[i] # NoResult
        /\ phase = "completed" => results[i] # Outcome(plan, i, "failed")

\* A server that listens is held by the worker of its job, or nobody was given it.
PortsInv ==
    \A p \in Ports :
        \/ listening[p] = 0 \/ listening[p] \in orphans
        \/ \E w \in DOMAIN worker :
              worker[w].held /\ worker[w].port = p /\ worker[w].job = listening[p]

MatrixInv == MatrixTypes /\ PlanInv /\ WorkersInv /\ JobsInv /\ PortsInv


\* A job of the plan: its index, and a proxy of its own instead of a base URL.
LEMMA JobIs ==
    ASSUME NEW r \in MatrixRequest, NEW i
    PROVE  LET job == BuildJob(Normalized(r), i)
           IN  /\ job.index = i /\ <<job.coder, job.benchmark, job.task>>
                     = <<Product(Normalized(r))[i][1], Product(Normalized(r))[i][2], Product(Normalized(r))[i][3]>>
               /\ job.proxy \in BOOLEAN
               /\ job.proxy => "--base-url" \notin job.flags
               /\ "--base-url" \in job.flags => r.baseUrl
<1> DEFINE o == Normalized(r)
           job == BuildJob(o, i)
           c == Product(o)[i][1]
<1>1. o.proxy = r.proxy /\ o.baseUrl = r.baseUrl /\ r.proxy \in BOOLEAN
  BY NormalizedIs DEF MatrixRequest
<1>2. "--base-url" \in SwebenchFlags(o, c) => r.baseUrl /\ ~r.proxy
  <2> HIDE DEF o, c
  <2> QED
    BY <1>1 DEF SwebenchFlags
<1>3. "--base-url" \in TerminalBenchFlags(o, c) => r.baseUrl /\ ~r.proxy
  <2> HIDE DEF o, c
  <2> QED
    BY <1>1, <1>2 DEF TerminalBenchFlags
<1>4. job.flags \in {SwebenchFlags(o, c), TerminalBenchFlags(o, c)}
  <2> HIDE DEF o
  <2> QED
    BY DEF BuildJob, c
<1>5. /\ job.index = i /\ job.coder = c /\ job.benchmark = Product(o)[i][2] /\ job.task = Product(o)[i][3]
      /\ job.proxy = (o.proxy /\ o.mode = "run")
  <2> HIDE DEF o
  <2> QED
    BY DEF BuildJob, c
<1> HIDE DEF o, job, c
<1>6. job.proxy \in BOOLEAN /\ (job.proxy => r.proxy)
  BY <1>1, <1>5
<1>7. "--base-url" \in job.flags => r.baseUrl /\ ~r.proxy
  BY <1>2, <1>3, <1>4
<1> QED
  BY <1>5, <1>6, <1>7 DEF o, job, c

\* A run of the matrix begins with nothing planned.
LEMMA MatrixBegins == MatrixInit => MatrixInv
<1> SUFFICES ASSUME MatrixInit PROVE MatrixInv
  OBVIOUS
<1>1. /\ phase = "plan" /\ request \in Requests /\ plan = <<>> /\ nextIndex = 0 /\ worker = <<>>
      /\ results = <<>> /\ listening = [p \in Ports |-> 0] /\ runs = <<>>
  BY DEF MatrixInit
<1>2. Len(<<>>) = 0 /\ DOMAIN <<>> = {} /\ 1..0 = {}
  OBVIOUS
<1>3. MatrixTypes
  <2>1. worker \in [DOMAIN worker -> WorkerState]
    BY <1>1, <1>2
  <2>2. results \in [{} -> Outcomes(plan)] /\ runs \in [{} -> Nat]
    BY <1>1
  <2>3. listening \in [Ports -> Nat]
    BY <1>1
  <2> QED
    BY <1>1, <1>2, <2>1, <2>2, <2>3 DEF MatrixTypes, MatrixPhases
<1>4. PlanInv
  BY <1>1, <1>2 DEF PlanInv
<1>5. WorkersInv
  BY <1>1, <1>2 DEF WorkersInv
<1>6. JobsInv
  BY <1>1, <1>2 DEF JobsInv
<1>7. PortsInv
  BY <1>1 DEF PortsInv
<1> QED
  BY <1>3, <1>4, <1>5, <1>6, <1>7 DEF MatrixInv

\* What a step of worker w may change of what the others know.
Mine(x, i) == Busy(x) /\ x.job = i

\* A worker moves on to state y: the others keep what they know of their own jobs and
\* ports, for it touches only those of its own job and a port that is free.
LEMMA WorkerMoves ==
    ASSUME MatrixInv, NEW w \in DOMAIN worker, NEW y \in WorkerState,
           worker' = [worker EXCEPT ![w] = y], plan' = plan, request' = request,
           nextIndex' \in Nat, nextIndex <= nextIndex',
           phase' = phase \/ phase' = "rejected",
           runs' \in [1..Len(plan) -> Nat], listening' \in [Ports -> Nat],
           results' \in [1..Len(plan) -> Outcomes(plan)],
           Sound(y, plan, nextIndex', runs', listening', phase'),
           Busy(y) => Mine(worker[w], y.job) \/ y.job > nextIndex,
           \A i \in 1..Len(plan) : runs'[i] = runs[i] \/ Mine(worker[w], i),
           \A p \in Ports : \/ listening'[p] = listening[p] \/ listening[p] = 0
                            \/ Mine(worker[w], listening[p])
    PROVE  MatrixTypes' /\ WorkersInv' /\ DOMAIN worker' = DOMAIN worker
           /\ worker'[w] = y /\ \A v \in DOMAIN worker : v # w => worker'[v] = worker[v]
<1>1. /\ request \in Requests /\ phase \in MatrixPhases /\ nextIndex \in Nat
      /\ Len(plan) \in Nat /\ DOMAIN plan = 1..Len(plan)
      /\ worker \in [DOMAIN worker -> WorkerState]
      /\ runs \in [1..Len(plan) -> Nat] /\ listening \in [Ports -> Nat]
  BY DEF MatrixInv, MatrixTypes
<1>2. /\ worker' \in [DOMAIN worker -> WorkerState] /\ DOMAIN worker' = DOMAIN worker /\ worker'[w] = y
      /\ \A v \in DOMAIN worker : v # w => worker'[v] = worker[v]
  BY <1>1
<1>3. MatrixTypes'
  <2>1. worker' \in [DOMAIN worker' -> WorkerState]
    BY <1>2
  <2>2. phase' \in MatrixPhases
    BY <1>1 DEF MatrixPhases
  <2> QED
    BY <1>1, <2>1, <2>2 DEF MatrixTypes
<1>4. /\ \A v \in DOMAIN worker : Sound(worker[v], plan, nextIndex, runs, listening, phase)
      /\ \A u, v \in DOMAIN worker :
            u # v /\ Busy(worker[u]) /\ Busy(worker[v]) => worker[u].job # worker[v].job
  BY DEF MatrixInv, WorkersInv
<1>5. ASSUME NEW v \in DOMAIN worker, v # w
      PROVE  Sound(worker[v], plan, nextIndex', runs', listening', phase')
  <2> DEFINE x == worker[v]
  <2>1. Sound(x, plan, nextIndex, runs, listening, phase) /\ x \in WorkerState
    BY <1>1, <1>4
  <2>2. Busy(x) => ~Mine(worker[w], x.job)
    BY <1>4, <1>5 DEF Mine
  <2>3. x.job \in Nat
    BY <2>1 DEF WorkerState
  <2> HIDE DEF x
  <2>4. Busy(x) => x.job \in 1..Len(plan) /\ x.job <= nextIndex
    BY <2>1 DEF Sound
  <2>5. Busy(x) => runs'[x.job] = runs[x.job]
    BY <2>2, <2>4
  <2>6. x.held /\ x.at \in {"run", "stop"} => listening'[x.port] = x.job
    <3> SUFFICES ASSUME x.held, x.at \in {"run", "stop"} PROVE listening'[x.port] = x.job
      OBVIOUS
    <3>1. Busy(x) /\ x.port \in Ports /\ listening[x.port] = x.job /\ x.job # 0
      BY <1>1, <2>1, <2>4 DEF Sound, Busy
    <3> QED
      BY <2>2, <3>1
  <2>7. x.at \in {"mkdir", "port", "listen", "run"} => runs'[x.job] = 0
    BY <2>1, <2>5 DEF Sound, Busy
  <2>8. x.at \in {"stop", "report"} => runs'[x.job] = 1
    BY <2>1, <2>5 DEF Sound, Busy
  <2>9. x.at = "done" => nextIndex' >= Len(plan) \/ phase' = "rejected"
    BY <1>1, <2>1 DEF Sound
  <2>10. Busy(x) => x.job \in 1..Len(plan) /\ x.job <= nextIndex'
    BY <1>1, <2>3, <2>4
  <2>11. /\ x.held => x.at \in {"run", "stop", "failed"} /\ x.port \in Ports
         /\ x.at = "listen" => x.port \in Ports
         /\ x.at = "run" /\ plan[x.job].proxy => x.held
    BY <2>1 DEF Sound
  <2> QED
    BY <2>6, <2>7, <2>8, <2>9, <2>10, <2>11 DEF Sound, x
<1>6. ASSUME NEW v \in DOMAIN worker, v # w, Busy(worker[v]), Busy(y)
      PROVE  worker[v].job # y.job
  <2>1. worker[v].job \in Nat /\ worker[v].job <= nextIndex /\ y.job \in Nat
    BY <1>1, <1>4, <1>6 DEF Sound, WorkerState
  <2>2. CASE Mine(worker[w], y.job)
    BY <1>4, <1>6, <2>2 DEF Mine
  <2>3. CASE y.job > nextIndex
    BY <1>1, <2>1, <2>3
  <2> QED
    BY <1>6, <2>2, <2>3
<1>7. \A v \in DOMAIN worker : Sound(worker'[v], plan, nextIndex', runs', listening', phase')
  <2> SUFFICES ASSUME NEW v \in DOMAIN worker
               PROVE  Sound(worker'[v], plan, nextIndex', runs', listening', phase')
    OBVIOUS
  <2>1. CASE v = w
    BY <1>2, <2>1
  <2>2. CASE v # w
    BY <1>2, <1>5, <2>2
  <2> QED
    BY <2>1, <2>2
<1>8. \A u, v \in DOMAIN worker :
        u # v /\ Busy(worker'[u]) /\ Busy(worker'[v]) => worker'[u].job # worker'[v].job
  <2> SUFFICES ASSUME NEW u \in DOMAIN worker, NEW v \in DOMAIN worker,
                      u # v, Busy(worker'[u]), Busy(worker'[v])
               PROVE  worker'[u].job # worker'[v].job
    OBVIOUS
  <2>1. CASE u = w
    BY <1>2, <1>6, <2>1
  <2>2. CASE v = w
    BY <1>2, <1>6, <2>2
  <2>3. CASE u # w /\ v # w
    BY <1>2, <1>4, <2>3
  <2> QED
    BY <2>1, <2>2, <2>3
<1>9. WorkersInv'
  BY <1>2, <1>7, <1>8 DEF WorkersInv
<1> QED
  BY <1>2, <1>3, <1>9

\* The results of a job, and its absence, differ.
LEMMA OutcomesDiffer ==
    ASSUME NEW pl, NEW i
    PROVE  /\ Outcome(pl, i, "completed") # NoResult /\ Outcome(pl, i, "failed") # NoResult
           /\ Outcome(pl, i, "completed") # Outcome(pl, i, "failed")
<1>1. /\ Outcome(pl, i, "completed").status = "completed" /\ Outcome(pl, i, "failed").status = "failed"
      /\ NoResult.status = "none"
  BY DEF Outcome, NoResult
<1> QED
  BY <1>1

\* The jobs after a step of worker w: its own job stays in its hands, gets its result or
\* is lost with the run, and the others are as they were.
LEMMA JobsMove ==
    ASSUME MatrixInv, NEW w \in DOMAIN worker, NEW y,
           DOMAIN worker' = DOMAIN worker, worker'[w] = y,
           \A v \in DOMAIN worker : v # w => worker'[v] = worker[v],
           plan' = plan, phase \in {"jobs", "rejected"}, phase' = phase \/ phase' = "rejected",
           nextIndex' \in Nat, nextIndex <= nextIndex',
           \A i \in 1..Len(plan) :
              /\ i <= nextIndex' => i <= nextIndex \/ Mine(y, i)
              /\ Mine(worker[w], i) =>
                    Mine(y, i) \/ phase' = "rejected" \/ results'[i] # NoResult
              /\ runs'[i] = runs[i] \/ (Mine(worker[w], i) /\ runs'[i] = 1)
              /\ \/ results'[i] = results[i]
                 \/ results'[i] = Outcome(plan, i, "completed") /\ runs'[i] = 1
                 \/ results'[i] = Outcome(plan, i, "failed")
    PROVE  JobsInv'
<1> SUFFICES ASSUME NEW i \in 1..Len(plan)
             PROVE  /\ runs'[i] <= 1 /\ (i > nextIndex' => runs'[i] = 0)
                    /\ \/ results'[i] = NoResult
                       \/ results'[i] = Outcome(plan, i, "completed") /\ runs'[i] = 1
                       \/ results'[i] = Outcome(plan, i, "failed")
                    /\ i <= nextIndex' =>
                          \/ results'[i] # NoResult \/ phase' = "rejected"
                          \/ \E v \in DOMAIN worker : Busy(worker'[v]) /\ worker'[v].job = i
                    /\ phase' \notin {"completed", "failed"}
  BY DEF JobsInv
<1>1. /\ nextIndex \in Nat /\ Len(plan) \in Nat /\ runs[i] \in Nat
  BY DEF MatrixInv, MatrixTypes
<1>2. /\ runs[i] <= 1 /\ (i > nextIndex => runs[i] = 0)
      /\ \/ results[i] = NoResult
         \/ results[i] = Outcome(plan, i, "completed") /\ runs[i] = 1
         \/ results[i] = Outcome(plan, i, "failed")
      /\ i <= nextIndex =>
            \/ results[i] # NoResult \/ phase = "rejected"
            \/ \E v \in DOMAIN worker : Busy(worker[v]) /\ worker[v].job = i
  BY DEF MatrixInv, JobsInv
<1>3. Mine(worker[w], i) => i <= nextIndex
  BY DEF MatrixInv, WorkersInv, Sound, Mine
<1>4. runs'[i] <= 1 /\ (i > nextIndex' => runs'[i] = 0)
  <2>1. i > nextIndex' => i > nextIndex
    BY <1>1
  <2>2. i > nextIndex => ~(i <= nextIndex)
    BY <1>1
  <2> QED
    BY <1>1, <1>2, <1>3, <2>1, <2>2
<1>5. \/ results'[i] = NoResult
      \/ results'[i] = Outcome(plan, i, "completed") /\ runs'[i] = 1
      \/ results'[i] = Outcome(plan, i, "failed")
  <2>1. runs[i] = 1 => runs'[i] = 1
    OBVIOUS
  <2> QED
    BY <1>2, <2>1
<1>6. results[i] # NoResult => results'[i] # NoResult
  BY OutcomesDiffer
<1>7. ASSUME i <= nextIndex', results'[i] = NoResult, phase' # "rejected"
      PROVE  \E v \in DOMAIN worker : Busy(worker'[v]) /\ worker'[v].job = i
  <2>1. CASE Mine(y, i)
    BY <2>1 DEF Mine
  <2>2. CASE ~Mine(y, i)
    <3>1. PICK v \in DOMAIN worker : Busy(worker[v]) /\ worker[v].job = i
      BY <1>2, <1>6, <1>7, <2>2
    <3>2. v # w
      BY <1>7, <2>2, <3>1 DEF Mine
    <3> QED
      BY <3>1, <3>2
  <2> QED
    BY <2>1, <2>2
<1> QED
  BY <1>4, <1>5, <1>7

\* The plan stays that of the request while the workers work.
LEMMA PlanStays ==
    ASSUME MatrixInv, plan' = plan, request' = request, DOMAIN worker' = DOMAIN worker,
           phase \in {"jobs", "rejected"}, phase' = phase \/ phase' = "rejected"
    PROVE  PlanInv'
  BY DEF MatrixInv, PlanInv

\* The servers after a step of worker w that stops none: it still holds what it held.
LEMMA PortsStay ==
    ASSUME MatrixInv, NEW w \in DOMAIN worker, NEW y,
           DOMAIN worker' = DOMAIN worker, worker'[w] = y,
           \A v \in DOMAIN worker : v # w => worker'[v] = worker[v],
           orphans' = orphans, listening' = listening,
           worker[w].held => y.held /\ y.port = worker[w].port /\ y.job = worker[w].job
    PROVE  PortsInv'
<1> SUFFICES ASSUME NEW p \in Ports, listening[p] # 0, listening[p] \notin orphans
             PROVE  \E v \in DOMAIN worker :
                       worker'[v].held /\ worker'[v].port = p /\ worker'[v].job = listening[p]
  BY DEF PortsInv
<1>1. PICK v \in DOMAIN worker : worker[v].held /\ worker[v].port = p /\ worker[v].job = listening[p]
  BY DEF MatrixInv, PortsInv
<1>2. CASE v = w
  BY <1>1, <1>2
<1>3. CASE v # w
  BY <1>1, <1>3
<1> QED
  BY <1>2, <1>3

\* Stopping the server a worker holds, if it still listens, leaves no other without its
\* holder.
LEMMA PortsStopped ==
    ASSUME MatrixInv, NEW w \in DOMAIN worker, Stopped(w),
           DOMAIN worker' = DOMAIN worker, \A v \in DOMAIN worker : v # w => worker'[v] = worker[v],
           orphans' = orphans
    PROVE  /\ PortsInv' /\ listening' \in [Ports -> Nat]
           /\ \A p \in Ports : \/ listening'[p] = listening[p]
                               \/ worker[w].held /\ listening[p] = worker[w].job
<1>1. listening \in [Ports -> Nat]
      /\ (worker[w].held => worker[w].port \in Ports)
  BY DEF MatrixInv, MatrixTypes, WorkersInv, Sound
<1> DEFINE x == worker[w]
<1>2. listening' = IF x.held /\ listening[x.port] = x.job
                   THEN [listening EXCEPT ![x.port] = 0] ELSE listening
  BY DEF Stopped
<1> HIDE DEF x
<1>3. listening' \in [Ports -> Nat]
  BY <1>1, <1>2 DEF x
<1>4. \A p \in Ports : listening'[p] = listening[p] \/ (x.held /\ listening[p] = x.job)
  BY <1>1, <1>2 DEF x
<1>5. \A p \in Ports : listening'[p] = listening[p] \/ listening'[p] = 0
  BY <1>1, <1>2 DEF x
<1>6. PortsInv'
  <2> SUFFICES ASSUME NEW p \in Ports, listening'[p] # 0, listening'[p] \notin orphans
               PROVE  \E v \in DOMAIN worker :
                         worker'[v].held /\ worker'[v].port = p /\ worker'[v].job = listening'[p]
    BY DEF PortsInv
  <2>1. listening'[p] = listening[p]
    BY <1>5
  <2>2. PICK v \in DOMAIN worker : worker[v].held /\ worker[v].port = p /\ worker[v].job = listening[p]
    BY <2>1 DEF MatrixInv, PortsInv
  <2>3. v # w
    <3>1. SUFFICES ASSUME v = w PROVE FALSE
      OBVIOUS
    <3>2. x.held /\ x.port = p /\ listening[x.port] = x.job
      BY <2>2, <3>1 DEF x
    <3>3. listening'[p] = 0
      BY <1>1, <1>2, <3>2
    <3> QED
      BY <3>3
  <2> QED
    BY <2>1, <2>2, <2>3
<1> QED
  BY <1>3, <1>4, <1>6 DEF x

\* What is known of a worker.
LEMMA WorkerAt ==
    ASSUME MatrixInv, NEW w \in DOMAIN worker
    PROVE  /\ worker \in [DOMAIN worker -> WorkerState] /\ worker[w] \in WorkerState
           /\ Sound(worker[w], plan, nextIndex, runs, listening, phase)
           /\ nextIndex \in Nat /\ Len(plan) \in Nat /\ phase \in MatrixPhases
           /\ runs \in [1..Len(plan) -> Nat] /\ listening \in [Ports -> Nat]
           /\ results \in [1..Len(plan) -> Outcomes(plan)]
  BY DEF MatrixInv, MatrixTypes, WorkersInv

\* A worker takes the next job, which no other has.
LEMMA TakeJobKeeps == ASSUME MatrixInv, NEW w \in DOMAIN worker, TakeJob(w) PROVE MatrixInv'
<1> DEFINE y == IF nextIndex >= Len(plan) THEN [Idle EXCEPT !.at = "done"]
                ELSE [Idle EXCEPT !.job = nextIndex + 1, !.at = "mkdir"]
<1>1. /\ worker' = [worker EXCEPT ![w] = y] /\ nextIndex' = nextIndex + 1 /\ Running
      /\ worker[w].at = "take"
      /\ UNCHANGED <<phase, request, plan, results, listening, orphans, runs, mishaps>>
  BY DEF TakeJob
<1>2. /\ phase \in {"jobs", "rejected"}
  BY <1>1 DEF Running
<1>3. /\ Sound(worker[w], plan, nextIndex, runs, listening, phase)
      /\ nextIndex \in Nat /\ Len(plan) \in Nat /\ runs \in [1..Len(plan) -> Nat]
      /\ listening \in [Ports -> Nat] /\ results \in [1..Len(plan) -> Outcomes(plan)]
  BY WorkerAt
<1>4. \A i : ~Mine(worker[w], i)
  BY <1>1 DEF Mine, Busy
<1>7. /\ nextIndex' \in Nat /\ nextIndex <= nextIndex' /\ plan' = plan /\ request' = request
      /\ phase' = phase /\ runs' = runs /\ listening' = listening /\ results' = results
  BY <1>1, <1>3
<1>5. CASE nextIndex >= Len(plan)
  <2>1. y \in WorkerState /\ y.at = "done" /\ y.held = FALSE
    BY <1>5 DEF Idle, WorkerState, MatrixStages
  <2> HIDE DEF y
  <2>2. Sound(y, plan, nextIndex', runs', listening', phase') /\ ~Busy(y)
    BY <1>1, <1>3, <1>5, <2>1 DEF Sound, Busy
  <2>3. /\ MatrixTypes' /\ WorkersInv' /\ DOMAIN worker' = DOMAIN worker
        /\ worker'[w] = y /\ \A v \in DOMAIN worker : v # w => worker'[v] = worker[v]
    BY <1>1, <1>3, <1>7, <2>1, <2>2, WorkerMoves
  <2>4. \A i \in 1..Len(plan) : i <= nextIndex
    BY <1>3, <1>5
  <2>5. JobsInv'
    <3>1. \A i \in 1..Len(plan) :
            /\ i <= nextIndex' => i <= nextIndex \/ Mine(y, i)
            /\ ~Mine(worker[w], i) /\ runs'[i] = runs[i] /\ results'[i] = results[i]
      BY <1>4, <1>7, <2>4
    <3> QED
      BY <1>2, <1>7, <2>3, <3>1, JobsMove
  <2>6. PlanInv'
    BY <1>1, <1>2, <2>3, PlanStays
  <2>7. PortsInv'
    <3>1. ~worker[w].held
      BY <1>1, <1>3 DEF Sound
    <3> QED
      BY <1>1, <2>3, <3>1, PortsStay
  <2> QED
    BY <2>3, <2>5, <2>6, <2>7 DEF MatrixInv
<1>6. CASE ~(nextIndex >= Len(plan))
  <2>0. nextIndex + 1 \in 1..Len(plan) /\ nextIndex + 1 > nextIndex /\ nextIndex + 1 <= nextIndex'
    BY <1>1, <1>3, <1>6
  <2> DEFINE job == nextIndex + 1
  <2>9. job \in Nat /\ y = [Idle EXCEPT !.job = job, !.at = "mkdir"]
    BY <1>3, <1>6
  <2> HIDE DEF y, job
  <2>10. y \in WorkerState /\ y.at = "mkdir" /\ y.held = FALSE /\ y.job = job
    BY <2>9 DEF Idle, WorkerState, MatrixStages
  <2>1. y \in WorkerState /\ y.at = "mkdir" /\ y.held = FALSE /\ y.job = nextIndex + 1
    BY <2>10 DEF job
  <2>2. runs[nextIndex + 1] = 0
    BY <2>0 DEF MatrixInv, JobsInv
  <2>3. Sound(y, plan, nextIndex', runs', listening', phase') /\ Busy(y)
    BY <1>1, <1>3, <2>0, <2>1, <2>2 DEF Sound, Busy
  <2>4. /\ MatrixTypes' /\ WorkersInv' /\ DOMAIN worker' = DOMAIN worker
        /\ worker'[w] = y /\ \A v \in DOMAIN worker : v # w => worker'[v] = worker[v]
    <3>1. y.job > nextIndex
      BY <2>0, <2>1
    <3> QED
      BY <1>1, <1>3, <1>7, <2>1, <2>3, <3>1, WorkerMoves
  <2>5. \A i \in 1..Len(plan) : i <= nextIndex' => i <= nextIndex \/ Mine(y, i)
    BY <1>1, <1>3, <2>1, <2>3 DEF Mine
  <2>6. JobsInv'
    <3>1. \A i \in 1..Len(plan) :
            /\ i <= nextIndex' => i <= nextIndex \/ Mine(y, i)
            /\ ~Mine(worker[w], i) /\ runs'[i] = runs[i] /\ results'[i] = results[i]
      BY <1>4, <1>7, <2>5
    <3> QED
      BY <1>2, <1>7, <2>4, <3>1, JobsMove
  <2>7. PlanInv'
    BY <1>1, <1>2, <2>4, PlanStays
  <2>8. PortsInv'
    <3>1. ~worker[w].held
      BY <1>1, <1>3 DEF Sound
    <3> QED
      BY <1>1, <2>4, <3>1, PortsStay
  <2> QED
    BY <2>4, <2>6, <2>7, <2>8 DEF MatrixInv
<1> QED
  BY <1>5, <1>6

\* A step of worker w that only moves it on, with its job and what it holds, or rejects
\* the run.
LEMMA WorkerStep ==
    ASSUME MatrixInv, NEW w \in DOMAIN worker, NEW y \in WorkerState,
           worker' = [worker EXCEPT ![w] = y], Busy(worker[w]), phase \in {"jobs", "rejected"},
           UNCHANGED <<request, plan, nextIndex, listening, orphans>>,
           Sound(y, plan, nextIndex, runs', listening, phase'),
           phase' = phase \/ phase' = "rejected",
           runs' \in [1..Len(plan) -> Nat], results' \in [1..Len(plan) -> Outcomes(plan)],
           y.job = worker[w].job,
           Busy(y) \/ phase' = "rejected" \/ results'[y.job] # NoResult,
           \A i \in 1..Len(plan) :
              /\ runs'[i] = runs[i] \/ (Mine(worker[w], i) /\ runs'[i] = 1)
              /\ \/ results'[i] = results[i]
                 \/ results'[i] = Outcome(plan, i, "completed") /\ runs'[i] = 1
                 \/ results'[i] = Outcome(plan, i, "failed"),
           worker[w].held => y.held /\ y.port = worker[w].port
    PROVE  MatrixInv'
<1>1. nextIndex \in Nat /\ listening \in [Ports -> Nat]
  BY WorkerAt
<1>2. Busy(y) => Mine(worker[w], y.job)
  BY DEF Mine
<1>3. nextIndex <= nextIndex /\ (\A i \in 1..Len(plan) : i <= nextIndex' => i <= nextIndex \/ Mine(y, i))
  BY <1>1
<1>4. /\ MatrixTypes' /\ WorkersInv' /\ DOMAIN worker' = DOMAIN worker
      /\ worker'[w] = y /\ \A v \in DOMAIN worker : v # w => worker'[v] = worker[v]
  BY <1>1, <1>2, <1>3, WorkerMoves
<1>5. \A i : Mine(worker[w], i) => Mine(y, i) \/ phase' = "rejected" \/ results'[i] # NoResult
  BY DEF Mine
<1>6. JobsInv'
  BY <1>1, <1>3, <1>4, <1>5, JobsMove
<1>7. PlanInv'
  BY <1>4, PlanStays
<1>8. PortsInv'
  BY <1>4, PortsStay
<1> QED
  BY <1>4, <1>6, <1>7, <1>8 DEF MatrixInv

\* The directories of a job.
LEMMA MakeDirsKeeps == ASSUME MatrixInv, NEW w \in DOMAIN worker, MakeDirs(w) PROVE MatrixInv'
<1> DEFINE x == worker[w]
<1>1. /\ x.at = "mkdir" /\ phase \in {"jobs", "rejected"}
      /\ UNCHANGED <<request, plan, nextIndex, results, listening, orphans, runs>>
  BY DEF MakeDirs, Running
<1>2. /\ x \in WorkerState /\ Sound(x, plan, nextIndex, runs, listening, phase)
      /\ worker \in [DOMAIN worker -> WorkerState]
      /\ nextIndex \in Nat /\ Len(plan) \in Nat /\ runs \in [1..Len(plan) -> Nat]
      /\ results \in [1..Len(plan) -> Outcomes(plan)]
  BY WorkerAt
<1>3. Busy(x) /\ ~x.held /\ x.job \in 1..Len(plan) /\ x.job <= nextIndex /\ runs[x.job] = 0
  BY <1>1, <1>2 DEF Sound, Busy
<1>4. ASSUME NEW at \in {"port", "run"}, plan[x.job].proxy => at = "port",
             worker' = [worker EXCEPT ![w] = [x EXCEPT !.at = at]], phase' = phase
      PROVE  MatrixInv'
  <2> DEFINE y == [x EXCEPT !.at = at]
  <2>1. y \in WorkerState /\ y.at = at /\ y.job = x.job /\ y.held = x.held /\ y.port = x.port
    BY <1>2 DEF WorkerState, MatrixStages
  <2> HIDE DEF y, x
  <2>2. Sound(y, plan, nextIndex, runs', listening, phase') /\ Busy(y)
    BY <1>1, <1>3, <1>4, <2>1 DEF Sound, Busy
  <2> QED
    BY <1>1, <1>2, <1>3, <1>4, <2>1, <2>2, WorkerStep DEF x, y
<1>5. ASSUME worker' = [worker EXCEPT ![w] = [x EXCEPT !.at = "done"]], phase' = "rejected"
      PROVE  MatrixInv'
  <2> DEFINE y == [x EXCEPT !.at = "done"]
  <2>1. y \in WorkerState /\ y.at = "done" /\ y.job = x.job /\ y.held = x.held /\ y.port = x.port
    BY <1>2 DEF WorkerState, MatrixStages
  <2> HIDE DEF y, x
  <2>2. Sound(y, plan, nextIndex, runs', listening, phase')
    BY <1>1, <1>3, <1>5, <2>1 DEF Sound, Busy
  <2> QED
    BY <1>1, <1>2, <1>3, <1>5, <2>1, <2>2, WorkerStep DEF x, y
<1>6. \/ /\ worker' = [worker EXCEPT ![w] = [x EXCEPT !.at = IF plan[x.job].proxy THEN "port" ELSE "run"]]
         /\ phase' = phase
      \/ worker' = [worker EXCEPT ![w] = [x EXCEPT !.at = "done"]] /\ phase' = "rejected"
  BY <1>2 DEF MakeDirs
<1> QED
  BY <1>4, <1>5, <1>6

\* A port is looked up: another worker may take it yet.
LEMMA GetFreePortKeeps == ASSUME MatrixInv, NEW w \in DOMAIN worker, GetFreePort(w) PROVE MatrixInv'
<1> DEFINE x == worker[w]
<1>1. /\ x.at = "port" /\ phase \in {"jobs", "rejected"}
      /\ UNCHANGED <<phase, request, plan, nextIndex, results, listening, orphans, runs>>
  BY DEF GetFreePort, Running
<1>2. /\ x \in WorkerState /\ Sound(x, plan, nextIndex, runs, listening, phase)
      /\ worker \in [DOMAIN worker -> WorkerState]
      /\ nextIndex \in Nat /\ Len(plan) \in Nat /\ runs \in [1..Len(plan) -> Nat]
      /\ results \in [1..Len(plan) -> Outcomes(plan)]
  BY WorkerAt
<1>3. Busy(x) /\ ~x.held /\ x.job \in 1..Len(plan) /\ x.job <= nextIndex /\ runs[x.job] = 0
  BY <1>1, <1>2 DEF Sound, Busy
<1>4. PICK port \in Ports : worker' = [worker EXCEPT ![w].port = port, ![w].at = "listen"]
  BY DEF GetFreePort
<1> DEFINE y == [[x EXCEPT !.port = port] EXCEPT !.at = "listen"]
<1>5. y \in WorkerState /\ y.at = "listen" /\ y.job = x.job /\ y.held = x.held /\ y.port = port
  BY <1>2 DEF WorkerState, MatrixStages
<1>6. worker' = [worker EXCEPT ![w] = y]
  BY <1>2, <1>4
<1> HIDE DEF y, x
<1>7. Sound(y, plan, nextIndex, runs', listening, phase') /\ Busy(y)
  BY <1>1, <1>3, <1>5 DEF Sound, Busy
<1> QED
  BY <1>1, <1>2, <1>3, <1>5, <1>6, <1>7, WorkerStep DEF x

\* What is known of a worker that has a job.
LEMMA BusyWorker ==
    ASSUME MatrixInv, NEW w \in DOMAIN worker, Busy(worker[w])
    PROVE  /\ worker[w].job \in 1..Len(plan) /\ worker[w].job <= nextIndex
           /\ worker[w].job \in Nat /\ worker[w].job # 0
           /\ worker[w].at \notin {"run", "stop", "failed"} => ~worker[w].held
           /\ worker[w].held => worker[w].port \in Ports
           /\ \A s : JobResult(w, s) = Outcome(plan, worker[w].job, s)
<1>1. worker[w] \in WorkerState /\ Sound(worker[w], plan, nextIndex, runs, listening, phase)
      /\ Len(plan) \in Nat
  BY WorkerAt
<1>2. worker[w].job \in 1..Len(plan)
  BY <1>1 DEF Sound
<1>3. plan[worker[w].job].index = worker[w].job
  <2>1. plan[worker[w].job] = BuildJob(Normalized(request), worker[w].job) /\ request \in MatrixRequest
    BY <1>2, MatrixAssumption DEF MatrixInv, PlanInv, MatrixTypes
  <2> QED
    BY <2>1, JobIs
<1> QED
  BY <1>1, <1>2, <1>3 DEF Sound, JobResult, Outcome

\* A step of worker w that stops the server it holds, if any.
LEMMA WorkerStops ==
    ASSUME MatrixInv, NEW w \in DOMAIN worker, NEW y \in WorkerState,
           worker' = [worker EXCEPT ![w] = y], Busy(worker[w]), phase \in {"jobs", "rejected"},
           Stopped(w), UNCHANGED <<request, plan, nextIndex, orphans, runs>>,
           Sound(y, plan, nextIndex, runs, listening', phase'),
           phase' = phase \/ phase' = "rejected",
           results' \in [1..Len(plan) -> Outcomes(plan)],
           y.job = worker[w].job,
           Busy(y) \/ phase' = "rejected" \/ results'[y.job] # NoResult,
           \A i \in 1..Len(plan) :
              results'[i] = results[i] \/ results'[i] = Outcome(plan, i, "failed")
    PROVE  MatrixInv'
<1>1. nextIndex \in Nat /\ listening \in [Ports -> Nat] /\ runs \in [1..Len(plan) -> Nat]
      /\ worker \in [DOMAIN worker -> WorkerState]
  BY WorkerAt
<1>2. /\ DOMAIN worker' = DOMAIN worker /\ worker'[w] = y
      /\ \A v \in DOMAIN worker : v # w => worker'[v] = worker[v]
  BY <1>1
<1>3. /\ PortsInv' /\ listening' \in [Ports -> Nat]
      /\ \A p \in Ports : \/ listening'[p] = listening[p]
                          \/ worker[w].held /\ listening[p] = worker[w].job
  BY <1>2, PortsStopped
<1>4. \A p \in Ports : \/ listening'[p] = listening[p] \/ listening[p] = 0
                       \/ Mine(worker[w], listening[p])
  BY <1>3 DEF Mine
<1>5. Busy(y) => Mine(worker[w], y.job)
  BY DEF Mine
<1>6. nextIndex <= nextIndex /\ (\A i \in 1..Len(plan) : i <= nextIndex' => i <= nextIndex \/ Mine(y, i))
  BY <1>1
<1>7. MatrixTypes' /\ WorkersInv'
  BY <1>1, <1>3, <1>4, <1>5, <1>6, WorkerMoves
<1>8. \A i : Mine(worker[w], i) => Mine(y, i) \/ phase' = "rejected" \/ results'[i] # NoResult
  BY DEF Mine
<1>9. JobsInv'
  BY <1>1, <1>2, <1>6, <1>8, JobsMove
<1>10. PlanInv'
  BY <1>2, PlanStays
<1> QED
  BY <1>3, <1>7, <1>9, <1>10 DEF MatrixInv

\* A proxy listens at a port that is free, or nobody is given its handle.
LEMMA StartProxyKeeps == ASSUME MatrixInv, NEW w \in DOMAIN worker, StartProxy(w) PROVE MatrixInv'
<1> DEFINE x == worker[w]
           port == x.port
<1>1. /\ x.at = "listen" /\ phase \in {"jobs", "rejected"} /\ Busy(x)
      /\ UNCHANGED <<phase, request, plan, nextIndex, results, runs>>
  BY DEF StartProxy, Running, Busy
<1>2. /\ x \in WorkerState /\ Sound(x, plan, nextIndex, runs, listening, phase)
      /\ worker \in [DOMAIN worker -> WorkerState]
      /\ nextIndex \in Nat /\ Len(plan) \in Nat /\ runs \in [1..Len(plan) -> Nat]
      /\ listening \in [Ports -> Nat] /\ results \in [1..Len(plan) -> Outcomes(plan)]
  BY WorkerAt
<1>3. /\ ~x.held /\ x.job \in 1..Len(plan) /\ x.job <= nextIndex /\ runs[x.job] = 0 /\ port \in Ports
      /\ x.job \in Nat /\ x.job # 0
  BY <1>1, <1>2, BusyWorker DEF Sound
<1>4. CASE /\ worker' = [worker EXCEPT ![w].at = "failed"] /\ UNCHANGED <<listening, orphans>>
  <2> DEFINE y == [x EXCEPT !.at = "failed"]
  <2>1. y \in WorkerState /\ y.at = "failed" /\ y.job = x.job /\ y.held = x.held /\ y.port = x.port
        /\ worker' = [worker EXCEPT ![w] = y]
    BY <1>2, <1>4 DEF WorkerState, MatrixStages
  <2> HIDE DEF y, x
  <2>2. Sound(y, plan, nextIndex, runs', listening, phase') /\ Busy(y)
    BY <1>1, <1>3, <2>1 DEF Sound, Busy
  <2> QED
    BY <1>1, <1>2, <1>3, <1>4, <2>1, <2>2, WorkerStep DEF x
<1>5. ASSUME listening[port] = 0, listening' = [listening EXCEPT ![port] = x.job],
             NEW y \in WorkerState, worker' = [worker EXCEPT ![w] = y],
             y.job = x.job, y.port = x.port,
             \/ y.at = "run" /\ y.held /\ orphans' = orphans
             \/ y.at = "failed" /\ ~y.held /\ orphans' = orphans \union {x.job}
      PROVE  MatrixInv'
  <2>1. /\ listening' \in [Ports -> Nat] /\ listening'[port] = x.job
        /\ \A p \in Ports : p # port => listening'[p] = listening[p]
    BY <1>2, <1>3, <1>5
  <2> HIDE DEF x, port
  <2>2. Sound(y, plan, nextIndex, runs', listening', phase') /\ Busy(y)
    BY <1>1, <1>3, <1>5, <2>1 DEF Sound, Busy, port
  <2>3. \A p \in Ports : listening'[p] = listening[p] \/ listening[p] = 0
    BY <1>5, <2>1
  <2>4. nextIndex <= nextIndex /\ Mine(worker[w], y.job)
        /\ (\A i \in 1..Len(plan) : i <= nextIndex' => i <= nextIndex \/ Mine(y, i))
    BY <1>1, <1>2, <1>5 DEF Mine, x
  <2>5. /\ MatrixTypes' /\ WorkersInv' /\ DOMAIN worker' = DOMAIN worker
        /\ worker'[w] = y /\ \A v \in DOMAIN worker : v # w => worker'[v] = worker[v]
    BY <1>1, <1>2, <1>5, <2>1, <2>2, <2>3, <2>4, WorkerMoves
  <2>6. \A i : Mine(worker[w], i) => Mine(y, i)
    BY <1>5, <2>2 DEF Mine, x
  <2>7. JobsInv'
    BY <1>1, <1>2, <2>4, <2>5, <2>6, JobsMove
  <2>8. PlanInv'
    BY <1>1, <2>5, PlanStays
  <2>9. PortsInv'
    <3> SUFFICES ASSUME NEW p \in Ports, listening'[p] # 0, listening'[p] \notin orphans'
                 PROVE  \E v \in DOMAIN worker :
                           worker'[v].held /\ worker'[v].port = p /\ worker'[v].job = listening'[p]
      BY <2>5 DEF PortsInv
    <3>1. CASE p = port
      <4>1. y.at = "run" /\ y.held
        BY <1>5, <2>1, <3>1
      <4> QED
        BY <1>5, <2>1, <2>5, <3>1, <4>1 DEF port
    <3>2. CASE p # port
      <4>1. listening'[p] = listening[p] /\ listening[p] \notin orphans
        BY <1>5, <2>1, <3>2
      <4>2. PICK v \in DOMAIN worker : worker[v].held /\ worker[v].port = p /\ worker[v].job = listening[p]
        BY <4>1 DEF MatrixInv, PortsInv
      <4>3. v # w
        BY <1>3, <4>2 DEF x
      <4> QED
        BY <2>5, <4>1, <4>2, <4>3
    <3> QED
      BY <3>1, <3>2
  <2> QED
    BY <2>5, <2>7, <2>8, <2>9 DEF MatrixInv
<1>6. CASE /\ listening[port] = 0 /\ listening' = [listening EXCEPT ![port] = x.job]
           /\ worker' = [worker EXCEPT ![w].at = "run", ![w].held = TRUE] /\ orphans' = orphans
  <2> DEFINE y == [[x EXCEPT !.at = "run"] EXCEPT !.held = TRUE]
  <2>1. y \in WorkerState /\ y.at = "run" /\ y.job = x.job /\ y.held = TRUE /\ y.port = x.port
    BY <1>2 DEF WorkerState, MatrixStages
  <2>2. worker' = [worker EXCEPT ![w] = y]
    BY <1>2, <1>6
  <2> HIDE DEF y
  <2> QED
    BY <1>5, <1>6, <2>1, <2>2
<1>7. CASE /\ listening[port] = 0 /\ listening' = [listening EXCEPT ![port] = x.job]
           /\ orphans' = orphans \union {x.job} /\ worker' = [worker EXCEPT ![w].at = "failed"]
  <2> DEFINE y == [x EXCEPT !.at = "failed"]
  <2>1. y \in WorkerState /\ y.at = "failed" /\ y.job = x.job /\ y.held = x.held /\ y.port = x.port
    BY <1>2 DEF WorkerState, MatrixStages
  <2>2. worker' = [worker EXCEPT ![w] = y]
    BY <1>2, <1>7
  <2> HIDE DEF y
  <2> QED
    BY <1>3, <1>5, <1>7, <2>1, <2>2
<1> QED
  BY <1>4, <1>6, <1>7 DEF StartProxy

\* The command of a job runs, for the first time.
LEMMA RunCommandKeeps == ASSUME MatrixInv, NEW w \in DOMAIN worker, RunCommand(w) PROVE MatrixInv'
<1> DEFINE x == worker[w]
<1>1. /\ x.at = "run" /\ phase \in {"jobs", "rejected"} /\ Busy(x)
      /\ UNCHANGED <<phase, request, plan, nextIndex, results, listening, orphans>>
  BY DEF RunCommand, Running, Busy
<1>2. /\ x \in WorkerState /\ Sound(x, plan, nextIndex, runs, listening, phase)
      /\ worker \in [DOMAIN worker -> WorkerState]
      /\ nextIndex \in Nat /\ Len(plan) \in Nat /\ runs \in [1..Len(plan) -> Nat]
      /\ results \in [1..Len(plan) -> Outcomes(plan)]
  BY WorkerAt
<1>3. x.job \in 1..Len(plan) /\ runs[x.job] = 0
  BY <1>1, <1>2 DEF Sound
<1>4. ASSUME NEW code \in {0, 1}, worker' = [worker EXCEPT ![w].at = "stop", ![w].exit = code],
             runs' = [runs EXCEPT ![x.job] = @ + 1]
      PROVE  MatrixInv'
  <2> DEFINE y == [[x EXCEPT !.at = "stop"] EXCEPT !.exit = code]
  <2>1. y \in WorkerState /\ y.at = "stop" /\ y.job = x.job /\ y.held = x.held /\ y.port = x.port
    BY <1>2 DEF WorkerState, MatrixStages
  <2>2. worker' = [worker EXCEPT ![w] = y]
    BY <1>2, <1>4
  <2> HIDE DEF y, x
  <2>3. runs' \in [1..Len(plan) -> Nat] /\ runs'[x.job] = 1
        /\ \A i \in 1..Len(plan) : i # x.job => runs'[i] = runs[i]
    BY <1>2, <1>3, <1>4
  <2>4. Sound(y, plan, nextIndex, runs', listening, phase') /\ Busy(y)
    BY <1>1, <1>2, <1>3, <2>1, <2>3 DEF Sound, Busy
  <2>5. \A i \in 1..Len(plan) : runs'[i] = runs[i] \/ (Mine(worker[w], i) /\ runs'[i] = 1)
    BY <1>1, <2>3 DEF Mine, x
  <2> QED
    BY <1>1, <1>2, <2>1, <2>2, <2>3, <2>4, <2>5, WorkerStep DEF x
<1>5. CASE worker' = [worker EXCEPT ![w].at = "failed"] /\ runs' = runs
  <2> DEFINE y == [x EXCEPT !.at = "failed"]
  <2>1. y \in WorkerState /\ y.at = "failed" /\ y.job = x.job /\ y.held = x.held /\ y.port = x.port
        /\ worker' = [worker EXCEPT ![w] = y]
    BY <1>2, <1>5 DEF WorkerState, MatrixStages
  <2> HIDE DEF y, x
  <2>2. Sound(y, plan, nextIndex, runs', listening, phase') /\ Busy(y)
    BY <1>1, <1>2, <1>5, <2>1 DEF Sound, Busy
  <2> QED
    BY <1>1, <1>2, <1>5, <2>1, <2>2, WorkerStep DEF x
<1> QED
  BY <1>4, <1>5 DEF RunCommand

\* A worker stops its own proxy.
LEMMA StopProxyKeeps == ASSUME MatrixInv, NEW w \in DOMAIN worker, StopProxy(w) PROVE MatrixInv'
<1> DEFINE x == worker[w]
<1>1. /\ x.at = "stop" /\ phase \in {"jobs", "rejected"} /\ Busy(x) /\ Stopped(w)
      /\ UNCHANGED <<phase, request, plan, nextIndex, results, orphans, runs>>
  BY DEF StopProxy, Running, Busy
<1>2. /\ x \in WorkerState /\ Sound(x, plan, nextIndex, runs, listening, phase)
      /\ worker \in [DOMAIN worker -> WorkerState]
      /\ nextIndex \in Nat /\ Len(plan) \in Nat /\ runs \in [1..Len(plan) -> Nat]
      /\ results \in [1..Len(plan) -> Outcomes(plan)]
  BY WorkerAt
<1>3. /\ x.job \in 1..Len(plan) /\ x.job <= nextIndex /\ runs[x.job] = 1
      /\ x.held => x.port \in Ports
  BY <1>1, <1>2 DEF Sound
<1>4. ASSUME NEW y \in WorkerState, worker' = [worker EXCEPT ![w] = y], y.job = x.job, y.port = x.port,
             \/ y.at = "report" /\ ~y.held
             \/ y.at = "failed" /\ y.held = x.held
      PROVE  MatrixInv'
  <2> HIDE DEF x
  <2>1. Sound(y, plan, nextIndex, runs, listening', phase') /\ Busy(y)
    BY <1>1, <1>3, <1>4 DEF Sound, Busy
  <2> QED
    BY <1>1, <1>2, <1>4, <2>1, WorkerStops DEF x
<1>5. CASE worker' = [worker EXCEPT ![w].held = FALSE, ![w].at = "report"]
  <2> DEFINE y == [[x EXCEPT !.held = FALSE] EXCEPT !.at = "report"]
  <2>1. y \in WorkerState /\ y.at = "report" /\ y.job = x.job /\ y.held = FALSE /\ y.port = x.port
    BY <1>2 DEF WorkerState, MatrixStages
  <2>2. worker' = [worker EXCEPT ![w] = y]
    BY <1>2, <1>5
  <2> HIDE DEF y
  <2> QED
    BY <1>4, <2>1, <2>2
<1>6. CASE worker' = [worker EXCEPT ![w].at = "failed"]
  <2> DEFINE y == [x EXCEPT !.at = "failed"]
  <2>1. y \in WorkerState /\ y.at = "failed" /\ y.job = x.job /\ y.held = x.held /\ y.port = x.port
        /\ worker' = [worker EXCEPT ![w] = y]
    BY <1>2, <1>6 DEF WorkerState, MatrixStages
  <2> HIDE DEF y
  <2> QED
    BY <1>4, <2>1
<1> QED
  BY <1>5, <1>6 DEF StopProxy

\* The result of a job stands in its own place.
LEMMA ReportKeeps == ASSUME MatrixInv, NEW w \in DOMAIN worker, Report(w) PROVE MatrixInv'
<1> DEFINE x == worker[w]
<1>1. /\ x.at = "report" /\ phase \in {"jobs", "rejected"} /\ Busy(x)
      /\ UNCHANGED <<phase, request, plan, nextIndex, listening, orphans, runs>>
  BY DEF Report, Running, Busy
<1>2. /\ x \in WorkerState /\ Sound(x, plan, nextIndex, runs, listening, phase)
      /\ worker \in [DOMAIN worker -> WorkerState]
      /\ nextIndex \in Nat /\ Len(plan) \in Nat /\ runs \in [1..Len(plan) -> Nat]
      /\ results \in [1..Len(plan) -> Outcomes(plan)]
  BY WorkerAt
<1>3. x.job \in 1..Len(plan) /\ runs[x.job] = 1 /\ ~x.held
      /\ \A s : JobResult(w, s) = Outcome(plan, x.job, s)
  BY <1>1, <1>2, BusyWorker DEF Sound
<1>4. CASE /\ results' = [results EXCEPT ![x.job] =
                 JobResult(w, IF x.exit = 0 THEN "completed" ELSE "failed")]
           /\ worker' = [worker EXCEPT ![w].at = "take"]
  <2> DEFINE y == [x EXCEPT !.at = "take"]
             s == IF x.exit = 0 THEN "completed" ELSE "failed"
             r == Outcome(plan, x.job, s)
  <2>1. y \in WorkerState /\ y.at = "take" /\ y.job = x.job /\ y.held = x.held /\ y.port = x.port
        /\ worker' = [worker EXCEPT ![w] = y]
    BY <1>2, <1>4 DEF WorkerState, MatrixStages
  <2>2. s \in {"completed", "failed"}
    OBVIOUS
  <2>3. results' = [results EXCEPT ![x.job] = r]
    <3>1. JobResult(w, s) = r
      BY <1>3
    <3>2. results' = [results EXCEPT ![x.job] = JobResult(w, s)]
      BY <1>4
    <3> HIDE DEF r, s
    <3> QED
      BY <3>1, <3>2
  <2> HIDE DEF y, x, s
  <2>4. r \in Outcomes(plan) /\ r # NoResult
    BY <1>3, <2>2, OutcomesDiffer DEF Outcomes
  <2>5. r = Outcome(plan, x.job, "completed") \/ r = Outcome(plan, x.job, "failed")
    BY <2>2
  <2> HIDE DEF r
  <2>6. results' \in [1..Len(plan) -> Outcomes(plan)] /\ results'[x.job] = r
        /\ \A i \in 1..Len(plan) : i # x.job => results'[i] = results[i]
    BY <1>2, <1>3, <2>3, <2>4
  <2>7. Sound(y, plan, nextIndex, runs', listening, phase')
    BY <1>1, <1>3, <2>1 DEF Sound, Busy
  <2>8. \A i \in 1..Len(plan) : \/ results'[i] = results[i]
                                \/ results'[i] = Outcome(plan, i, "completed") /\ runs'[i] = 1
                                \/ results'[i] = Outcome(plan, i, "failed")
    BY <1>1, <1>3, <2>5, <2>6
  <2>9. results'[y.job] # NoResult
    BY <2>1, <2>4, <2>6
  <2> QED
    BY <1>1, <1>2, <1>3, <2>1, <2>6, <2>7, <2>8, <2>9, WorkerStep DEF x
<1>5. CASE worker' = [worker EXCEPT ![w].at = "failed"] /\ results' = results
  <2> DEFINE y == [x EXCEPT !.at = "failed"]
  <2>1. y \in WorkerState /\ y.at = "failed" /\ y.job = x.job /\ y.held = x.held /\ y.port = x.port
        /\ worker' = [worker EXCEPT ![w] = y]
    BY <1>2, <1>5 DEF WorkerState, MatrixStages
  <2> HIDE DEF y, x
  <2>2. Sound(y, plan, nextIndex, runs', listening, phase') /\ Busy(y)
    BY <1>1, <1>2, <1>5, <2>1 DEF Sound, Busy
  <2> QED
    BY <1>1, <1>2, <1>5, <2>1, <2>2, WorkerStep DEF x
<1> QED
  BY <1>4, <1>5 DEF Report

\* A job that failed has its result, and no proxy, or the run is rejected.
LEMMA ReportFailureKeeps ==
    ASSUME MatrixInv, NEW w \in DOMAIN worker, ReportFailure(w) PROVE MatrixInv'
<1> DEFINE x == worker[w]
<1>1. /\ x.at = "failed" /\ phase \in {"jobs", "rejected"} /\ Busy(x) /\ Stopped(w)
      /\ UNCHANGED <<request, plan, nextIndex, orphans, runs>>
  BY DEF ReportFailure, Running, Busy
<1>2. /\ x \in WorkerState /\ Sound(x, plan, nextIndex, runs, listening, phase)
      /\ worker \in [DOMAIN worker -> WorkerState]
      /\ nextIndex \in Nat /\ Len(plan) \in Nat /\ runs \in [1..Len(plan) -> Nat]
      /\ results \in [1..Len(plan) -> Outcomes(plan)]
  BY WorkerAt
<1>3. x.job \in 1..Len(plan) /\ \A s : JobResult(w, s) = Outcome(plan, x.job, s)
  BY <1>1, <1>2, BusyWorker DEF Sound
<1>4. CASE /\ results' = [results EXCEPT ![x.job] = JobResult(w, "failed")]
           /\ worker' = [worker EXCEPT ![w].at = "take", ![w].held = FALSE] /\ phase' = phase
  <2> DEFINE y == [[x EXCEPT !.at = "take"] EXCEPT !.held = FALSE]
             r == Outcome(plan, x.job, "failed")
  <2>1. y \in WorkerState /\ y.at = "take" /\ y.job = x.job /\ y.held = FALSE
    BY <1>2 DEF WorkerState, MatrixStages
  <2>2. worker' = [worker EXCEPT ![w] = y]
    BY <1>2, <1>4
  <2>3. results' = [results EXCEPT ![x.job] = r]
    <3>1. JobResult(w, "failed") = r
      BY <1>3
    <3> HIDE DEF r
    <3> QED
      BY <1>4, <3>1
  <2> HIDE DEF y, x
  <2>4. r \in Outcomes(plan) /\ r # NoResult
    BY <1>3, OutcomesDiffer DEF Outcomes
  <2> HIDE DEF r
  <2>5. results' \in [1..Len(plan) -> Outcomes(plan)] /\ results'[x.job] = r
        /\ \A i \in 1..Len(plan) : i # x.job => results'[i] = results[i]
    BY <1>2, <1>3, <2>3, <2>4
  <2>6. Sound(y, plan, nextIndex, runs, listening', phase')
    BY <2>1 DEF Sound, Busy
  <2>7. \A i \in 1..Len(plan) : results'[i] = results[i] \/ results'[i] = Outcome(plan, i, "failed")
    BY <2>5 DEF r
  <2>8. results'[y.job] # NoResult
    BY <2>1, <2>4, <2>5
  <2> QED
    BY <1>1, <1>4, <2>1, <2>2, <2>5, <2>6, <2>7, <2>8, WorkerStops DEF x
<1>5. CASE /\ worker' = [worker EXCEPT ![w].at = "done", ![w].held = FALSE] /\ phase' = "rejected"
           /\ results' = results
  <2> DEFINE y == [[x EXCEPT !.at = "done"] EXCEPT !.held = FALSE]
  <2>1. y \in WorkerState /\ y.at = "done" /\ y.job = x.job /\ y.held = FALSE
    BY <1>2 DEF WorkerState, MatrixStages
  <2>2. worker' = [worker EXCEPT ![w] = y]
    BY <1>2, <1>5
  <2> HIDE DEF y, x
  <2>3. Sound(y, plan, nextIndex, runs, listening', phase')
    BY <1>5, <2>1 DEF Sound, Busy
  <2> QED
    BY <1>1, <1>2, <1>5, <2>1, <2>2, <2>3, WorkerStops DEF x
<1> QED
  BY <1>4, <1>5 DEF ReportFailure

\* Only the phase changes.
LEMMA PhaseMoves ==
    ASSUME MatrixInv,
           UNCHANGED <<request, plan, nextIndex, worker, results, listening, orphans, runs>>,
           phase' \in MatrixPhases, phase # "rejected"
    PROVE  MatrixTypes' /\ WorkersInv' /\ PortsInv'
<1>1. MatrixTypes'
  BY DEF MatrixInv, MatrixTypes
<1>2. WorkersInv'
  <2>1. \A w \in DOMAIN worker : Sound(worker[w], plan, nextIndex, runs, listening, phase')
    BY DEF MatrixInv, WorkersInv, Sound
  <2> QED
    BY <2>1 DEF MatrixInv, WorkersInv
<1>3. PortsInv'
  BY DEF MatrixInv, PortsInv
<1> QED
  BY <1>1, <1>2, <1>3

\* The plan is made.
LEMMA CreatePlanKeeps == ASSUME MatrixInv, CreatePlan PROVE MatrixInv'
<1> DEFINE o == Normalized(request)
           n == Len(Product(o))
           k == IF o.concurrency < n THEN o.concurrency ELSE n
<1>1. phase = "plan" /\ UNCHANGED <<request, nextIndex, listening, orphans, mishaps>>
  BY DEF CreatePlan
<1>2. /\ request \in Requests /\ nextIndex = 0 /\ listening \in [Ports -> Nat]
      /\ \A p \in Ports : listening[p] = 0
  BY <1>1 DEF MatrixInv, MatrixTypes, PlanInv
<1>3. request \in MatrixRequest
  BY <1>2, MatrixAssumption
<1>4. n \in Nat /\ o.concurrency \in Int
  <2>1. Normal(o) /\ o.concurrency = request.concurrency
    BY <1>3, NormalizedIs
  <2>2. Product(o) \in Seq(Planned(DOMAIN Adapters))
    BY <2>1, ProductIs
  <2>3. request.concurrency \in Int
    BY <1>3 DEF MatrixRequest
  <2> QED
    BY <2>1, <2>2, <2>3
<1>5. CASE Refused(o)
  <2>1. phase' = "rejected" /\ UNCHANGED <<plan, worker, results, runs>>
    BY <1>5 DEF CreatePlan
  <2>2. MatrixTypes' /\ WorkersInv' /\ PortsInv'
    BY <1>1, <2>1, PhaseMoves DEF MatrixPhases
  <2>3. PlanInv'
    BY <1>1, <2>1 DEF MatrixInv, PlanInv
  <2>4. JobsInv'
    BY <1>1, <2>1 DEF MatrixInv, JobsInv
  <2> QED
    BY <2>2, <2>3, <2>4 DEF MatrixInv
<1>6. CASE ~Refused(o)
  <2>1. /\ plan' = [i \in 1..n |-> BuildJob(o, i)] /\ worker' = [w \in 1..k |-> Idle]
        /\ results' = [i \in 1..n |-> NoResult] /\ runs' = [i \in 1..n |-> 0]
        /\ phase' = "plan.json"
    BY <1>6 DEF CreatePlan
  <2>2. ~(o.concurrency < 1)
    BY <1>6 DEF Refused
  <2> HIDE DEF n
  <2>3. k \in Nat /\ (n > 0 => 1 \in 1..k)
    BY <1>4, <2>2
  <2> HIDE DEF o, k
  <2>4. Len(plan') = n /\ DOMAIN plan' = 1..n /\ \A i \in 1..n : plan'[i] = BuildJob(o, i)
    BY <1>4, <2>1
  <2>5. /\ DOMAIN worker' = 1..k /\ \A w \in 1..k : worker'[w] = Idle
        /\ DOMAIN results' = 1..n /\ \A i \in 1..n : results'[i] = NoResult
        /\ DOMAIN runs' = 1..n /\ \A i \in 1..n : runs'[i] = 0
    BY <2>1
  <2>6. Idle \in WorkerState /\ Idle.at = "take" /\ ~Idle.held /\ ~Busy(Idle)
    BY DEF Idle, WorkerState, MatrixStages, Busy
  <2>7. MatrixTypes'
    <3>1. worker' \in [1..k -> WorkerState]
      BY <2>1, <2>6
    <3>2. results' \in [1..n -> Outcomes(plan')]
      BY <2>1 DEF Outcomes
    <3>3. runs' \in [1..n -> Nat]
      BY <2>1
    <3> QED
      BY <1>1, <1>2, <1>4, <2>1, <2>4, <2>5, <3>1, <3>2, <3>3 DEF MatrixTypes, MatrixPhases
  <2>8. PlanInv'
    BY <1>1, <1>2, <2>1, <2>3, <2>4, <2>5 DEF PlanInv, o, n
  <2>9. WorkersInv'
    <3>1. Sound(Idle, plan', nextIndex', runs', listening', phase')
      BY <2>6 DEF Sound
    <3> QED
      BY <2>5, <2>6, <3>1 DEF WorkersInv
  <2>10. JobsInv'
    <3> SUFFICES ASSUME NEW i \in 1..n
                 PROVE  /\ runs'[i] <= 1 /\ (i > nextIndex' => runs'[i] = 0)
                        /\ results'[i] = NoResult /\ ~(i <= nextIndex')
                        /\ phase' \notin {"completed", "failed"}
      BY <2>4 DEF JobsInv
    <3>1. nextIndex' = 0 /\ runs'[i] = 0 /\ results'[i] = NoResult
      BY <1>1, <1>2, <2>5
    <3> QED
      BY <1>4, <2>1, <3>1
  <2>11. PortsInv'
    BY <1>1, <1>2 DEF PortsInv
  <2> QED
    BY <2>7, <2>8, <2>9, <2>10, <2>11 DEF MatrixInv
<1> QED
  BY <1>5, <1>6

\* The plan is written.
LEMMA WritePlanKeeps == ASSUME MatrixInv, WritePlan PROVE MatrixInv'
<1>1. /\ phase = "plan.json" /\ phase' \in {"jobs", "rejected"}
      /\ UNCHANGED <<request, plan, nextIndex, worker, results, listening, orphans, runs>>
  BY DEF WritePlan
<1>2. MatrixTypes' /\ WorkersInv' /\ PortsInv'
  BY <1>1, PhaseMoves DEF MatrixPhases
<1>3. PlanInv'
  BY <1>1 DEF MatrixInv, PlanInv
<1>4. JobsInv'
  BY <1>1 DEF MatrixInv, JobsInv
<1> QED
  BY <1>2, <1>3, <1>4 DEF MatrixInv

\* When every worker has ended every job has its result, unless one was rejected.
LEMMA SummarizeKeeps == ASSUME MatrixInv, Summarize PROVE MatrixInv'
<1>1. /\ phase = "jobs" /\ \A w \in DOMAIN worker : worker[w].at = "done"
      /\ UNCHANGED <<request, plan, nextIndex, worker, results, listening, orphans, runs>>
  BY DEF Summarize
<1>2. /\ phase' \in {"failed", "completed", "rejected"}
      /\ phase' = "completed" => ~ \E i \in DOMAIN results : results[i].status = "failed"
  BY DEF Summarize
<1>3. MatrixTypes' /\ WorkersInv' /\ PortsInv'
  BY <1>1, <1>2, PhaseMoves DEF MatrixPhases
<1>4. PlanInv'
  BY <1>1, <1>2 DEF MatrixInv, PlanInv
<1>5. ASSUME NEW i \in 1..Len(plan)
      PROVE  /\ results[i] # NoResult
             /\ phase' = "completed" => results[i] # Outcome(plan, i, "failed")
  <2>1. nextIndex \in Nat /\ Len(plan) \in Nat /\ DOMAIN results = 1..Len(plan)
    BY DEF MatrixInv, MatrixTypes
  <2>2. PICK w \in DOMAIN worker : worker[w].at = "done"
    <3>1. Len(plan) > 0
      BY <2>1
    <3> QED
      BY <1>1, <3>1 DEF MatrixInv, PlanInv
  <2>3. nextIndex >= Len(plan)
    BY <1>1, <2>2 DEF MatrixInv, WorkersInv, Sound
  <2>4. i <= nextIndex
    BY <2>1, <2>3
  <2>5. \A v \in DOMAIN worker : ~Busy(worker[v])
    BY <1>1 DEF Busy
  <2>6. results[i] # NoResult
    BY <1>1, <2>4, <2>5 DEF MatrixInv, JobsInv
  <2>7. Outcome(plan, i, "failed").status = "failed"
    BY DEF Outcome
  <2> QED
    BY <1>2, <2>1, <2>6, <2>7
<1>6. JobsInv'
  <2>1. ASSUME NEW i \in 1..Len(plan)
        PROVE  /\ runs[i] <= 1 /\ (i > nextIndex => runs[i] = 0)
               /\ \/ results[i] = NoResult
                  \/ results[i] = Outcome(plan, i, "completed") /\ runs[i] = 1
                  \/ results[i] = Outcome(plan, i, "failed")
    BY DEF MatrixInv, JobsInv
  <2> QED
    BY <1>1, <1>5, <2>1 DEF JobsInv
<1> QED
  BY <1>3, <1>4, <1>6 DEF MatrixInv

\* Every step of a matrix run keeps the invariant.
LEMMA MatrixMoves == MatrixInv /\ [MatrixNext]_matrixVars => MatrixInv'
<1> SUFFICES ASSUME MatrixInv, [MatrixNext]_matrixVars PROVE MatrixInv'
  OBVIOUS
<1>1. CASE CreatePlan
  BY <1>1, CreatePlanKeeps
<1>2. CASE WritePlan
  BY <1>2, WritePlanKeeps
<1>3. CASE Summarize
  BY <1>3, SummarizeKeeps
<1>4. ASSUME NEW w \in DOMAIN worker,
             \/ TakeJob(w) \/ MakeDirs(w) \/ GetFreePort(w) \/ StartProxy(w)
             \/ RunCommand(w) \/ StopProxy(w) \/ Report(w) \/ ReportFailure(w)
      PROVE  MatrixInv'
  BY <1>4, TakeJobKeeps, MakeDirsKeeps, GetFreePortKeeps, StartProxyKeeps, RunCommandKeeps,
     StopProxyKeeps, ReportKeeps, ReportFailureKeeps
<1>5. CASE UNCHANGED matrixVars
  <2>1. /\ MatrixTypes' = MatrixTypes /\ PlanInv' = PlanInv /\ WorkersInv' = WorkersInv
        /\ JobsInv' = JobsInv /\ PortsInv' = PortsInv
    BY <1>5 DEF matrixVars, MatrixTypes, PlanInv, WorkersInv, JobsInv, PortsInv
  <2> QED
    BY <2>1 DEF MatrixInv
<1> QED
  BY <1>1, <1>2, <1>3, <1>4, <1>5 DEF MatrixNext

\* Every job of the request is in the plan, once.
LEMMA PlanCovers ==
    ASSUME MatrixInv, Len(plan) = Len(Product(Normalized(request))),
           NEW c \in Range(Normalized(request).coders), NEW b \in Range(Normalized(request).benchmarks),
           NEW t \in Range(Normalized(request).tasks[b])
    PROVE  Cardinality({i \in DOMAIN plan :
              <<plan[i].coder, plan[i].benchmark, plan[i].task>> = <<c, b, t>>}) = 1
<1> DEFINE o == Normalized(request)
           product == Product(o)
           n == Len(plan)
           job == <<c, b, t>>
<1>1. request \in MatrixRequest /\ n \in Nat /\ DOMAIN plan = 1..n
      /\ \A i \in 1..n : plan[i] = BuildJob(o, i)
  BY MatrixAssumption DEF MatrixInv, MatrixTypes, PlanInv
<1>2. /\ product \in Seq(Planned(DOMAIN Adapters)) /\ Distinct(product) /\ job \in Range(product)
  <2>1. Normal(o)
    BY <1>1, NormalizedIs
  <2> QED
    BY <2>1, ProductIs
<1>3. DOMAIN product = 1..n
  BY <1>2
<1>4. PICK k \in 1..n : product[k] = job
  BY <1>2, <1>3 DEF Range
<1>5. \A i \in 1..n : product[i] = job => i = k
  BY <1>2, <1>3, <1>4 DEF Distinct
<1>6. \A i \in 1..n : <<plan[i].coder, plan[i].benchmark, plan[i].task>> = product[i]
  <2> SUFFICES ASSUME NEW i \in 1..n
               PROVE  <<plan[i].coder, plan[i].benchmark, plan[i].task>> = product[i]
    OBVIOUS
  <2>1. <<plan[i].coder, plan[i].benchmark, plan[i].task>>
          = <<product[i][1], product[i][2], product[i][3]>>
    BY <1>1, JobIs
  <2>2. product[i] \in Planned(DOMAIN Adapters)
    BY <1>2, <1>3
  <2> HIDE DEF product
  <2> QED
    BY <2>1, <2>2 DEF Planned
<1> HIDE DEF product, job, n, o
<1>7. {i \in DOMAIN plan : <<plan[i].coder, plan[i].benchmark, plan[i].task>> = job} = {k}
  BY <1>1, <1>4, <1>5, <1>6
<1> QED
  BY <1>7, FS_Singleton DEF job

\* A summary is written for the jobs of the request, each run once at most and reported
\* in its own place, whatever the adapters, the requests and the number of workers
\* (matrix/run.ts: createMatrixPlan, runJobsWithConcurrency, runMatrix).
THEOREM PlanIsRun == MatrixSpec => []SummaryCoversThePlan
<1>1. MatrixInv => SummaryCoversThePlan
  <2> SUFFICES ASSUME MatrixInv PROVE SummaryCoversThePlan
    OBVIOUS
  <2>1. DOMAIN runs = 1..Len(plan) /\ DOMAIN plan = 1..Len(plan)
    BY DEF MatrixInv, MatrixTypes
  <2>2. \A i \in DOMAIN runs : runs[i] <= 1
    BY <2>1 DEF MatrixInv, JobsInv
  <2>3. ASSUME phase \in {"completed", "failed"}
        PROVE  Len(plan) = Len(Product(Normalized(request)))
    BY <2>3 DEF MatrixInv, PlanInv
  <2>4. ASSUME phase \in {"completed", "failed"}, NEW i \in DOMAIN plan
        PROVE  /\ results[i].status # "none"
               /\ results[i].index = i /\ results[i].task = plan[i].task
               /\ phase = "completed" => runs[i] = 1
    <3>1. /\ \/ results[i] = Outcome(plan, i, "completed") /\ runs[i] = 1
             \/ results[i] = Outcome(plan, i, "failed")
          /\ phase = "completed" => results[i] # Outcome(plan, i, "failed")
      BY <2>1, <2>4 DEF MatrixInv, JobsInv
    <3> QED
      BY <3>1 DEF Outcome
  <2> QED
    BY <2>2, <2>3, <2>4, PlanCovers DEF SummaryCoversThePlan
<1> QED
  BY <1>1, MatrixBegins, MatrixMoves, PTL DEF MatrixSpec

\* A job's command runs behind its own job's proxy, although its port was free for a
\* moment before, and no proxy but one whose handle was lost is left when all workers
\* have ended (matrix/run.ts: runMatrixJob, getFreePort).
THEOREM OwnProxies == MatrixSpec => []ProxiesServeTheirJob
<1>1. MatrixInv => ProxiesServeTheirJob
  <2> SUFFICES ASSUME MatrixInv PROVE ProxiesServeTheirJob
    OBVIOUS
  <2>1. ASSUME NEW w \in DOMAIN worker, worker[w].at = "run"
        PROVE  LET job == plan[worker[w].job]
               IN  IF job.proxy THEN listening[worker[w].port] = job.index /\ "--base-url" \notin job.flags
                   ELSE "--base-url" \in job.flags => request.baseUrl
    <3> DEFINE x == worker[w]
               job == plan[x.job]
    <3>1. /\ x.job \in 1..Len(plan) /\ (job.proxy => x.held)
          /\ x.held => listening[x.port] = x.job
      BY <2>1 DEF MatrixInv, WorkersInv, Sound, Busy
    <3>2. job = BuildJob(Normalized(request), x.job) /\ request \in MatrixRequest
      BY <3>1, MatrixAssumption DEF MatrixInv, PlanInv, MatrixTypes
    <3>3. /\ job.index = x.job /\ job.proxy \in BOOLEAN
          /\ job.proxy => "--base-url" \notin job.flags
          /\ "--base-url" \in job.flags => request.baseUrl
      BY <3>2, JobIs
    <3> HIDE DEF job
    <3>4. IF job.proxy THEN listening[x.port] = job.index /\ "--base-url" \notin job.flags
          ELSE "--base-url" \in job.flags => request.baseUrl
      BY <3>1, <3>3
    <3> QED
      BY <3>4 DEF job
  <2>2. ASSUME \A w \in DOMAIN worker : worker[w].at = "done", NEW p \in Ports
        PROVE  listening[p] = 0 \/ listening[p] \in orphans
    <3>1. \A w \in DOMAIN worker : ~worker[w].held
      BY <2>2 DEF MatrixInv, WorkersInv, Sound
    <3> QED
      BY <3>1 DEF MatrixInv, PortsInv
  <2> QED
    BY <2>1, <2>2 DEF ProxiesServeTheirJob
<1> QED
  BY <1>1, MatrixBegins, MatrixMoves, PTL DEF MatrixSpec

\* A matrix run is true to its request: its jobs run once each, are reported in their
\* own places, and each runs behind its own proxy; for any adapters, requests, ports
\* and number of workers (matrix/run.ts: runMatrix, runMatrixJob).
THEOREM MatrixIsRun == MatrixSpec => []MatrixRunIsTrue
<1>1. SummaryCoversThePlan /\ ProxiesServeTheirJob => MatrixRunIsTrue
  BY DEF MatrixRunIsTrue
<1> QED
  BY <1>1, PlanIsRun, OwnProxies, PTL
===============================================================================
