------------------------------- MODULE Reader -------------------------------
(***************************************************************************)
(* How a document is read (engine/reader): Disk, which follows links,      *)
(* judges a path and then opens it, step by step beside whatever else      *)
(* changes the tree; Memory, which answers as Disk would were its sources  *)
(* files; Layered, which puts one over the other; and ReadSource.          *)
(***************************************************************************)
EXTENDS Naturals, Sequences, FiniteSets, SequencesExt

CONSTANTS Places,          \* the paths there are
          Inside,          \* those below the directory a request is confined to
          ReadChunkBytes,  \* readChunk: the most one read takes
          MinRead,         \* minRead: the least a buffer grows by
          MaxInitial,      \* maxInitial: the largest buffer a read starts with
          MaxLimit,        \* math.MaxInt
          MaxSize          \* the largest file

ASSUME ReaderAssumption ==
    /\ IsFiniteSet(Places) /\ Inside \subseteq Places
    /\ ReadChunkBytes \in Nat \ {0} /\ MinRead \in Nat \ {0}
    /\ MaxInitial \in Nat /\ MaxLimit \in Nat /\ MaxSize \in Nat

VARIABLES tree,  \* what each path names: a file, a FIFO, a link, or nothing
          read   \* the one read under way

Nothing == [kind |-> "none"]
FileOf(n) == [kind |-> "file", size |-> n]
Fifo == [kind |-> "fifo"]
LinkTo(p) == [kind |-> "link", to |-> p]
TreeEntries == {Nothing, Fifo} \cup {FileOf(n) : n \in 0 .. MaxSize} \cup {LinkTo(p) : p \in Places}

----------------------------------------------------------------------------
\* The file system (external): links are followed, as many in a row as there
\* are steps here (the system's own cap is 40); an os.Root follows none out.
Hop(p) == IF tree[p].kind = "link" THEN tree[p].to ELSE p
EndOfLinks(p) == Hop(Hop(Hop(p)))
OSOpen(p) == IF tree[EndOfLinks(p)].kind = "link" THEN Nothing ELSE tree[EndOfLinks(p)]
RootOpen(p) == IF {p, Hop(p), Hop(Hop(p)), EndOfLinks(p)} \subseteq Inside THEN OSOpen(p) ELSE Nothing

----------------------------------------------------------------------------
\* A file URI, taken apart: the path it names opens with a drive letter or two
\* slashes or neither, and holds an escaped separator or none.
FilePathOf(u, windows) ==
    IF \/ u.path = "" \/ u.user \/ u.host \notin {"", "localhost"} \/ u.query
       \/ "%2f" \in u.escapes \/ (windows /\ "%5c" \in u.escapes)
       \/ (windows /\ u.opens = "/c:x")
       \/ u.opens = "//"
    THEN "refused"
    ELSE IF windows /\ u.opens = "/c:/" THEN "c:/" ELSE u.opens

\* locate: the place a request names, or a URL, or a refusal.
Locate(req) ==
    CASE req.form = "empty" -> [error |-> "empty"]
      [] req.form = "path" -> [path |-> req.place]
      [] req.form = "file" -> [path |-> req.place]
      [] req.form = "bad file" -> [error |-> "no local file"]
      [] req.form = "url" /\ req.within -> [error |-> "outside"]
      [] req.form = "url" /\ ~req.within -> [url |-> req.place]
Refused(loc) == "error" \in DOMAIN loc
IsURL(loc) == "url" \in DOMAIN loc

\* relate: whether a path lies inside the directory, dot segments removed.
RelativeTo(p) == p \in Inside

OnePast(limit) == IF limit > 0 /\ limit < MaxLimit THEN limit + 1 ELSE 0

AtMostOf(a, b) == IF a < b THEN a ELSE b
\* initialCap and grown: the buffer's room, never past n bytes.
InitialCap(n, size) ==
    LET want == IF size > 0 THEN AtMostOf(size, MaxInitial) + MinRead ELSE MinRead
    IN  IF n > 0 THEN AtMostOf(want, n) ELSE want
Grown(len, cap, n) ==
    LET more == IF len > MinRead THEN len ELSE MinRead
    IN  IF len < cap THEN cap ELSE len + (IF n > 0 THEN AtMostOf(more, n - len) ELSE more)

----------------------------------------------------------------------------
\* Memory: NewMemory's documents by key, and what a request for one is answered.
MemoryKey(src) == IF src.form \in {"path", "file"} THEN <<"path", src.place>> ELSE <<src.form, src.place>>
NewMemoryRefuses(sources) ==
    \E i, j \in DOMAIN sources : i < j /\ sources[i].form # "empty" /\ MemoryKey(sources[i]) = MemoryKey(sources[j])
NewMemory(sources) ==
    [k \in {MemoryKey(sources[i]) : i \in {j \in DOMAIN sources : sources[j].form # "empty"}} |->
        sources[CHOOSE i \in DOMAIN sources : sources[i].form # "empty" /\ MemoryKey(sources[i]) = k].size]
HoldsKey(docs, req) == req.form \notin {"empty", "bad file"} /\ MemoryKey(req) \in DOMAIN docs
MemoryReadUnconfined(docs, req) ==
    CASE Refused(Locate(req)) -> Locate(req).error
      [] OTHER -> IF ~HoldsKey(docs, req) THEN "missing"
                  ELSE IF req.limit > 0 /\ docs[MemoryKey(req)] > req.limit THEN "too large" ELSE "bytes"
MemoryRead(docs, req) ==
    CASE Refused(Locate(req)) -> Locate(req).error
      [] ~Refused(Locate(req)) /\ ~IsURL(Locate(req)) /\ req.within /\ ~RelativeTo(req.place) -> "outside"
      [] OTHER -> IF ~HoldsKey(docs, req) THEN "missing"
                  ELSE IF req.limit > 0 /\ docs[MemoryKey(req)] > req.limit THEN "too large" ELSE "bytes"

----------------------------------------------------------------------------
\* A read: where it stands, what it opened and how much of that it has.
NotOpened == [kind |-> "none", home |-> "none", size |-> 0]
Idle(req, held) ==
    [pc |-> "asked", req |-> req, held |-> held, place |-> req.place, opened |-> NotOpened, got |-> 0, cap |-> 0,
     answer |-> "none", quiet |-> TRUE, cancelled |-> FALSE]
Answer(a) == read' = [read EXCEPT !.pc = "done", !.answer = a]
Confined == read.req.within /\ read.req.by # "source"

ReaderInit(reqs, helds, trees) ==
    /\ tree \in trees
    /\ read \in {Idle(req, held) : req \in reqs, held \in helds}

\* Disk.ReadDocument and Layered.ReadDocument up to the first file operation; a
\* source is a path and never a URL.
Ask ==
    /\ read.pc = "asked"
    /\ UNCHANGED tree
    /\ LET loc == Locate(read.req)
       IN  CASE read.cancelled -> Answer("cancelled")
             [] ~read.cancelled /\ read.req.by = "layered" /\ HoldsKey(read.held, read.req) ->
                  Answer(MemoryRead(read.held, read.req))
             [] OTHER -> IF read.req.by # "source" /\ Refused(loc) THEN Answer(loc.error)
                         ELSE read' = [read EXCEPT !.pc = IF read.req.by # "source" /\ IsURL(loc) THEN "fetch"
                                                          ELSE IF Confined THEN "resolve" ELSE "stat"]

\* fetch: any status but a success fails; the length is the server's word.
Fetch ==
    /\ read.pc = "fetch"
    /\ UNCHANGED tree
    /\ \/ read.cancelled /\ Answer("cancelled")
       \/ ~read.cancelled /\ Answer("status")
       \/ ~read.cancelled /\ \E n \in 0 .. MaxSize :
            read' = [read EXCEPT !.pc = "read", !.opened = [kind |-> "response", home |-> "out", size |-> n],
                                 !.cap = InitialCap(OnePast(read.req.limit), 0)]

\* resolveWithin: refused as written or where its links lead.
ResolveWithin ==
    /\ read.pc = "resolve"
    /\ UNCHANGED tree
    /\ IF ~RelativeTo(read.place) THEN Answer("outside")
       ELSE IF OSOpen(read.place).kind = "none" THEN read' = [read EXCEPT !.pc = "stat"]
       ELSE IF ~RelativeTo(EndOfLinks(read.place)) THEN Answer("outside")
       ELSE read' = [read EXCEPT !.pc = "stat", !.place = EndOfLinks(read.place)]

\* The open of readRooted, or of osFiles.
OpenedAt == IF Confined THEN RootOpen(read.place) ELSE OSOpen(read.place)

\* openRegular and readRooted judge the path first, a failed Stat being left to
\* the open.
JudgePath ==
    /\ read.pc = "stat"
    /\ UNCHANGED tree
    /\ IF OpenedAt.kind = "fifo" THEN Answer("not regular") ELSE read' = [read EXCEPT !.pc = "open"]

\* The open waits while the path names a FIFO no writer opened; a writer lets it
\* through.
Open ==
    /\ read.pc = "open"
    /\ UNCHANGED tree
    /\ LET found == OpenedAt
           home == IF EndOfLinks(read.place) \in Inside THEN "in" ELSE "out"
       IN  CASE found.kind = "none" -> Answer("missing")
             [] found.kind = "fifo" -> read' = [read EXCEPT !.pc = "judge", !.opened = [kind |-> "fifo", home |-> home, size |-> 0]]
             [] found.kind = "file" -> read' = [read EXCEPT !.pc = "judge", !.opened = [kind |-> "file", home |-> home, size |-> found.size]]

JudgeOpenedSize ==
    /\ read.pc = "judge"
    /\ UNCHANGED tree
    /\ IF read.req.by # "source" /\ read.req.limit > 0 /\ read.opened.size > read.req.limit THEN Answer("too large")
       ELSE read' = [read EXCEPT !.pc = "read", !.cap = InitialCap(OnePast(read.req.limit), read.opened.size)]
\* judgeOpened and readOpened: what was opened is judged again, and its size; a
\* source past its limit is read all the same.
JudgeOpened ==
    /\ read.pc = "judge"
    /\ UNCHANGED tree
    /\ IF read.opened.kind # "file" THEN Answer("not regular")
       ELSE IF read.req.by # "source" /\ read.req.limit > 0 /\ read.opened.size > read.req.limit THEN Answer("too large")
       ELSE read' = [read EXCEPT !.pc = "read", !.cap = InitialCap(OnePast(read.req.limit), read.opened.size)]

\* readLimited refuses what is past the limit; readSource does not.
Finished(len) ==
    IF read.req.by # "source" /\ read.req.limit > 0 /\ len > read.req.limit THEN "too large" ELSE "bytes"

\* readUpTo: the context is asked before each read, which takes a chunk at most,
\* and the end is what a read of nothing tells.
ReadMore ==
    /\ read.pc = "read"
    /\ UNCHANGED tree
    /\ LET n == OnePast(read.req.limit)
           cap == Grown(read.got, read.cap, n)
           room == AtMostOf(cap - read.got, ReadChunkBytes)
           want == IF n > 0 THEN AtMostOf(room, n - read.got) ELSE room
           got == AtMostOf(want, read.opened.size - read.got)
       IN  CASE n > 0 /\ read.got = n -> Answer(Finished(n))
             [] (n = 0 \/ read.got < n) /\ read.cancelled -> Answer("cancelled")
             [] OTHER -> IF read.got = read.opened.size THEN Answer(Finished(read.got))
                         ELSE read' = [read EXCEPT !.got = @ + got, !.cap = cap]

----------------------------------------------------------------------------
\* What happens beside a read (external).
Swap == /\ read.pc # "done"
        /\ \E p \in Places, e \in TreeEntries : tree' = [tree EXCEPT ![p] = e]
        /\ read' = [read EXCEPT !.quiet = FALSE]
Growth == /\ read.pc \in {"judge", "read"} /\ read.opened.kind # "fifo" /\ read.opened.size < MaxSize
          /\ read' = [read EXCEPT !.opened.size = @ + 1, !.quiet = FALSE]
          /\ UNCHANGED tree
Cancel == /\ read.pc # "done" /\ ~read.cancelled
          /\ read' = [read EXCEPT !.cancelled = TRUE, !.quiet = FALSE]
          /\ UNCHANGED tree

ReadStep == Ask \/ Fetch \/ ResolveWithin \/ JudgePath \/ Open \/ JudgeOpened \/ ReadMore
Beside == Swap \/ Growth \/ Cancel

----------------------------------------------------------------------------
\* What a request asks (a source is a path, and confined to nothing), what Memory
\* holds by key, and every read of a tree while anything happens beside it.
ReadRequests == {q \in [by : {"disk", "source", "layered"}, form : {"empty", "path", "file", "bad file", "url"},
                         place : Places, within : BOOLEAN, limit : 0 .. MaxLimit] :
                   q.by = "source" => q.form = "path" /\ ~q.within}
Holdings == UNION {[keys -> 0 .. MaxSize] : keys \in SUBSET ({"path", "url"} \X Places)}
ReaderSpec ==
    /\ ReaderInit(ReadRequests, Holdings, [Places -> TreeEntries])
    /\ [][ReadStep \/ Beside]_<<tree, read>>

\* Where a read may stand, and the tree: files, FIFOs and links.
OpenedOf == [kind : {"none", "file", "fifo", "response"}, home : {"none", "in", "out"}, size : 0 .. MaxSize]
ReadStates == [pc : {"asked", "fetch", "resolve", "stat", "open", "judge", "read", "done"},
               req : ReadRequests, held : Holdings, place : Places, opened : OpenedOf, got : Nat, cap : Nat,
               answer : {"none", "cancelled", "empty", "no local file", "outside", "status", "missing",
                         "not regular", "too large", "bytes"},
               quiet : BOOLEAN, cancelled : BOOLEAN]
ReadTyped == tree \in [Places -> TreeEntries] /\ read \in ReadStates

----------------------------------------------------------------------------
\* Disk.ReadDocument and ReadSource: whatever is swapped in after the path was
\* judged, the bytes handed back are a regular file's (or a response's).
OnlyRegularRead == read.answer = "bytes" /\ read.opened.kind # "none" => read.opened.kind \in {"file", "response"}

\* readWithin: a confined read hands back no byte of a file outside, whichever
\* links are swapped between the check and the open.
ConfinedRead == read.answer = "bytes" /\ read.req.within /\ read.req.by # "source" => read.opened.home # "out"

\* readLimited: what is handed back is whole and within the limit, however the
\* file grew while it was read; a source is cut one byte past it; and a buffer
\* is never given more room than the read may fill, yet always some.
BoundedRead ==
    LET n == OnePast(read.req.limit)
    IN  /\ read.answer = "bytes" /\ read.req.by # "source" /\ read.req.limit > 0 => read.got <= read.req.limit
        /\ read.answer = "bytes" /\ read.opened.kind # "none" =>
             read.got = read.opened.size \/ (read.req.by = "source" /\ n > 0 /\ read.got = n)
        /\ n > 0 => read.cap <= n
        /\ read.got <= read.cap
        /\ read.pc = "read" /\ (n > 0 => read.got < n) => Grown(read.got, read.cap, n) > read.got

\* Memory reads what Disk would read were each source a file at its Path: left
\* alone, both answer a request for a path alike.
MemoryAsDisk ==
    LET plain == \A p \in Places : tree[p].kind \in {"file", "none"}
        files == {[form |-> "path", place |-> p, size |-> tree[p].size] : p \in {q \in Places : tree[q].kind = "file"}}
        docs == NewMemory(SetToSeq(files))
    IN  read.pc = "done" /\ read.quiet /\ read.req.by = "disk" /\ read.req.form # "url" /\ plain =>
          read.answer = MemoryRead(docs, read.req)

\* A read (engine/reader) is of a regular file inside its root, whatever replaces
\* the file between the look and the open, holds no more than its limit, and answers
\* as the reader in memory would.
ReadsBounded == ReadTyped /\ OnlyRegularRead /\ ConfinedRead /\ BoundedRead /\ MemoryAsDisk

\* filePathOf: a file URI names one local file on either platform, or none: no
\* share of another host, no drive's working directory, and no path of which a
\* separator was decoded.
FileURIsLocal(u, windows) ==
    LET p == FilePathOf(u, windows)
    IN  p # "refused" => /\ u.host \in {"", "localhost"} /\ ~u.user /\ "%2f" \notin u.escapes
                         /\ p # "//" /\ (windows => p \notin {"/c:/", "/c:x"} /\ "%5c" \notin u.escapes)
=============================================================================
