---------------------------- MODULE ReaderProofs ----------------------------
(***************************************************************************)
(* Proofs about Reader, for any paths, limits, sizes and trees, and        *)
(* whatever is swapped, grown or cancelled beside a read: the bytes handed *)
(* back are a regular file's, inside the directory of a confined request,  *)
(* whole and within the limit, the buffer always has room and never more   *)
(* than may be filled, and a read left alone answers as Memory does.       *)
(***************************************************************************)
EXTENDS Reader, FiniteSetTheorems, TLAPS

(* The places and the answers of a read.                                   *)
PCs == {"asked", "fetch", "resolve", "stat", "open", "judge", "read", "done"}
Answers == {"none", "cancelled", "empty", "no local file", "outside", "status", "missing",
            "not regular", "too large", "bytes"}
Limited == OnePast(read.req.limit)

(* What a read has before it opened anything, what it judges, and what it  *)
(* reads; only a read that is done has an answer.                          *)
Stage ==
    /\ read.pc \in {"asked", "fetch", "resolve", "stat", "open"} =>
         read.opened.kind = "none" /\ read.got = 0 /\ read.cap = 0
    /\ read.pc = "judge" =>
         read.opened.kind \in {"file", "fifo"} /\ read.got = 0 /\ read.cap = 0
    /\ read.pc = "read" => read.opened.kind \in {"file", "response"}
    /\ read.answer # "none" => read.pc = "done"

(* Nothing is fetched for a confined request, only such a one's links are  *)
(* resolved, and what one opened is inside.                                *)
Homed ==
    /\ read.pc = "fetch" => ~read.req.within
    /\ read.pc = "resolve" => read.req.within
    /\ read.req.within /\ read.opened.kind # "none" => read.opened.home = "in"
    /\ read.opened.kind = "none" => read.opened.home = "none"

(* What was read fits the buffer, the buffer fits the limit, and no more   *)
(* was read than there is.                                                 *)
Fitting ==
    /\ read.got <= read.cap
    /\ Limited > 0 => read.cap <= Limited
    /\ read.got <= read.opened.size

(* What was handed back was opened as a file or a response, and is whole   *)
(* or cut where a source is.                                               *)
Handed ==
    read.answer = "bytes" =>
      /\ read.opened.kind \in {"none", "file", "response"}
      /\ read.req.by # "source" /\ read.req.limit > 0 => read.got <= read.req.limit
      /\ read.opened.kind # "none" =>
           read.got = read.opened.size \/ (read.req.by = "source" /\ Limited > 0 /\ read.got = Limited)

(* A tree of files alone, and what Disk answers a request for a path there.*)
Plain == \A p \in Places : tree[p].kind \in {"file", "none"}
DiskAnswer ==
    IF read.req.form = "empty" THEN "empty"
    ELSE IF read.req.form = "bad file" THEN "no local file"
    ELSE IF read.req.within /\ read.req.place \notin Inside THEN "outside"
    ELSE IF tree[read.req.place].kind # "file" THEN "missing"
    ELSE IF read.req.limit > 0 /\ tree[read.req.place].size > read.req.limit THEN "too large"
    ELSE "bytes"

(* A read of a plain tree that nothing happens beside holds, at each step, *)
(* what the tree holds at the path asked for.                              *)
Alone == read.quiet /\ read.req.by = "disk" /\ read.req.form # "url" /\ Plain
Undisturbed ==
    Alone =>
      /\ ~read.cancelled /\ read.place = read.req.place /\ read.pc # "fetch"
      /\ read.pc \notin {"asked", "done"} => read.req.form \in {"path", "file"}
      /\ read.pc \in {"stat", "open", "judge", "read"} /\ read.req.within => read.place \in Inside
      /\ read.pc \in {"judge", "read"} =>
           /\ read.opened.kind = "file" /\ tree[read.place].kind = "file"
           /\ tree[read.place].size = read.opened.size
      /\ read.pc = "read" /\ read.req.limit > 0 => read.opened.size <= read.req.limit
      /\ read.pc = "done" => read.answer = DiskAnswer

IInv == ReadTyped /\ Stage /\ Homed /\ Fitting /\ Handed /\ Undisturbed

----------------------------------------------------------------------------
(* The parts of a read, of a request, of what was opened and of the tree.  *)

LEMMA Typed ==
  ASSUME ReadTyped
  PROVE  /\ read.pc \in PCs /\ read.req \in ReadRequests /\ read.held \in Holdings
         /\ read.place \in Places /\ read.opened \in OpenedOf /\ read.got \in Nat
         /\ read.cap \in Nat /\ read.answer \in Answers
         /\ read.quiet \in BOOLEAN /\ read.cancelled \in BOOLEAN
         /\ tree \in [Places -> TreeEntries]
  BY Zenon DEF ReadTyped, ReadStates, PCs, Answers

LEMMA RequestTyped ==
  ASSUME NEW q \in ReadRequests
  PROVE  /\ q.by \in {"disk", "source", "layered"}
         /\ q.form \in {"empty", "path", "file", "bad file", "url"}
         /\ q.place \in Places /\ q.within \in BOOLEAN /\ q.limit \in 0 .. MaxLimit
         /\ q.by = "source" => q.form = "path" /\ ~q.within
  BY Zenon DEF ReadRequests

LEMMA OpenedTyped ==
  ASSUME NEW o \in OpenedOf
  PROVE  /\ o.kind \in {"none", "file", "fifo", "response"}
         /\ o.home \in {"none", "in", "out"} /\ o.size \in 0 .. MaxSize
  BY Zenon DEF OpenedOf

LEMMA EntryTyped ==
  ASSUME NEW e \in TreeEntries
  PROVE  /\ e.kind \in {"none", "file", "fifo", "link"}
         /\ e.kind = "file" => e.size \in 0 .. MaxSize
         /\ e.kind = "link" => e.to \in Places
  BY DEF TreeEntries, Nothing, Fifo, FileOf, LinkTo

(* The read after a step.                                                  *)
Becomes(p, place, o, g, c, a, q, x) ==
    [pc |-> p, req |-> read.req, held |-> read.held, place |-> place, opened |-> o,
     got |-> g, cap |-> c, answer |-> a, quiet |-> q, cancelled |-> x]

LEMMA BecomesSets ==
  ASSUME ReadTyped, NEW p \in PCs, NEW place \in Places, NEW o \in OpenedOf,
         NEW g \in Nat, NEW c \in Nat, NEW a \in Answers, NEW q \in BOOLEAN, NEW x \in BOOLEAN,
         read' = Becomes(p, place, o, g, c, a, q, x)
  PROVE  /\ read' \in ReadStates
         /\ read'.pc = p /\ read'.req = read.req /\ read'.held = read.held
         /\ read'.place = place /\ read'.opened = o /\ read'.got = g /\ read'.cap = c
         /\ read'.answer = a /\ read'.quiet = q /\ read'.cancelled = x
  <1>1. read.req \in ReadRequests /\ read.held \in Holdings
    BY Typed
  <1>2. read' \in ReadStates
    BY <1>1, Zenon DEF Becomes, ReadStates, PCs, Answers
  <1> QED
    BY <1>2 DEF Becomes

LEMMA AnswerSets ==
  ASSUME ReadTyped, NEW a \in Answers, Answer(a)
  PROVE  /\ read' \in ReadStates
         /\ read'.pc = "done" /\ read'.answer = a
         /\ read'.req = read.req /\ read'.held = read.held /\ read'.place = read.place
         /\ read'.opened = read.opened /\ read'.got = read.got /\ read'.cap = read.cap
         /\ read'.quiet = read.quiet /\ read'.cancelled = read.cancelled
  <1>1. "done" \in PCs
    BY DEF PCs
  <1>2. read' = Becomes("done", read.place, read.opened, read.got, read.cap, a, read.quiet,
                        read.cancelled)
    BY <1>1, Zenon DEF ReadTyped, ReadStates, Answer, Becomes
  <1> QED
    BY <1>1, <1>2, Typed, BecomesSets

LEMMA MoveSets ==
  ASSUME ReadTyped, NEW p \in PCs, read' = [read EXCEPT !.pc = p]
  PROVE  /\ read' \in ReadStates
         /\ read'.pc = p /\ read'.answer = read.answer
         /\ read'.req = read.req /\ read'.held = read.held /\ read'.place = read.place
         /\ read'.opened = read.opened /\ read'.got = read.got /\ read'.cap = read.cap
         /\ read'.quiet = read.quiet /\ read'.cancelled = read.cancelled
  <1>1. read' = Becomes(p, read.place, read.opened, read.got, read.cap, read.answer, read.quiet,
                        read.cancelled)
    BY Zenon DEF ReadTyped, ReadStates, Becomes
  <1> QED
    BY <1>1, Typed, BecomesSets

----------------------------------------------------------------------------
(* The file system: links lead to paths, and a plain tree has none.        *)

LEMMA HopTyped ==
  ASSUME ReadTyped, NEW p \in Places
  PROVE  Hop(p) \in Places
  BY Typed, EntryTyped DEF Hop

LEMMA EndTyped ==
  ASSUME ReadTyped, NEW p \in Places
  PROVE  EndOfLinks(p) \in Places
  BY HopTyped DEF EndOfLinks

LEMMA OpenTyped ==
  ASSUME ReadTyped, NEW p \in Places
  PROVE  /\ OSOpen(p) \in TreeEntries /\ OSOpen(p).kind \in {"none", "file", "fifo"}
         /\ RootOpen(p) \in TreeEntries /\ RootOpen(p).kind \in {"none", "file", "fifo"}
         /\ RootOpen(p).kind # "none" => EndOfLinks(p) \in Inside
  <1>1. tree[EndOfLinks(p)] \in TreeEntries
    BY EndTyped, Typed
  <1>2. Nothing \in TreeEntries /\ Nothing.kind = "none"
    BY DEF TreeEntries, Nothing
  <1>3. OSOpen(p) \in TreeEntries /\ OSOpen(p).kind \in {"none", "file", "fifo"}
    BY <1>1, <1>2, EntryTyped DEF OSOpen
  <1> QED
    BY <1>2, <1>3 DEF RootOpen

LEMMA PlainOpen ==
  ASSUME ReadTyped, Plain, NEW p \in Places
  PROVE  /\ EndOfLinks(p) = p /\ OSOpen(p) = tree[p]
         /\ p \in Inside => RootOpen(p) = tree[p]
  <1>1. Hop(p) = p
    BY DEF Plain, Hop
  <1>2. EndOfLinks(p) = p
    BY <1>1, Zenon DEF EndOfLinks
  <1>3. tree[p].kind # "link"
    BY DEF Plain
  <1>4. OSOpen(p) = tree[p]
    BY <1>2, <1>3, Zenon DEF OSOpen
  <1>5. p \in Inside => RootOpen(p) = tree[p]
    BY <1>1, <1>2, <1>4 DEF RootOpen
  <1> QED
    BY <1>2, <1>4, <1>5

----------------------------------------------------------------------------
(* Limits and buffers.                                                     *)

LEMMA OnePastTyped ==
  ASSUME NEW limit \in 0 .. MaxLimit
  PROVE  OnePast(limit) \in Nat /\ (OnePast(limit) > 0 => OnePast(limit) = limit + 1 /\ limit > 0)
  BY ReaderAssumption DEF OnePast

LEMMA InitialCapFits ==
  ASSUME NEW n \in Nat, NEW size \in 0 .. MaxSize
  PROVE  InitialCap(n, size) \in Nat /\ (n > 0 => InitialCap(n, size) <= n)
  BY ReaderAssumption DEF InitialCap, AtMostOf

LEMMA GrownFits ==
  ASSUME NEW len \in Nat, NEW cap \in Nat, NEW n \in Nat, len <= cap, n > 0 => cap <= n
  PROVE  /\ Grown(len, cap, n) \in Nat /\ Grown(len, cap, n) >= len
         /\ n > 0 => Grown(len, cap, n) <= n
         /\ (n > 0 => len < n) => Grown(len, cap, n) > len
  BY ReaderAssumption DEF Grown, AtMostOf

----------------------------------------------------------------------------
(* The invariant holds of a read before its first step.                    *)
LEMMA Begins ==
  ASSUME ReaderInit(ReadRequests, Holdings, [Places -> TreeEntries])
  PROVE  IInv
  <1>1. PICK q \in ReadRequests, h \in Holdings : read = Idle(q, h)
    BY DEF ReaderInit
  <1>2. tree \in [Places -> TreeEntries]
    BY DEF ReaderInit
  <1>3. /\ read.pc = "asked" /\ read.req = q /\ read.place = q.place /\ read.opened = NotOpened
        /\ read.got = 0 /\ read.cap = 0 /\ read.answer = "none" /\ read.cancelled = FALSE
    BY <1>1 DEF Idle
  <1>4. q.place \in Places
    BY RequestTyped
  <1>5. NotOpened \in OpenedOf /\ NotOpened.kind = "none" /\ NotOpened.home = "none" /\ NotOpened.size = 0
    BY ReaderAssumption DEF NotOpened, OpenedOf
  <1>6. ReadTyped
    <2>1. read \in ReadStates
      BY <1>1, <1>4, <1>5 DEF Idle, ReadStates
    <2> QED
      BY <1>2, <2>1 DEF ReadTyped
  <1>7. Limited \in Nat
    BY <1>3, RequestTyped, OnePastTyped DEF Limited
  <1>8. Stage /\ Homed /\ Handed
    BY <1>3, <1>5 DEF Stage, Homed, Handed
  <1>9. Fitting
    BY <1>3, <1>5, <1>7 DEF Fitting
  <1>10. Undisturbed
    BY <1>3 DEF Undisturbed
  <1> QED
    BY <1>6, <1>8, <1>9, <1>10 DEF IInv

(* A step that changes no more of the tree leaves what Disk answers.       *)
LEMMA SameTree ==
  ASSUME UNCHANGED tree, read'.req = read.req
  PROVE  /\ Plain' = Plain /\ DiskAnswer' = DiskAnswer /\ Limited' = Limited
         /\ read'.quiet = read.quiet => Alone' = Alone
  <1>1. Plain' = Plain
    BY Zenon DEF Plain
  <1>2. DiskAnswer' = DiskAnswer
    BY Zenon DEF DiskAnswer
  <1>3. Limited' = Limited
    BY Zenon DEF Limited, OnePast
  <1> QED
    BY <1>1, <1>2, <1>3, Zenon DEF Alone

(* An answer keeps the invariant where it is what was read or, to a read   *)
(* left alone, what the tree holds.                                        *)
LEMMA AnswerKeeps ==
  ASSUME IInv, UNCHANGED tree, NEW a \in Answers, a # "none", Answer(a),
         a = "bytes" =>
           /\ read.opened.kind \in {"none", "file", "response"}
           /\ read.req.by # "source" /\ read.req.limit > 0 => read.got <= read.req.limit
           /\ read.opened.kind # "none" =>
                read.got = read.opened.size \/ (read.req.by = "source" /\ Limited > 0 /\ read.got = Limited),
         Alone => a = DiskAnswer
  PROVE  IInv'
  <1> ReadTyped /\ Stage /\ Homed /\ Fitting /\ Handed /\ Undisturbed
    BY DEF IInv
  <1>1. /\ read' \in ReadStates
        /\ read'.pc = "done" /\ read'.answer = a
        /\ read'.req = read.req /\ read'.held = read.held /\ read'.place = read.place
        /\ read'.opened = read.opened /\ read'.got = read.got /\ read'.cap = read.cap
        /\ read'.quiet = read.quiet /\ read'.cancelled = read.cancelled
    BY AnswerSets
  <1>2. ReadTyped'
    BY <1>1 DEF ReadTyped
  <1>3. Plain' = Plain /\ DiskAnswer' = DiskAnswer /\ Limited' = Limited /\ Alone' = Alone
    BY <1>1, SameTree
  <1>4. Stage' /\ Homed'
    BY <1>1 DEF Stage, Homed
  <1>5. Fitting' /\ Handed'
    BY <1>1, <1>3 DEF Fitting, Handed
  <1>6. Undisturbed'
    BY <1>1, <1>3 DEF Undisturbed
  <1> QED
    BY <1>2, <1>4, <1>5, <1>6 DEF IInv

(* So does a step on to the next look at the path.                         *)
LEMMA MoveKeeps ==
  ASSUME IInv, UNCHANGED tree, NEW p \in {"fetch", "resolve", "stat", "open"},
         read.pc \in {"asked", "resolve", "stat"}, read' = [read EXCEPT !.pc = p],
         p = "fetch" => ~read.req.within /\ ~Alone, p = "resolve" => read.req.within,
         Alone => /\ read.req.form \in {"path", "file"}
                  /\ p \in {"stat", "open"} /\ read.req.within => read.place \in Inside
  PROVE  IInv'
  <1> ReadTyped /\ Stage /\ Homed /\ Fitting /\ Handed /\ Undisturbed
    BY DEF IInv
  <1>1. /\ read' \in ReadStates
        /\ read'.pc = p /\ read'.answer = read.answer
        /\ read'.req = read.req /\ read'.held = read.held /\ read'.place = read.place
        /\ read'.opened = read.opened /\ read'.got = read.got /\ read'.cap = read.cap
        /\ read'.quiet = read.quiet /\ read'.cancelled = read.cancelled
    <2>1. p \in PCs
      BY DEF PCs
    <2> QED
      BY <2>1, MoveSets
  <1>2. ReadTyped'
    BY <1>1 DEF ReadTyped
  <1>3. Plain' = Plain /\ DiskAnswer' = DiskAnswer /\ Limited' = Limited /\ Alone' = Alone
    BY <1>1, SameTree
  <1>4. Stage' /\ Homed'
    BY <1>1 DEF Stage, Homed
  <1>5. Fitting' /\ Handed'
    BY <1>1, <1>3 DEF Fitting, Handed
  <1>6. Undisturbed'
    BY <1>1, <1>3 DEF Undisturbed
  <1> QED
    BY <1>2, <1>4, <1>5, <1>6 DEF IInv

----------------------------------------------------------------------------
(* Each step of a read keeps the invariant.                                *)

LEMMA LocateIs ==
  ASSUME NEW q \in ReadRequests
  PROVE  /\ q.form = "empty" => Locate(q) = [error |-> "empty"]
         /\ q.form = "bad file" => Locate(q) = [error |-> "no local file"]
         /\ q.form = "url" /\ q.within => Locate(q) = [error |-> "outside"]
         /\ q.form = "url" /\ ~q.within => Locate(q) = [url |-> q.place]
         /\ q.form \in {"path", "file"} => Locate(q) = [path |-> q.place]
  BY DEF Locate

LEMMA LocateTold ==
  ASSUME NEW q \in ReadRequests
  PROVE  /\ Refused(Locate(q)) <=> q.form \in {"empty", "bad file"} \/ (q.form = "url" /\ q.within)
         /\ IsURL(Locate(q)) <=> q.form = "url" /\ ~q.within
         /\ Refused(Locate(q)) => Locate(q).error \in Answers \ {"none", "bytes"}
         /\ q.form = "empty" => Locate(q).error = "empty"
         /\ q.form = "bad file" => Locate(q).error = "no local file"
  <1>1. /\ "error" \in DOMAIN [error |-> "empty"] /\ "url" \notin DOMAIN [error |-> "empty"]
        /\ "error" \in DOMAIN [error |-> "no local file"]
        /\ "url" \notin DOMAIN [error |-> "no local file"]
        /\ "error" \in DOMAIN [error |-> "outside"] /\ "url" \notin DOMAIN [error |-> "outside"]
        /\ "error" \notin DOMAIN [url |-> q.place] /\ "url" \in DOMAIN [url |-> q.place]
        /\ "error" \notin DOMAIN [path |-> q.place] /\ "url" \notin DOMAIN [path |-> q.place]
    OBVIOUS
  <1>2. /\ q.form = "empty" => Locate(q).error = "empty"
        /\ q.form = "bad file" => Locate(q).error = "no local file"
        /\ q.form = "url" /\ q.within => Locate(q).error = "outside"
    <2>1. /\ [error |-> "empty"].error = "empty" /\ [error |-> "outside"].error = "outside"
          /\ [error |-> "no local file"].error = "no local file"
      OBVIOUS
    <2> QED
      BY <2>1, LocateIs, Zenon
  <1>3. q.form \in {"empty", "bad file"} \/ (q.form = "url" /\ q.within) =>
          Refused(Locate(q)) /\ ~IsURL(Locate(q))
    BY <1>1, LocateIs, Zenon DEF Refused, IsURL
  <1>4. q.form = "url" /\ ~q.within => ~Refused(Locate(q)) /\ IsURL(Locate(q))
    BY <1>1, LocateIs, Zenon DEF Refused, IsURL
  <1>5. q.form \in {"path", "file"} => ~Refused(Locate(q)) /\ ~IsURL(Locate(q))
    BY <1>1, LocateIs, Zenon DEF Refused, IsURL
  <1>6. q.form \in {"empty", "path", "file", "bad file", "url"}
    BY RequestTyped
  <1>7. /\ Refused(Locate(q)) <=> q.form \in {"empty", "bad file"} \/ (q.form = "url" /\ q.within)
        /\ IsURL(Locate(q)) <=> q.form = "url" /\ ~q.within
    BY <1>3, <1>4, <1>5, <1>6
  <1> QED
    BY <1>2, <1>7 DEF Answers

LEMMA MemoryReadTyped ==
  ASSUME NEW docs, NEW q \in ReadRequests
  PROVE  MemoryRead(docs, q) \in Answers \ {"none"}
  <1>1. CASE Refused(Locate(q))
    BY <1>1, LocateTold DEF MemoryRead
  <1>2. CASE ~Refused(Locate(q))
    <2>1. MemoryRead(docs, q) \in {"outside", "missing", "too large", "bytes"}
      BY <1>2, Zenon DEF MemoryRead
    <2> QED
      BY <2>1 DEF Answers
  <1> QED
    BY <1>1, <1>2

LEMMA AskKeeps ==
  ASSUME IInv, Ask
  PROVE  IInv'
  <1> ReadTyped /\ Stage /\ Homed /\ Fitting /\ Handed /\ Undisturbed
    BY DEF IInv
  <1> read.pc = "asked" /\ UNCHANGED tree
    BY DEF Ask
  <1> DEFINE loc == Locate(read.req)
  <1>1. read.req \in ReadRequests /\ read.held \in Holdings
    BY Typed
  <1>2. read.opened.kind = "none" /\ read.got = 0
    BY DEF Stage
  <1>3. CASE Answer("cancelled") /\ read.cancelled
    <2>1. ~Alone
      BY <1>3 DEF Undisturbed
    <2>2. "cancelled" \in Answers
      BY DEF Answers
    <2> QED
      BY <1>3, <2>1, <2>2, AnswerKeeps
  <1>4. CASE Answer(MemoryRead(read.held, read.req)) /\ read.req.by = "layered"
    <2> DEFINE a == MemoryRead(read.held, read.req)
    <2>1. a \in Answers /\ a # "none"
      BY <1>1, MemoryReadTyped
    <2>2. ~Alone
      BY <1>4 DEF Alone
    <2>3. read.req.limit > 0 => read.got <= read.req.limit
      <3>1. read.req.limit \in 0 .. MaxLimit
        BY <1>1, RequestTyped
      <3> QED
        BY <1>2, <3>1, ReaderAssumption
    <2> HIDE DEF a
    <2> QED
      BY <1>2, <1>4, <2>1, <2>2, <2>3, AnswerKeeps DEF a
  <1>5. CASE Answer(loc.error) /\ Refused(loc)
    <2> DEFINE a == loc.error
    <2>1. a \in Answers \ {"none", "bytes"}
      BY <1>1, <1>5, LocateTold
    <2>2. Alone => a = DiskAnswer
      BY <1>1, <1>5, LocateTold DEF Alone, DiskAnswer
    <2> HIDE DEF a
    <2>3. Answer(a)
      BY <1>5 DEF a
    <2> QED
      BY <2>1, <2>2, <2>3, AnswerKeeps
  <1>6. ASSUME NEW p \in {"fetch", "resolve", "stat"}, read' = [read EXCEPT !.pc = p],
               p = "fetch" => IsURL(loc), p = "resolve" <=> Confined /\ p # "fetch",
               read.req.by # "source" => ~Refused(loc)
        PROVE  IInv'
    <2>1. p = "fetch" => ~read.req.within /\ ~Alone
      BY <1>1, <1>6, LocateTold DEF Alone
    <2>2. Alone => read.req.form \in {"path", "file"}
      BY <1>1, <1>6, LocateTold, RequestTyped DEF Alone
    <2>3. (p = "resolve" => read.req.within) /\ (Alone /\ p = "stat" => ~read.req.within)
      BY <1>6 DEF Confined, Alone
    <2> QED
      BY <1>6, <2>1, <2>2, <2>3, MoveKeeps
  <1>7. \/ Answer("cancelled") /\ read.cancelled
        \/ Answer(MemoryRead(read.held, read.req)) /\ read.req.by = "layered"
        \/ Answer(loc.error) /\ Refused(loc)
        \/ /\ ~(read.req.by # "source" /\ Refused(loc))
           /\ read' = [read EXCEPT !.pc = IF read.req.by # "source" /\ IsURL(loc) THEN "fetch"
                                          ELSE IF Confined THEN "resolve" ELSE "stat"]
    BY Zenon DEF Ask
  <1>8. ASSUME ~(read.req.by # "source" /\ Refused(loc)),
               read' = [read EXCEPT !.pc = IF read.req.by # "source" /\ IsURL(loc) THEN "fetch"
                                           ELSE IF Confined THEN "resolve" ELSE "stat"]
        PROVE  IInv'
    <2>1. CASE read.req.by # "source" /\ IsURL(loc)
      <3>1. read' = [read EXCEPT !.pc = "fetch"]
        BY <1>8, <2>1, Zenon
      <3> QED
        BY <1>6, <1>8, <2>1, <3>1
    <2>2. CASE ~(read.req.by # "source" /\ IsURL(loc)) /\ Confined
      <3>1. read' = [read EXCEPT !.pc = "resolve"]
        BY <1>8, <2>2, Zenon
      <3> QED
        BY <1>6, <1>8, <2>2, <3>1
    <2>3. CASE ~(read.req.by # "source" /\ IsURL(loc)) /\ ~Confined
      <3>1. read' = [read EXCEPT !.pc = "stat"]
        BY <1>8, <2>3, Zenon
      <3> QED
        BY <1>6, <1>8, <2>3, <3>1
    <2> QED
      BY <2>1, <2>2, <2>3
  <1> QED
    BY <1>3, <1>4, <1>5, <1>7, <1>8, Zenon

LEMMA FetchKeeps ==
  ASSUME IInv, Fetch
  PROVE  IInv'
  <1> ReadTyped /\ Stage /\ Homed /\ Fitting /\ Handed /\ Undisturbed
    BY DEF IInv
  <1> read.pc = "fetch" /\ UNCHANGED tree
    BY DEF Fetch
  <1>1. read.req \in ReadRequests /\ ~Alone /\ ~read.req.within /\ read.got = 0
        /\ read.answer = "none"
    BY Typed DEF Undisturbed, Homed, Stage
  <1>2. "cancelled" \in Answers /\ "status" \in Answers /\ "read" \in PCs
    BY DEF Answers, PCs
  <1>3. CASE Answer("cancelled") \/ Answer("status")
    BY <1>1, <1>2, <1>3, AnswerKeeps
  <1>4. ASSUME NEW n \in 0 .. MaxSize,
               read' = [read EXCEPT !.pc = "read", !.opened = [kind |-> "response", home |-> "out", size |-> n],
                                    !.cap = InitialCap(OnePast(read.req.limit), 0)]
        PROVE  IInv'
    <2> DEFINE o == [kind |-> "response", home |-> "out", size |-> n]
               c == InitialCap(OnePast(read.req.limit), 0)
    <2>1. o \in OpenedOf
      BY DEF OpenedOf
    <2>2. c \in Nat /\ (Limited > 0 => c <= Limited)
      <3>1. read.req.limit \in 0 .. MaxLimit
        BY <1>1, RequestTyped, Zenon
      <3>2. 0 \in 0 .. MaxSize
        BY ReaderAssumption
      <3>3. OnePast(read.req.limit) \in Nat
        BY <3>1, OnePastTyped
      <3> QED
        BY <3>2, <3>3, InitialCapFits DEF Limited
    <2>3. o.kind = "response" /\ o.size = n
      OBVIOUS
    <2>4. read' = Becomes("read", read.place, o, read.got, c, read.answer, read.quiet, read.cancelled)
      BY <1>2, <1>4, <2>1, <2>2, Zenon DEF ReadTyped, ReadStates, Becomes
    <2> HIDE DEF o, c
    <2>5. /\ read' \in ReadStates
          /\ read'.pc = "read" /\ read'.req = read.req /\ read'.opened = o /\ read'.got = read.got
          /\ read'.cap = c /\ read'.answer = read.answer /\ read'.quiet = read.quiet
      BY <1>2, <2>1, <2>2, <2>4, Typed, BecomesSets
    <2>6. Limited' = Limited /\ Alone' = Alone
      BY <2>5, SameTree
    <2>7. ReadTyped'
      BY <2>5 DEF ReadTyped
    <2>8. Stage' /\ Homed' /\ Handed' /\ Undisturbed'
      BY <1>1, <2>3, <2>5, <2>6 DEF Stage, Homed, Handed, Undisturbed
    <2>9. Fitting'
      BY <1>1, <2>2, <2>3, <2>5, <2>6 DEF Fitting
    <2> QED
      BY <2>7, <2>8, <2>9 DEF IInv
  <1> QED
    BY <1>3, <1>4, Zenon DEF Fetch

LEMMA ResolveKeeps ==
  ASSUME IInv, ResolveWithin
  PROVE  IInv'
  <1> ReadTyped /\ Stage /\ Homed /\ Fitting /\ Handed /\ Undisturbed
    BY DEF IInv
  <1> read.pc = "resolve" /\ UNCHANGED tree
    BY DEF ResolveWithin
  <1>1. read.place \in Places /\ read.req \in ReadRequests /\ EndOfLinks(read.place) \in Places
    BY Typed, EndTyped
  <1>2. "outside" \in Answers /\ "stat" \in PCs
    BY DEF Answers, PCs
  <1>3. Alone => /\ read.req.form \in {"path", "file"} /\ read.place = read.req.place
                 /\ EndOfLinks(read.place) = read.place
    BY <1>1, PlainOpen DEF Undisturbed, Alone
  <1>4. read.req.within
    BY DEF Homed
  <1>5. CASE Answer("outside")
             /\ (~RelativeTo(read.place) \/ ~RelativeTo(EndOfLinks(read.place)))
    <2>1. Alone => "outside" = DiskAnswer
      BY <1>3, <1>4, <1>5 DEF DiskAnswer, RelativeTo
    <2> QED
      BY <1>2, <1>5, <2>1, AnswerKeeps
  <1>6. CASE read' = [read EXCEPT !.pc = "stat"] /\ RelativeTo(read.place)
    <2>1. read.place \in Inside
      BY <1>6 DEF RelativeTo
    <2> QED
      BY <1>3, <1>6, <2>1, MoveKeeps
  <1>7. CASE /\ read' = [read EXCEPT !.pc = "stat", !.place = EndOfLinks(read.place)]
             /\ RelativeTo(EndOfLinks(read.place))
    <2>1. read' = Becomes("stat", EndOfLinks(read.place), read.opened, read.got, read.cap, read.answer,
                          read.quiet, read.cancelled)
      BY <1>1, <1>2, <1>7, Zenon DEF ReadTyped, ReadStates, Becomes
    <2>2. /\ read' \in ReadStates
          /\ read'.pc = "stat" /\ read'.req = read.req /\ read'.place = EndOfLinks(read.place)
          /\ read'.opened = read.opened /\ read'.got = read.got /\ read'.cap = read.cap
          /\ read'.answer = read.answer /\ read'.quiet = read.quiet /\ read'.cancelled = read.cancelled
      BY <1>1, <1>2, <2>1, Typed, BecomesSets
    <2>3. Limited' = Limited /\ Alone' = Alone
      BY <2>2, SameTree
    <2>4. ReadTyped'
      BY <2>2 DEF ReadTyped
    <2>5. Stage' /\ Homed' /\ Fitting' /\ Handed'
      BY <2>2, <2>3 DEF Stage, Homed, Fitting, Handed
    <2>6. EndOfLinks(read.place) \in Inside
      BY <1>7 DEF RelativeTo
    <2>7. Undisturbed'
      BY <1>3, <2>2, <2>3, <2>6 DEF Undisturbed
    <2> QED
      BY <2>4, <2>5, <2>7 DEF IInv
  <1> QED
    BY <1>5, <1>6, <1>7, Zenon DEF ResolveWithin

(* What an open finds is a file, a FIFO or nothing; inside for a confined  *)
(* request; and what a plain tree holds.                                   *)
LEMMA OpenedAtIs ==
  ASSUME IInv
  PROVE  /\ OpenedAt \in TreeEntries /\ OpenedAt.kind \in {"none", "file", "fifo"}
         /\ read.req.within /\ OpenedAt.kind # "none" => EndOfLinks(read.place) \in Inside
         /\ Alone /\ read.pc \in {"stat", "open"} => OpenedAt = tree[read.req.place]
  <1> ReadTyped /\ Undisturbed
    BY DEF IInv
  <1>1. read.place \in Places /\ read.req \in ReadRequests
    BY Typed
  <1>2. Confined <=> read.req.within
    BY <1>1, RequestTyped DEF Confined
  <1>3. OpenedAt \in TreeEntries /\ OpenedAt.kind \in {"none", "file", "fifo"}
    BY <1>1, OpenTyped, Zenon DEF OpenedAt
  <1>4. read.req.within /\ OpenedAt.kind # "none" => EndOfLinks(read.place) \in Inside
    BY <1>1, <1>2, OpenTyped, Zenon DEF OpenedAt
  <1>5. ASSUME Alone, read.pc \in {"stat", "open"}
        PROVE  OpenedAt = tree[read.req.place]
    <2>1. read.place = read.req.place /\ (read.req.within => read.place \in Inside)
      BY <1>5 DEF Undisturbed
    <2>2. OSOpen(read.place) = tree[read.place]
          /\ (read.place \in Inside => RootOpen(read.place) = tree[read.place])
      BY <1>1, <1>5, PlainOpen DEF Alone
    <2> QED
      BY <1>2, <2>1, <2>2, Zenon DEF OpenedAt
  <1> QED
    BY <1>3, <1>4, <1>5

LEMMA JudgePathKeeps ==
  ASSUME IInv, JudgePath
  PROVE  IInv'
  <1> ReadTyped /\ Stage /\ Homed /\ Fitting /\ Handed /\ Undisturbed
    BY DEF IInv
  <1> read.pc = "stat" /\ UNCHANGED tree
    BY DEF JudgePath
  <1>1. "not regular" \in Answers /\ read.req \in ReadRequests
    BY Typed DEF Answers
  <1>2. CASE Answer("not regular") /\ OpenedAt.kind = "fifo"
    <2>1. ~Alone
      <3>1. Plain => tree[read.req.place].kind # "fifo"
        BY <1>1, RequestTyped DEF Plain
      <3> QED
        BY <1>2, <3>1, OpenedAtIs DEF Alone
    <2> QED
      BY <1>1, <1>2, <2>1, AnswerKeeps
  <1>3. CASE read' = [read EXCEPT !.pc = "open"]
    <2>1. Alone => /\ read.req.form \in {"path", "file"}
                   /\ read.req.within => read.place \in Inside
      BY DEF Undisturbed
    <2> QED
      BY <1>3, <2>1, MoveKeeps
  <1> QED
    BY <1>2, <1>3, Zenon DEF JudgePath

LEMMA OpenKeeps ==
  ASSUME IInv, Open
  PROVE  IInv'
  <1> ReadTyped /\ Stage /\ Homed /\ Fitting /\ Handed /\ Undisturbed
    BY DEF IInv
  <1> read.pc = "open" /\ UNCHANGED tree
    BY DEF Open
  <1>1. "missing" \in Answers /\ "judge" \in PCs /\ read.req \in ReadRequests
    BY Typed DEF Answers, PCs
  <1>2. read.got = 0 /\ read.cap = 0 /\ read.answer = "none"
    BY DEF Stage
  <1>3. Alone => /\ read.req.form \in {"path", "file"} /\ read.place = read.req.place
                 /\ read.req.within => read.place \in Inside
    BY DEF Undisturbed
  <1>4. CASE Answer("missing") /\ OpenedAt.kind = "none"
    <2>1. Alone => "missing" = DiskAnswer
      BY <1>3, <1>4, OpenedAtIs DEF DiskAnswer
    <2> QED
      BY <1>1, <1>4, <2>1, AnswerKeeps
  <1> DEFINE home == IF EndOfLinks(read.place) \in Inside THEN "in" ELSE "out"
  <1>5. home \in {"in", "out"} /\ (read.req.within /\ OpenedAt.kind # "none" => home = "in")
    BY OpenedAtIs
  <1> HIDE DEF home
  <1>6. ASSUME NEW k \in {"file", "fifo"}, NEW n \in 0 .. MaxSize, OpenedAt.kind = k,
               k = "file" => n = OpenedAt.size,
               read' = [read EXCEPT !.pc = "judge", !.opened = [kind |-> k, home |-> home, size |-> n]]
        PROVE  IInv'
    <2> DEFINE o == [kind |-> k, home |-> home, size |-> n]
    <2>1. o \in OpenedOf
      BY <1>5 DEF OpenedOf
    <2>2. o.kind = k /\ o.home = home /\ o.size = n
      OBVIOUS
    <2>3. read' = Becomes("judge", read.place, o, read.got, read.cap, read.answer, read.quiet,
                          read.cancelled)
      BY <1>1, <1>6, <2>1, Zenon DEF ReadTyped, ReadStates, Becomes
    <2> HIDE DEF o
    <2>4. /\ read' \in ReadStates
          /\ read'.pc = "judge" /\ read'.req = read.req /\ read'.place = read.place
          /\ read'.opened = o /\ read'.got = read.got /\ read'.cap = read.cap
          /\ read'.answer = read.answer /\ read'.quiet = read.quiet
          /\ read'.cancelled = read.cancelled
      BY <1>1, <2>1, <2>3, Typed, BecomesSets
    <2>5. Limited' = Limited /\ Alone' = Alone
      BY <2>4, SameTree
    <2>6. ReadTyped'
      BY <2>4 DEF ReadTyped
    <2>7. Stage' /\ Homed' /\ Handed'
      BY <1>2, <1>5, <1>6, <2>2, <2>4 DEF Stage, Homed, Handed
    <2>8. Fitting'
      BY <1>2, <2>2, <2>4, <2>5 DEF Fitting
    <2>9. Alone => k = "file" /\ tree[read.place].kind = "file" /\ tree[read.place].size = n
      <3>1. Plain => tree[read.req.place].kind \in {"file", "none"}
        BY <1>1, RequestTyped DEF Plain
      <3> QED
        BY <1>3, <1>6, <3>1, OpenedAtIs DEF Alone
    <2>10. Undisturbed'
      BY <1>3, <2>2, <2>4, <2>5, <2>9 DEF Undisturbed
    <2> QED
      BY <2>6, <2>7, <2>8, <2>10 DEF IInv
  <1>7. CASE /\ OpenedAt.kind = "fifo"
             /\ read' = [read EXCEPT !.pc = "judge", !.opened = [kind |-> "fifo", home |-> home, size |-> 0]]
    <2>1. 0 \in 0 .. MaxSize
      BY ReaderAssumption
    <2> QED
      BY <1>6, <1>7, <2>1
  <1>8. CASE /\ OpenedAt.kind = "file"
             /\ read' = [read EXCEPT !.pc = "judge",
                                     !.opened = [kind |-> "file", home |-> home, size |-> OpenedAt.size]]
    <2>1. OpenedAt.size \in 0 .. MaxSize
      BY <1>8, OpenedAtIs, EntryTyped
    <2> QED
      BY <1>6, <1>8, <2>1
  <1>9. OpenedAt.kind \in {"none", "file", "fifo"}
    BY OpenedAtIs
  <1> QED
    BY <1>4, <1>7, <1>8, <1>9, Zenon DEF Open, home

LEMMA JudgeOpenedKeeps ==
  ASSUME IInv, JudgeOpened
  PROVE  IInv'
  <1> ReadTyped /\ Stage /\ Homed /\ Fitting /\ Handed /\ Undisturbed
    BY DEF IInv
  <1> read.pc = "judge" /\ UNCHANGED tree
    BY DEF JudgeOpened
  <1>1. /\ "not regular" \in Answers /\ "too large" \in Answers /\ "read" \in PCs
        /\ read.req \in ReadRequests /\ read.opened \in OpenedOf
    BY Typed DEF Answers, PCs
  <1>2. read.got = 0 /\ read.answer = "none"
    BY DEF Stage
  <1>3. Alone => /\ read.req.form \in {"path", "file"} /\ read.place = read.req.place
                 /\ read.req.within => read.place \in Inside
                 /\ read.opened.kind = "file" /\ tree[read.place].kind = "file"
                 /\ tree[read.place].size = read.opened.size
    BY DEF Undisturbed
  <1>4. CASE Answer("not regular") /\ read.opened.kind # "file"
    BY <1>1, <1>3, <1>4, AnswerKeeps
  <1>5. CASE Answer("too large") /\ read.req.limit > 0 /\ read.opened.size > read.req.limit
    <2>1. Alone => "too large" = DiskAnswer
      BY <1>3, <1>5 DEF DiskAnswer
    <2> QED
      BY <1>1, <1>5, <2>1, AnswerKeeps
  <1>6. CASE /\ read.opened.kind = "file"
             /\ ~(read.req.by # "source" /\ read.req.limit > 0 /\ read.opened.size > read.req.limit)
             /\ read' = [read EXCEPT !.pc = "read", !.cap = InitialCap(OnePast(read.req.limit), read.opened.size)]
    <2> DEFINE c == InitialCap(OnePast(read.req.limit), read.opened.size)
    <2>1. read.req.limit \in 0 .. MaxLimit
      BY <1>1, RequestTyped, Zenon
    <2>2. read.opened.size \in 0 .. MaxSize
      BY <1>1, OpenedTyped, Zenon
    <2>3. c \in Nat /\ (Limited > 0 => c <= Limited)
      <3>1. OnePast(read.req.limit) \in Nat
        BY <2>1, OnePastTyped
      <3> QED
        BY <2>2, <3>1, InitialCapFits DEF Limited
    <2>4. read' = Becomes("read", read.place, read.opened, read.got, c, read.answer, read.quiet,
                          read.cancelled)
      BY <1>1, <1>6, <2>3, Zenon DEF ReadTyped, ReadStates, Becomes
    <2> HIDE DEF c
    <2>5. /\ read' \in ReadStates
          /\ read'.pc = "read" /\ read'.req = read.req /\ read'.place = read.place
          /\ read'.opened = read.opened /\ read'.got = read.got /\ read'.cap = c
          /\ read'.answer = read.answer /\ read'.quiet = read.quiet
          /\ read'.cancelled = read.cancelled
      <3>1. read' \in ReadStates
        BY <1>1, <2>3, <2>4, Typed, Zenon DEF Becomes, ReadStates, PCs, Answers
      <3> QED
        BY <2>4, <3>1 DEF Becomes
    <2>6. Limited' = Limited /\ Alone' = Alone
      BY <2>5, SameTree
    <2>7. ReadTyped'
      BY <2>5 DEF ReadTyped
    <2>8. Stage' /\ Homed' /\ Handed'
      BY <1>2, <1>6, <2>5 DEF Stage, Homed, Handed
    <2>9. Fitting'
      BY <1>2, <2>2, <2>3, <2>5, <2>6 DEF Fitting
    <2>10. Alone /\ read.req.limit > 0 => read.opened.size <= read.req.limit
      BY <1>6, <2>1, <2>2, ReaderAssumption DEF Alone
    <2>11. Undisturbed'
      BY <1>3, <2>5, <2>6, <2>10 DEF Undisturbed
    <2> QED
      BY <2>7, <2>8, <2>9, <2>11 DEF IInv
  <1> QED
    BY <1>4, <1>5, <1>6, Zenon DEF JudgeOpened

(* One read of a chunk stays within the buffer and the file.               *)
Chunk(got, cap, n, size) ==
    LET room == AtMostOf(cap - got, ReadChunkBytes)
        want == IF n > 0 THEN AtMostOf(room, n - got) ELSE room
    IN  AtMostOf(want, size - got)

LEMMA ChunkFits ==
  ASSUME NEW got \in Nat, NEW cap \in Nat, NEW n \in Nat, NEW size \in Nat,
         got < cap, n > 0 => cap <= n, got <= size
  PROVE  /\ got + Chunk(got, cap, n, size) \in Nat
         /\ got + Chunk(got, cap, n, size) <= cap
         /\ got + Chunk(got, cap, n, size) <= size
  BY ReaderAssumption DEF Chunk, AtMostOf

LEMMA AtMostTransitive ==
  ASSUME NEW a \in Nat, NEW b \in Nat, NEW c \in Nat, a <= b, b <= c
  PROVE  a <= c
  OBVIOUS

LEMMA ReadMoreKeeps ==
  ASSUME IInv, ReadMore
  PROVE  IInv'
  <1> ReadTyped /\ Stage /\ Homed /\ Fitting /\ Handed /\ Undisturbed
    BY DEF IInv
  <1> read.pc = "read" /\ UNCHANGED tree
    BY DEF ReadMore
  <1> DEFINE n == OnePast(read.req.limit)
             cap == Grown(read.got, read.cap, n)
             room == AtMostOf(cap - read.got, ReadChunkBytes)
             want == IF n > 0 THEN AtMostOf(room, n - read.got) ELSE room
             more == AtMostOf(want, read.opened.size - read.got)
  <1>1. /\ "too large" \in Answers /\ "bytes" \in Answers /\ "cancelled" \in Answers
        /\ read.req \in ReadRequests /\ read.opened \in OpenedOf
        /\ read.got \in Nat /\ read.cap \in Nat
    BY Typed DEF Answers
  <1>2. read.answer = "none" /\ read.opened.kind \in {"file", "response"}
    BY DEF Stage
  <1>3. read.req.limit \in 0 .. MaxLimit
    BY <1>1, RequestTyped, Zenon
  <1>4. read.opened.size \in 0 .. MaxSize
    BY <1>1, OpenedTyped, Zenon
  <1>5. n \in Nat /\ (n > 0 => n = read.req.limit + 1 /\ read.req.limit > 0) /\ n = Limited
    BY <1>3, OnePastTyped DEF Limited
  <1>6. /\ read.got <= read.cap /\ (n > 0 => read.cap <= n) /\ read.got <= read.opened.size
        /\ (n > 0 => read.got <= n)
    <2>1. read.got <= read.cap /\ (n > 0 => read.cap <= n) /\ read.got <= read.opened.size
      BY <1>5 DEF Fitting
    <2>2. read.got \in Nat /\ read.cap \in Nat
      BY Typed
    <2> QED
      BY <1>5, <2>1, <2>2, AtMostTransitive
  <1>7. Alone => /\ read.req.form \in {"path", "file"} /\ read.place = read.req.place
                 /\ read.req.within => read.place \in Inside
                 /\ tree[read.place].kind = "file" /\ tree[read.place].size = read.opened.size
                 /\ read.req.limit > 0 => read.opened.size <= read.req.limit
                 /\ ~read.cancelled
    BY DEF Undisturbed
  <1> HIDE DEF n
  (* The end of the file, or of what may be read.                          *)
  <1>8. ASSUME NEW len \in Nat, len = read.got, len = read.opened.size \/ (n > 0 /\ len = n),
               Answer(Finished(len))
        PROVE  IInv'
    <2> DEFINE a == Finished(len)
    <2>1. a = IF read.req.by # "source" /\ read.req.limit > 0 /\ len > read.req.limit
              THEN "too large" ELSE "bytes"
      BY DEF Finished
    <2> HIDE DEF a
    <2>2. a \in Answers /\ a # "none" /\ Answer(a)
      BY <1>1, <1>8, <2>1 DEF a
    <2>3. a = "bytes" =>
            /\ read.req.by # "source" /\ read.req.limit > 0 => read.got <= read.req.limit
            /\ read.got = read.opened.size
                 \/ (read.req.by = "source" /\ Limited > 0 /\ read.got = Limited)
      <3>1. n > 0 /\ len = n => read.req.limit > 0 /\ len > read.req.limit
        BY <1>3, <1>5, ReaderAssumption
      <3>2. len > read.req.limit \/ len <= read.req.limit
        BY <1>3, <1>8, ReaderAssumption
      <3> QED
        BY <1>5, <1>8, <2>1, <3>1, <3>2
    <2>4. Alone => a = DiskAnswer
      <3> SUFFICES ASSUME Alone PROVE a = DiskAnswer
        OBVIOUS
      <3>1. read.req.limit > 0 => read.opened.size <= read.req.limit
        BY <1>7
      <3>2. ~(n > 0 /\ len = n)
        BY <1>3, <1>4, <1>5, <1>6, <1>8, <3>1, ReaderAssumption
      <3>3. read.req.limit > 0 => ~(len > read.req.limit)
        BY <1>3, <1>4, <1>8, <3>1, <3>2, ReaderAssumption
      <3>4. a = "bytes"
        BY <2>1, <3>3
      <3>5. ~(read.req.limit > 0 /\ tree[read.req.place].size > read.req.limit)
        BY <1>3, <1>4, <1>7, <3>1, ReaderAssumption
      <3>6. DiskAnswer = "bytes"
        BY <1>7, <3>5 DEF DiskAnswer
      <3> QED
        BY <3>4, <3>6
    <2> QED
      BY <1>2, <2>2, <2>3, <2>4, AnswerKeeps
  <1>9. CASE read.cancelled /\ Answer("cancelled")
    BY <1>1, <1>7, <1>9, AnswerKeeps
  <1>10. ASSUME n > 0 => read.got < n, read.got # read.opened.size,
                read' = [read EXCEPT !.got = @ + more, !.cap = cap]
         PROVE  IInv'
    <2>1. cap \in Nat /\ cap > read.got /\ (n > 0 => cap <= n)
      BY <1>1, <1>5, <1>6, <1>10, GrownFits
    <2> HIDE DEF cap
    <2> DEFINE g == read.got + more
    <2>2. g \in Nat /\ g <= cap /\ g <= read.opened.size
      <3>1. read.opened.size \in Nat /\ read.got <= read.opened.size
        BY <1>4, <1>6, ReaderAssumption
      <3>2. more = Chunk(read.got, cap, n, read.opened.size)
        BY Zenon DEF Chunk
      <3> HIDE DEF more
      <3> QED
        BY <1>1, <1>5, <2>1, <3>1, <3>2, ChunkFits
    <2>3. g \in Nat
      BY <2>2
    <2> HIDE DEF more
    <2>4. read' = Becomes(read.pc, read.place, read.opened, g, cap, read.answer, read.quiet,
                          read.cancelled)
      BY <1>10, <2>1, <2>3, Zenon DEF ReadTyped, ReadStates, Becomes
    <2> HIDE DEF g
    <2>5. /\ read' \in ReadStates
          /\ read'.pc = read.pc /\ read'.req = read.req /\ read'.place = read.place
          /\ read'.opened = read.opened /\ read'.got = g /\ read'.cap = cap
          /\ read'.answer = read.answer /\ read'.quiet = read.quiet
          /\ read'.cancelled = read.cancelled
      <3>1. read' \in ReadStates
        BY <2>1, <2>3, <2>4, Typed, Zenon DEF Becomes, ReadStates, PCs, Answers
      <3> QED
        BY <2>4, <3>1 DEF Becomes
    <2>6. Limited' = Limited /\ Alone' = Alone
      BY <2>5, SameTree
    <2>7. ReadTyped'
      BY <2>5 DEF ReadTyped
    <2>8. Stage' /\ Homed' /\ Handed'
      BY <1>2, <2>5 DEF Stage, Homed, Handed
    <2>9. Fitting'
      <3>1. g <= cap /\ g <= read.opened.size
        BY <2>2
      <3> QED
        BY <1>5, <2>1, <2>5, <2>6, <3>1 DEF Fitting
    <2>10. Undisturbed'
      BY <2>5, <2>6 DEF Undisturbed
    <2> QED
      BY <2>7, <2>8, <2>9, <2>10 DEF IInv
  <1>11. CASE n > 0 /\ read.got = n /\ Answer(Finished(n))
    BY <1>1, <1>8, <1>11
  <1>12. CASE read.got = read.opened.size /\ Answer(Finished(read.got))
    BY <1>1, <1>8, <1>12
  <1>13. \/ n > 0 /\ read.got = n /\ Answer(Finished(n))
         \/ read.cancelled /\ Answer("cancelled")
         \/ read.got = read.opened.size /\ Answer(Finished(read.got))
         \/ /\ ~(n > 0 /\ read.got = n) /\ read.got # read.opened.size
            /\ read' = [read EXCEPT !.got = @ + more, !.cap = cap]
    BY Zenon DEF ReadMore, n
  <1>14. ~(n > 0 /\ read.got = n) => (n > 0 => read.got < n)
    <2>1. read.got \in Nat
      BY Typed
    <2> QED
      BY <1>5, <1>6, <2>1
  <1> HIDE DEF cap, more
  <1> QED
    BY <1>9, <1>10, <1>11, <1>12, <1>13, <1>14, Zenon

----------------------------------------------------------------------------
(* So does whatever happens beside a read.                                 *)

LEMMA SwapKeeps ==
  ASSUME IInv, Swap
  PROVE  IInv'
  <1> ReadTyped /\ Stage /\ Homed /\ Fitting /\ Handed /\ Undisturbed
    BY DEF IInv
  <1>1. read' = [read EXCEPT !.quiet = FALSE]
    BY DEF Swap
  <1>2. tree' \in [Places -> TreeEntries]
    BY Typed, Zenon DEF Swap
  <1>3. read' = Becomes(read.pc, read.place, read.opened, read.got, read.cap, read.answer, FALSE,
                        read.cancelled)
    BY <1>1, Zenon DEF ReadTyped, ReadStates, Becomes
  <1>4. /\ read' \in ReadStates
        /\ read'.pc = read.pc /\ read'.req = read.req
        /\ read'.opened = read.opened /\ read'.got = read.got /\ read'.cap = read.cap
        /\ read'.answer = read.answer /\ read'.quiet = FALSE
    <2>1. read' \in ReadStates
      BY <1>3, Typed, Zenon DEF Becomes, ReadStates, PCs, Answers
    <2> QED
      BY <1>3, <2>1 DEF Becomes
  <1>5. Limited' = Limited
    BY <1>4, Zenon DEF Limited, OnePast
  <1>6. ReadTyped' /\ Stage' /\ Homed'
    BY <1>2, <1>4 DEF ReadTyped, Stage, Homed
  <1>7. Fitting' /\ Handed'
    BY <1>4, <1>5 DEF Fitting, Handed
  <1>8. Undisturbed'
    BY <1>4 DEF Undisturbed, Alone
  <1> QED
    BY <1>6, <1>7, <1>8 DEF IInv

LEMMA CancelKeeps ==
  ASSUME IInv, Cancel
  PROVE  IInv'
  <1> ReadTyped /\ Stage /\ Homed /\ Fitting /\ Handed /\ Undisturbed
    BY DEF IInv
  <1>1. read' = [read EXCEPT !.cancelled = TRUE, !.quiet = FALSE] /\ UNCHANGED tree
    BY DEF Cancel
  <1>2. read' = Becomes(read.pc, read.place, read.opened, read.got, read.cap, read.answer, FALSE, TRUE)
    BY <1>1, Zenon DEF ReadTyped, ReadStates, Becomes
  <1>3. /\ read' \in ReadStates
        /\ read'.pc = read.pc /\ read'.req = read.req
        /\ read'.opened = read.opened /\ read'.got = read.got /\ read'.cap = read.cap
        /\ read'.answer = read.answer /\ read'.quiet = FALSE
    <2>1. read' \in ReadStates
      BY <1>2, Typed, Zenon DEF Becomes, ReadStates, PCs, Answers
    <2> QED
      BY <1>2, <2>1 DEF Becomes
  <1>4. Limited' = Limited
    BY <1>3, Zenon DEF Limited, OnePast
  <1>5. ReadTyped' /\ Stage' /\ Homed'
    BY <1>1, <1>3 DEF ReadTyped, Stage, Homed
  <1>6. Fitting' /\ Handed'
    BY <1>3, <1>4 DEF Fitting, Handed
  <1>7. Undisturbed'
    BY <1>3 DEF Undisturbed, Alone
  <1> QED
    BY <1>5, <1>6, <1>7 DEF IInv

(* A file that grows is read on, and nothing handed back has grown.        *)
LEMMA GrowthKeeps ==
  ASSUME IInv, Growth
  PROVE  IInv'
  <1> ReadTyped /\ Stage /\ Homed /\ Fitting /\ Handed /\ Undisturbed
    BY DEF IInv
  <1>1. /\ read' = [read EXCEPT !.opened.size = @ + 1, !.quiet = FALSE] /\ UNCHANGED tree
        /\ read.pc \in {"judge", "read"} /\ read.opened.size < MaxSize
    BY DEF Growth
  <1>2. read.opened \in OpenedOf /\ read.got \in Nat /\ read.answer = "none"
    BY <1>1, Typed DEF Stage
  <1>3. read.opened.size \in 0 .. MaxSize
    BY <1>2, OpenedTyped, Zenon
  <1> DEFINE o == [kind |-> read.opened.kind, home |-> read.opened.home, size |-> read.opened.size + 1]
  <1>4. read.opened.size + 1 \in 0 .. MaxSize
    BY <1>1, <1>3, ReaderAssumption
  <1>5. o \in OpenedOf
    BY <1>2, <1>4, OpenedTyped, Zenon DEF OpenedOf
  <1>6. o.kind = read.opened.kind /\ o.home = read.opened.home /\ o.size = read.opened.size + 1
    OBVIOUS
  <1>7. read' = Becomes(read.pc, read.place, o, read.got, read.cap, read.answer, FALSE, read.cancelled)
    BY <1>1, <1>2, <1>4, <1>5, Zenon DEF ReadTyped, ReadStates, Becomes, OpenedOf
  <1> HIDE DEF o
  <1>8. /\ read' \in ReadStates
        /\ read'.pc = read.pc /\ read'.req = read.req
        /\ read'.opened = o /\ read'.got = read.got /\ read'.cap = read.cap
        /\ read'.answer = read.answer /\ read'.quiet = FALSE
    <2>1. read' \in ReadStates
      BY <1>5, <1>7, Typed, Zenon DEF Becomes, ReadStates, PCs, Answers
    <2> QED
      BY <1>7, <2>1 DEF Becomes
  <1>9. Limited' = Limited
    BY <1>8, Zenon DEF Limited, OnePast
  <1>10. ReadTyped' /\ Stage' /\ Homed'
    BY <1>1, <1>6, <1>8 DEF ReadTyped, Stage, Homed
  <1>11. Fitting' /\ Handed'
    BY <1>2, <1>3, <1>6, <1>8, <1>9 DEF Fitting, Handed
  <1>12. Undisturbed'
    BY <1>8 DEF Undisturbed, Alone
  <1> QED
    BY <1>10, <1>11, <1>12 DEF IInv

LEMMA Keeps ==
  ASSUME IInv, [ReadStep \/ Beside]_<<tree, read>>
  PROVE  IInv'
  <1>1. CASE UNCHANGED <<tree, read>>
    <2>1. tree' = tree /\ read' = read
      BY <1>1
    <2>2. Limited' = Limited /\ Plain' = Plain /\ DiskAnswer' = DiskAnswer /\ Alone' = Alone
      BY <2>1, SameTree
    <2>3. ReadTyped' /\ Stage'
      BY <2>1, Zenon DEF IInv, ReadTyped, Stage
    <2>4. Homed' /\ Handed'
      BY <2>1, <2>2, Zenon DEF IInv, Homed, Handed
    <2>5. Fitting'
      BY <2>1, <2>2, Zenon DEF IInv, Fitting
    <2>6. Undisturbed'
      BY <2>1, <2>2, Zenon DEF IInv, Undisturbed
    <2> QED
      BY <2>3, <2>4, <2>5, <2>6, Zenon DEF IInv
  <1> QED
    BY <1>1, AskKeeps, FetchKeeps, ResolveKeeps, JudgePathKeeps, OpenKeeps, JudgeOpenedKeeps,
       ReadMoreKeeps, SwapKeeps, GrowthKeeps, CancelKeeps, Zenon DEF ReadStep, Beside

----------------------------------------------------------------------------
(* Memory holds what NewMemory was given: every file of a plain tree, each *)
(* under its own path.                                                     *)

LEMMA SeqHoldsSet ==
  ASSUME NEW S, IsFiniteSet(S)
  PROVE  /\ SetToSeq(S) \in [1 .. Cardinality(S) -> S]
         /\ \A x \in S : \E i \in DOMAIN SetToSeq(S) : SetToSeq(S)[i] = x
  <1> DEFINE n == Cardinality(S)
             f == SetToSeq(S)
  <1>1. n \in Nat /\ ExistsBijection(1 .. n, S)
    BY FS_CardinalityType
  <1>2. \E g \in [1 .. n -> S] : IsInjective(g)
    BY <1>1 DEF ExistsBijection, Bijection, Injection, IsInjective
  <1>3. f \in [1 .. n -> S] /\ IsInjective(f)
    BY <1>2, Zenon DEF SetToSeq
  <1> HIDE DEF f, n
  <1>4. f \in Injection(1 .. n, S)
    BY <1>3 DEF Injection, IsInjective
  <1>5. IsFiniteSet(1 .. n) /\ Cardinality(1 .. n) = n
    BY <1>1, FS_Interval
  <1>6. f \in Surjection(1 .. n, S)
    BY <1>4, <1>5, FS_Injection DEF n
  <1>7. \A x \in S : \E i \in DOMAIN f : f[i] = x
    BY <1>3, <1>6 DEF Surjection
  <1> QED
    BY <1>3, <1>7 DEF f, n

FilePlaces == {q \in Places : tree[q].kind = "file"}
FileSource(p) == [form |-> "path", place |-> p, size |-> tree[p].size]
TreeFiles == {FileSource(p) : p \in FilePlaces}

LEMMA TreeFilesFinite == IsFiniteSet(TreeFiles)
  <1>1. IsFiniteSet(FilePlaces)
    BY ReaderAssumption, FS_Subset DEF FilePlaces
  <1> DEFINE f == [p \in FilePlaces |-> FileSource(p)]
  <1>2. f \in Surjection(FilePlaces, TreeFiles)
    BY DEF Surjection, TreeFiles
  <1> QED
    BY <1>1, <1>2, FS_Surjection

LEMMA MemoryHoldsFiles ==
  ASSUME ReadTyped
  PROVE  LET docs == NewMemory(SetToSeq(TreeFiles))
         IN  \A p \in Places :
               /\ <<"path", p>> \in DOMAIN docs <=> tree[p].kind = "file"
               /\ tree[p].kind = "file" => docs[<<"path", p>>] = tree[p].size
  <1> DEFINE s == SetToSeq(TreeFiles)
             docs == NewMemory(s)
             full == {j \in DOMAIN s : s[j].form # "empty"}
  <1>1. /\ s \in [1 .. Cardinality(TreeFiles) -> TreeFiles]
        /\ \A x \in TreeFiles : \E i \in DOMAIN s : s[i] = x
    BY TreeFilesFinite, SeqHoldsSet
  <1> HIDE DEF s
  <1>2. ASSUME NEW i \in DOMAIN s
        PROVE  \E p \in FilePlaces : s[i] = FileSource(p)
    BY <1>1, <1>2 DEF TreeFiles
  <1>3. ASSUME NEW i \in DOMAIN s, NEW p \in FilePlaces, s[i] = FileSource(p)
        PROVE  /\ s[i].form # "empty" /\ MemoryKey(s[i]) = <<"path", p>> /\ s[i].size = tree[p].size
    BY <1>3 DEF FileSource, MemoryKey
  <1>4. \A i \in DOMAIN s : s[i].form # "empty" /\ \E p \in FilePlaces : MemoryKey(s[i]) = <<"path", p>>
    BY <1>2, <1>3
  <1>5. DOMAIN docs = {MemoryKey(s[i]) : i \in full}
    BY DEF NewMemory
  <1>6. ASSUME NEW p \in FilePlaces
        PROVE  <<"path", p>> \in DOMAIN docs /\ docs[<<"path", p>>] = tree[p].size
    <2>1. PICK i \in DOMAIN s : s[i] = FileSource(p)
      BY <1>1, <1>6 DEF TreeFiles
    <2>2. s[i].form # "empty" /\ MemoryKey(s[i]) = <<"path", p>>
      BY <1>3, <1>6, <2>1
    <2> DEFINE c == CHOOSE j \in DOMAIN s : s[j].form # "empty" /\ MemoryKey(s[j]) = <<"path", p>>
    <2>3. <<"path", p>> \in DOMAIN docs
      BY <1>5, <2>2
    <2>4. docs[<<"path", p>>] = s[c].size
      BY <1>5, <2>3, Zenon DEF NewMemory
    <2>5. c \in DOMAIN s /\ MemoryKey(s[c]) = <<"path", p>>
      BY <2>2, Zenon
    <2> HIDE DEF c
    <2>6. PICK q \in FilePlaces : s[c] = FileSource(q)
      BY <1>2, <2>5
    <2>7. MemoryKey(s[c]) = <<"path", q>> /\ s[c].size = tree[q].size
      BY <1>3, <2>5, <2>6
    <2>8. q = p
      BY <2>5, <2>7
    <2> QED
      BY <2>3, <2>4, <2>7, <2>8
  <1>7. ASSUME NEW p \in Places, <<"path", p>> \in DOMAIN docs
        PROVE  tree[p].kind = "file"
    <2>1. PICK i \in DOMAIN s : MemoryKey(s[i]) = <<"path", p>>
      BY <1>5, <1>7
    <2>2. PICK q \in FilePlaces : MemoryKey(s[i]) = <<"path", q>>
      BY <1>4, <2>1
    <2>3. q = p
      BY <2>1, <2>2
    <2> QED
      BY <2>2, <2>3 DEF FilePlaces
  <1> HIDE DEF docs
  <1>8. \A p \in Places : /\ <<"path", p>> \in DOMAIN docs <=> tree[p].kind = "file"
                          /\ tree[p].kind = "file" => docs[<<"path", p>>] = tree[p].size
    BY <1>6, <1>7 DEF FilePlaces
  <1> QED
    BY <1>8 DEF docs, s

(* A read left alone in a plain tree answers as Memory over its files.     *)
LEMMA DiskAsMemory ==
  ASSUME IInv
  PROVE  MemoryAsDisk
  <1> ReadTyped /\ Undisturbed
    BY DEF IInv
  <1> DEFINE docs == NewMemory(SetToSeq(TreeFiles))
             q == read.req
  <1>1. q \in ReadRequests /\ q.place \in Places
    BY Typed, RequestTyped
  <1>2. /\ <<"path", q.place>> \in DOMAIN docs <=> tree[q.place].kind = "file"
        /\ tree[q.place].kind = "file" => docs[<<"path", q.place>>] = tree[q.place].size
    BY <1>1, MemoryHoldsFiles
  <1> HIDE DEF docs
  <1>3. ASSUME Alone
        PROVE  MemoryRead(docs, q) = DiskAnswer
    <2>1. CASE q.form = "empty"
      BY <1>1, <2>1, LocateTold, Zenon DEF MemoryRead, DiskAnswer
    <2>2. CASE q.form = "bad file"
      BY <1>1, <2>2, LocateTold, Zenon DEF MemoryRead, DiskAnswer
    <2>3. CASE q.form \in {"path", "file"}
      <3>1. ~Refused(Locate(q)) /\ ~IsURL(Locate(q))
        BY <1>1, <2>3, LocateTold
      <3>2. MemoryKey(q) = <<"path", q.place>>
        BY <2>3, Zenon DEF MemoryKey
      <3>3. HoldsKey(docs, q) <=> tree[q.place].kind = "file"
        BY <1>2, <2>3, <3>2 DEF HoldsKey
      <3>4. q.form # "empty" /\ q.form # "bad file"
        BY <2>3
      <3>5. MemoryRead(docs, q) =
              IF q.within /\ q.place \notin Inside THEN "outside"
              ELSE IF ~HoldsKey(docs, q) THEN "missing"
              ELSE IF q.limit > 0 /\ docs[MemoryKey(q)] > q.limit THEN "too large" ELSE "bytes"
        BY <3>1, Zenon DEF MemoryRead, RelativeTo
      <3> QED
        BY <1>2, <3>2, <3>3, <3>4, <3>5, Zenon DEF DiskAnswer
    <2> QED
      BY <1>1, <1>3, <2>1, <2>2, <2>3, RequestTyped DEF Alone
  <1>4. read.pc = "done" /\ Alone => read.answer = MemoryRead(docs, q)
    BY <1>3 DEF Undisturbed
  <1> QED
    BY <1>4, Zenon DEF MemoryAsDisk, Alone, Plain, docs, TreeFiles, FileSource, FilePlaces

LEMMA InvariantSuffices ==
  ASSUME IInv
  PROVE  ReadsBounded
  <1> ReadTyped /\ Stage /\ Homed /\ Fitting /\ Handed
    BY DEF IInv
  <1>1. OnlyRegularRead
    BY DEF Handed, OnlyRegularRead
  <1>2. ConfinedRead
    BY DEF Homed, ConfinedRead, Handed
  <1>3. BoundedRead
    <2> DEFINE n == OnePast(read.req.limit)
    <2>1. n = Limited
      BY DEF Limited
    <2> HIDE DEF n
    <2>2. n \in Nat
      <3>1. read.req.limit \in 0 .. MaxLimit
        BY Typed, RequestTyped, Zenon
      <3> QED
        BY <3>1, OnePastTyped DEF n
    <2>3. read.got \in Nat /\ read.cap \in Nat /\ read.got <= read.cap /\ (n > 0 => read.cap <= n)
      BY <2>1, Typed DEF Fitting
    <2>4. (n > 0 => read.got < n) => Grown(read.got, read.cap, n) > read.got
      BY <2>2, <2>3, GrownFits
    <2> QED
      BY <2>1, <2>3, <2>4 DEF BoundedRead, Handed, n
  <1> QED
    BY <1>1, <1>2, <1>3, DiskAsMemory DEF ReadsBounded

(* Whatever is swapped, grown or cancelled beside a read, and whichever    *)
(* request it answers: what is handed back was a regular file or a         *)
(* response, inside the directory of a confined request, whole and within  *)
(* the limit, from a buffer that always had room and never more than it    *)
(* may fill; and Disk, left alone, answers as Memory would (engine/reader).*)
THEOREM ReadsAreBounded == ReaderSpec => []ReadsBounded
  <1>1. ReaderInit(ReadRequests, Holdings, [Places -> TreeEntries]) => IInv
    BY Begins
  <1>2. IInv /\ [ReadStep \/ Beside]_<<tree, read>> => IInv'
    BY Keeps
  <1>3. IInv => ReadsBounded
    BY InvariantSuffices
  <1> QED
    BY <1>1, <1>2, <1>3, PTL DEF ReaderSpec
=============================================================================
