------------------------------- MODULE Ranges -------------------------------
(***************************************************************************)
(* fetch_bytes: how much of an artifact is asked for, and what the parsers *)
(* of wfmeta find in it.  A head window is read; when the parser ran out   *)
(* of bytes the next slice is asked for and appended; for a video, and a   *)
(* WebP, the tail of the file.                                             *)
(*                                                                         *)
(* A file is a format and a sequence of chunks (PNG chunks, WebP chunks,   *)
(* JPEG segments, MP4 boxes).  A chunk has a role, a size and the payloads *)
(* it holds.  Sizes are in units as large as a chunk's header.             *)
(***************************************************************************)
EXTENDS Integers, Sequences, FiniteSets, FiniteSetsExt, Functions

CONSTANTS
  Files,       \* the artifacts the CDN may serve
  HeadWindow,  \* HEAD_WINDOW
  MaxHead,     \* MAX_HEAD
  TailWindow   \* TAIL_WINDOW

Payloads == {"workflow", "prompt"}
Formats  == {"png", "webp", "jpeg", "isobmff"}
Chunk    == [role : STRING, size : Nat, holds : SUBSET Payloads]

ASSUME WindowsAssumption ==
  /\ {HeadWindow, MaxHead, TailWindow} \subseteq Nat \ {0}
  /\ TailWindow <= HeadWindow /\ HeadWindow <= MaxHead
  /\ \A f \in Files : f.fmt \in Formats /\ f.chunks \in Seq(Chunk)
                      /\ \A k \in DOMAIN f.chunks : f.chunks[k].size > 0

----------------------------------------------------------------------------
\* wfmeta: what a parser finds in the first bytes of a file.

\* The offset of chunk k; of the end of the file for the one after the last.
Offsets(f) ==
  LET at[k \in 1 .. Len(f.chunks) + 1] ==
        IF k = 1 THEN 0 ELSE at[k - 1] + f.chunks[k - 1].size
  IN at
Offset(f, k) == Offsets(f)[k]
End(f, k)    == Offset(f, k) + f.chunks[k].size
Size(f)      == Offset(f, Len(f.chunks) + 1)

\* Whether the walk ends for good at chunk k: pixel data, the last chunk, or a
\* WebP that says it has no EXIF.  `past` goes on behind a PNG's pixel data.
Concludes(f, k, past) ==
  CASE f.fmt = "png"  -> f.chunks[k].role = "end" \/ (f.chunks[k].role = "image" /\ ~past)
    [] f.fmt = "webp" -> \/ f.chunks[k].role = "plain"
                         \/ /\ f.chunks[k].role = "image"
                            /\ \A j \in 1 .. k : f.chunks[j].role # "extended"
    [] f.fmt = "jpeg" -> f.chunks[k].role = "image"
    [] OTHER          -> FALSE

\* The chunk the walk over n bytes, the first `good` of which are the file's,
\* stops at: out of bytes, at its conclusion, or inside a chunk it has to read.
StopsAt(f, good, n, past) ==
  Min({k \in 1 .. Len(f.chunks) + 1 :
         IF k > Len(f.chunks) THEN TRUE
         ELSE \/ Offset(f, k) >= good
              \/ Concludes(f, k, past)
              \/ End(f, k) > n /\ (f.chunks[k].role = "text" \/ f.fmt = "jpeg")})

\* Whether the walk reports that it ran out.  Bytes that are not the file's
\* may look like anything.
Truncated(f, good, n) ==
  LET k == StopsAt(f, good, n, FALSE) IN
  IF f.fmt = "isobmff" THEN {FALSE}
  ELSE IF k <= Len(f.chunks) /\ Concludes(f, k, FALSE) /\ Offset(f, k) < good THEN {FALSE}
  ELSE IF good < n /\ ~(k <= Len(f.chunks) /\ Offset(f, k) < good) THEN BOOLEAN
  ELSE IF f.fmt = "webp" /\ Offset(f, k) = n THEN {FALSE}
  ELSE {TRUE}

\* The chunks the walk has passed; an MP4 is searched for whole `data` boxes
\* wherever they are.
Passed(f, good, n, past) ==
  {k \in DOMAIN f.chunks : /\ End(f, k) <= good
                           /\ f.fmt = "isobmff" \/ k < StopsAt(f, good, n, past)}

\* Their payloads.
Found(f, good, n, past) ==
  UNION {f.chunks[k].holds : k \in Passed(f, good, n, past)}

\* A slice from the end has no signature: it is taken for a video's when it has
\* the header of the list its boxes are in, and for nothing otherwise.
FoundInTail(f) ==
  LET from == Size(f) - TailWindow
      In(k) == Offset(f, k) >= from
  IN IF f.fmt = "isobmff" /\ \E k \in DOMAIN f.chunks : f.chunks[k].role = "list" /\ In(k)
     THEN UNION {f.chunks[k].holds : k \in {j \in DOMAIN f.chunks : In(j)}}
     ELSE {}

\* A video that has shown pixel data and no metadata.
NeedsTail(f, n) ==
  LET Saw(role) == \E k \in DOMAIN f.chunks : f.chunks[k].role = role /\ Offset(f, k) < n
  IN f.fmt = "isobmff" /\ Found(f, n, n, TRUE) = {} /\ Saw("image") /\ ~Saw("moov")

----------------------------------------------------------------------------
\* fetch_bytes.

NoFile == [fmt |-> "none", chunks |-> <<>>]

VARIABLES
  file,        \* what is being fetched
  pc,
  start, end,  \* the window asked for
  good, held,  \* bytes held, and how many of the first of them are the file's
  total,       \* whether the total size has been told
  found,       \* out.workflow, out.prompt
  prefix,      \* out.prefix: "none", "head" or "tail"
  honest       \* auxiliary: every range was answered with that range

vars == <<file, pc, start, end, good, held, total, found, prefix, honest>>

Init ==
  /\ file = NoFile /\ pc = "idle" /\ start = 0 /\ end = HeadWindow
  /\ good = 0 /\ held = 0 /\ total = FALSE /\ found = {} /\ prefix = "none"
  /\ honest = TRUE

Fetch(f) ==
  /\ pc = "idle"
  /\ file' = f /\ pc' = "window"
  /\ UNCHANGED <<start, end, good, held, total, found, prefix, honest>>

\* Mutant of GoesOn: anything found is enough.
GoesOnEmpty(truncated, more, has) == truncated /\ more /\ has = {} /\ end < MaxHead

\* Mutant of GoesOn: no limit.
GoesOnForever(truncated, more, has) == truncated /\ more /\ "workflow" \notin has

\* Whether the loop asks for another slice.
GoesOn(truncated, more, has) ==
  truncated /\ more /\ "workflow" \notin has /\ end < MaxHead

\* Mutant of WantsTail: only when the head has shown that it is needed.
WantsTailIfNeeded(f, has, n, told) ==
  NeedsTail(f, n) /\ "workflow" \notin has /\ told /\ Size(f) > TailWindow

\* Whether the tail is asked for, once the loop is over.
WantsTail(f, has, n, told) ==
  f.fmt \in {"isobmff", "webp"} /\ "workflow" \notin has /\ told /\ Size(f) > TailWindow

\* After a reply that leaves n bytes, g of them good: parse twice, and go on.
Parse(g, n, told) ==
  LET has == Found(file, g, n, FALSE) \cup Found(file, g, n, TRUE) IN
  /\ good' = g /\ held' = n /\ total' = told /\ found' = has
  /\ \E truncated \in Truncated(file, g, n) :
       IF ~NeedsTail(file, g) /\ GoesOn(truncated, ~told \/ n < Size(file), has)
       THEN /\ start' = end /\ end' = Min({end * 4, MaxHead})
            /\ UNCHANGED <<pc, prefix>>
       ELSE /\ IF WantsTail(file, has, g, told)
               THEN pc' = "tail" /\ UNCHANGED prefix
               ELSE pc' = "done" /\ prefix' = "head"
            /\ UNCHANGED <<start, end>>

\* The reply is appended.  Its bytes are the file's only when the reply is what
\* was asked for and nothing before it went wrong.
Take(bytes, asked) ==
  \E told \in {total, TRUE} :
    LET n == held + bytes IN Parse(IF asked /\ good = held THEN n ELSE good, n, told)

\* 206: the slice, as much of it as there is.
Partial ==
  /\ pc = "window" /\ start < Size(file)
  /\ Take(Min({end, Size(file)}) - start, TRUE)
  /\ UNCHANGED <<file, honest>>

\* 200: the whole file, cut at the window's end; what was asked for only when
\* the window starts at zero.
Whole ==
  /\ pc = "window"
  /\ Take(Min({end, Size(file)}), start = 0)
  /\ honest' = (honest /\ start = 0)
  /\ UNCHANGED file

\* Any other status ends the fetch and keeps no prefix.  That is also what a
\* range behind the end of the file gets (416).
Error ==
  /\ pc = "window"
  /\ pc' = "done"
  /\ honest' = (honest /\ start >= Size(file))
  /\ UNCHANGED <<file, start, end, good, held, total, found, prefix>>

\* Mutant of TailPartial: the head is kept all the same.
TailKeepsHead ==
  /\ pc = "tail"
  /\ found' = found \cup FoundInTail(file)
  /\ prefix' = "head" /\ pc' = "done"
  /\ UNCHANGED <<file, start, end, good, held, total, honest>>

TailPartial ==
  /\ pc = "tail"
  /\ found' = found \cup FoundInTail(file)
  /\ prefix' = "tail" /\ pc' = "done"
  /\ UNCHANGED <<file, start, end, good, held, total, honest>>

TailRefused ==
  /\ pc = "tail"
  /\ prefix' = "head" /\ pc' = "done"
  /\ honest' = FALSE
  /\ UNCHANGED <<file, start, end, good, held, total, found>>

Step == Partial \/ Whole \/ Error \/ TailPartial \/ TailRefused

----------------------------------------------------------------------------
\* Properties.

\* Every variable has its type; a window is never empty and never too large.
TypeOK ==
  /\ file \in Files \cup {NoFile}
  /\ pc \in {"idle", "window", "tail", "done"}
  /\ start \in 0 .. MaxHead /\ end \in 1 .. MaxHead /\ start < end
  /\ good \in 0 .. held /\ held \in 0 .. 3 * MaxHead
  /\ total \in BOOLEAN /\ found \subseteq Payloads
  /\ prefix \in {"none", "head", "tail"} /\ honest \in BOOLEAN

\* A WebP chunk ends exactly where the last window asked for does, short of both
\* limits: the walk takes the end of the slice for the end of the file.
EndsOnWindow(f) ==
  /\ f.fmt = "webp" /\ end < Min({MaxHead, Size(f)})
  /\ \E k \in DOMAIN f.chunks : End(f, k) = end

\* A PNG's chunk lies behind its pixels and has not "happened to land inside the
\* window": the walk concludes at the pixels, so nothing more is asked for.
OutOfWindow(f, k) ==
  /\ f.fmt = "png" /\ End(f, k) > held
  /\ \E j \in 1 .. k : f.chunks[j].role = "image"

\* What escalation loses: asking for an image slice by slice finds a workflow
\* whenever one request for MAX_HEAD would have, but for a WebP cut right between
\* chunks and for what lies behind a PNG's pixels and past the last window.
HeadReach ==
  pc = "done" /\ honest /\ file.fmt # "isobmff" /\ ~EndsOnWindow(file) =>
    LET n == Min({MaxHead, Size(file)}) IN
    \A k \in Passed(file, n, n, TRUE) :
      "workflow" \in file.chunks[k].holds => "workflow" \in found \/ OutOfWindow(file, k)

\* A video's workflow that lies whole in the head or, with the header of its
\* list, in the tail is found, whether its metadata comes before or behind the
\* pixels, once the server has told the size.
VideoReach ==
  pc = "done" /\ honest /\ total /\ file.fmt = "isobmff" =>
    LET n == Min({HeadWindow, Size(file)}) IN
    ("workflow" \in Found(file, n, n, TRUE) \cup FoundInTail(file)
       => "workflow" \in found)

\* "Prefixes exist only to make a parser fix a re-parse instead of a re-crawl":
\* parsing the bytes that were kept finds the workflow the fetch has found.
PrefixReparses ==
  pc = "done" /\ "workflow" \in found =>
    "workflow" \in IF prefix = "tail" THEN FoundInTail(file)
                                      ELSE Found(file, good, held, TRUE)
=============================================================================
