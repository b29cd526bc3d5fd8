----------------------------- MODULE BoundedBody -----------------------------
(***************************************************************************)
(* Reading an HTTP body chunk by chunk within a limit: readBoundedBody()   *)
(* of webhook/body.ts, which a signal may cancel, and readBounded() of     *)
(* feedback/client.ts, which nothing cancels.  Both are operators on the   *)
(* state of one reader; a module that reads a body keeps that state.       *)
(***************************************************************************)
EXTENDS Naturals, Sequences

\* A body on the network: the chunks that arrive and what comes after them,
\* the end of the stream, an error, or nothing for ever; null when there is none.
Stream(chunks, tail) == [chunks |-> chunks, tail |-> tail]

Tails == {"end", "null", "error", "silent"}

\* A message without a body has no stream at all.
NoStream == Stream(<<>>, "null")

ReaderStates == {"reading", "complete", "tooLarge", "aborted", "broken"}

Reader(stream, state) ==
  [left |-> stream.chunks, tail |-> stream.tail, got |-> <<>>, cancelled |-> FALSE,
   state |-> state]

\* getReader(), or an early return.  A signal that has fired already is noticed
\* here, but not for a message without a body.
Open(stream, fired) ==
  Reader(stream, CASE stream.tail = "null" -> "complete"
                   [] stream.tail # "null" /\ fired -> "aborted"
                   [] OTHER -> "reading")

\* onAbort(): what has not been read is dropped, and reads see the end.
Cancel(reader) == [reader EXCEPT !.cancelled = TRUE, !.left = <<>>, !.tail = "end"]

\* A pending read() settles unless the other side stays silent.
CanRead(reader) ==
  reader.state = "reading" /\ (reader.left # <<>> \/ reader.tail # "silent")

\* Fault: the end that a cancelled read sees is taken for the end of the body.
ReadForgetsCancel(reader, limit) ==
  LET got == reader.got \o Head(reader.left) IN
  CASE reader.left # <<>> /\ Len(got) > limit -> [reader EXCEPT !.state = "tooLarge"]
    [] reader.left # <<>> /\ Len(got) <= limit ->
         [reader EXCEPT !.got = got, !.left = Tail(@)]
    [] reader.left = <<>> /\ reader.tail = "error" -> [reader EXCEPT !.state = "broken"]
    [] OTHER -> [reader EXCEPT !.state = "complete"]

\* One turn of the loop: a chunk within the limit, one beyond it, or the end.
Read(reader, limit) ==
  LET got == reader.got \o Head(reader.left) IN
  CASE reader.left # <<>> /\ Len(got) > limit -> [reader EXCEPT !.state = "tooLarge"]
    [] reader.left # <<>> /\ Len(got) <= limit ->
         [reader EXCEPT !.got = got, !.left = Tail(@)]
    [] reader.left = <<>> /\ reader.tail = "error" -> [reader EXCEPT !.state = "broken"]
    [] OTHER -> [reader EXCEPT !.state = IF reader.cancelled THEN "aborted" ELSE "complete"]
=============================================================================
