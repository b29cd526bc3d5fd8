----------------------------- MODULE SmtpContent -----------------------------
(***************************************************************************)
(* How the bytes of one message reach the wire, chunk by chunk as the      *)
(* message source yields them: DATA with dot-stuffing and its terminator   *)
(* (sendData() in internal/smtp/session.ts, dotStuffChunk() in             *)
(* transaction.ts), or BDAT chunks of a bounded size (sendBdatChunked()    *)
(* and rechunk()).  The replies in between are SmtpTransaction's.          *)
(***************************************************************************)
EXTENDS Naturals, SequencesExt

CONSTANTS Messages,   \* the messages considered, sequences of Bytes
          ChunkSize   \* the chunkSize of BDAT

Bytes == {".", "CR", "LF", "x"}

ASSUME ContentAssumption ==
  /\ Messages \subseteq Seq(Bytes)
  /\ ChunkSize \in Nat \ {0}

VARIABLES message,      \* what the caller sends
          transfer,     \* "data" or "bdat"
          rest,         \* what the source has still to yield
          wire,         \* DATA: the bytes written after the 354 reply
          atLineStart,  \* DATA: dot-stuffing state carried between chunks
          previous, last, wrote, \* DATA: the last two bytes, if any
          piece,        \* BDAT: what rechunk() has left of the source's chunk
          current,      \* BDAT: the piece read ahead; <<>> before the first
          blocks,       \* BDAT: the blocks written, each with its LAST flag
          done          \* everything is written

data == <<wire, atLineStart, previous, last, wrote>>
bdat == <<piece, current, blocks>>
vars == <<message, transfer, rest, data, bdat, done>>

Init ==
  /\ message \in Messages /\ rest = message
  /\ transfer \in {"data", "bdat"}
  /\ wire = <<>> /\ atLineStart = TRUE
  /\ previous = "none" /\ last = "none" /\ wrote = FALSE
  /\ piece = <<>> /\ current = <<>> /\ blocks = <<>>
  /\ done = FALSE

\* The source yields its next chunk of n bytes, none of them perhaps.
Yield(n) == SubSeq(rest, 1, n)
Yielded(n) == rest' = SubSeq(rest, n + 1, Len(rest)) /\ UNCHANGED <<message, transfer>>
-----------------------------------------------------------------------------
(* DATA *)

\* Faults: a chunk never begins a line, or always does when it is empty; the
\* dot is escaped, not doubled.
StartsLineWithin(chunk, start, k) == k > 1 /\ chunk[k - 1] = "LF"
LineStartAfterReset(chunk, start) == chunk = <<>> \/ Last(chunk) = "LF"
DotEscape(chunk, start) ==
  FlattenSeq([k \in DOMAIN chunk |->
    IF chunk[k] = "." /\ (IF k = 1 THEN start ELSE chunk[k - 1] = "LF")
    THEN <<"\\", ".">> ELSE <<chunk[k]>>])

\* dotStuffChunk(): double a dot that begins a line.  A line ends at a LF.
StartsLine(chunk, start, k) == IF k = 1 THEN start ELSE chunk[k - 1] = "LF"
DotStuff(chunk, start) ==
  FlattenSeq([k \in DOMAIN chunk |->
    IF chunk[k] = "." /\ StartsLine(chunk, start, k) THEN <<".", ".">> ELSE <<chunk[k]>>])

\* Whether the byte after the chunk starts a line.
LineStartAfter(chunk, start) == StartsLine(chunk, start, Len(chunk) + 1)

WriteChunk ==
  /\ transfer = "data" /\ ~done
  /\ \E n \in 0..Len(rest) :
       LET chunk == Yield(n) IN
       /\ Yielded(n)
       /\ wire' = wire \o DotStuff(chunk, atLineStart)
       /\ atLineStart' = LineStartAfter(chunk, atLineStart)
       /\ IF n = 0 THEN UNCHANGED <<previous, last, wrote>>
          ELSE /\ previous' = IF n >= 2 THEN chunk[n - 1] ELSE last
               /\ last' = chunk[n]
               /\ wrote' = TRUE
  /\ UNCHANGED <<bdat, done>>

\* The source is exhausted: end the last line if it is not, then the data.
EndData ==
  /\ transfer = "data" /\ ~done /\ rest = <<>>
  /\ wire' = wire \o (IF wrote /\ <<previous, last>> # <<"CR", "LF">>
                      THEN <<"CR", "LF">> ELSE <<>>)
                  \o <<".", "CR", "LF">>
  /\ done' = TRUE
  /\ UNCHANGED <<message, transfer, rest, atLineStart, previous, last, wrote, bdat>>
-----------------------------------------------------------------------------
(* BDAT *)

\* rechunk() asks the source for its next chunk.
NextChunk ==
  /\ transfer = "bdat" /\ ~done /\ piece = <<>>
  /\ \E n \in 0..Len(rest) : piece' = Yield(n) /\ Yielded(n)
  /\ UNCHANGED <<data, current, blocks, done>>

Block(bytes, isLast) == [bytes |-> bytes, isLast |-> isLast]

\* rechunk() yields the next piece; the piece read before it is written.
NextPiece ==
  LET size == IF Len(piece) < ChunkSize THEN Len(piece) ELSE ChunkSize IN
  /\ transfer = "bdat" /\ ~done /\ piece # <<>>
  /\ current' = SubSeq(piece, 1, size)
  /\ piece' = SubSeq(piece, size + 1, Len(piece))
  /\ blocks' = IF current = <<>> THEN blocks ELSE Append(blocks, Block(current, FALSE))
  /\ UNCHANGED <<message, transfer, rest, data, done>>

\* Fault: the piece read ahead is not written.
EndBdatDropsPiece ==
  /\ transfer = "bdat" /\ ~done /\ rest = <<>> /\ piece = <<>>
  /\ blocks' = Append(blocks, Block(<<>>, TRUE))
  /\ done' = TRUE
  /\ UNCHANGED <<message, transfer, rest, data, piece, current>>

\* The source is exhausted: the piece read ahead is the last, and a message
\* without any is the block BDAT 0 LAST.
EndBdat ==
  /\ transfer = "bdat" /\ ~done /\ rest = <<>> /\ piece = <<>>
  /\ blocks' = Append(blocks, Block(current, TRUE))
  /\ done' = TRUE
  /\ UNCHANGED <<message, transfer, rest, data, piece, current>>
-----------------------------------------------------------------------------
Terminated == done /\ UNCHANGED vars

Next == WriteChunk \/ EndData \/ NextChunk \/ NextPiece \/ EndBdat \/ Terminated

Spec == Init /\ [][Next]_vars
-----------------------------------------------------------------------------
(* What a server makes of the bytes.  A strict one ends lines at CR LF, a    *)
(* lenient one at any LF.                                                   *)
Servers == {"strict", "lenient"}

LineStart(w, k, server) ==
  \/ k = 1
  \/ k > 1 /\ w[k - 1] = "LF"
     /\ (server = "lenient" \/ (k > 2 /\ w[k - 2] = "CR"))

\* Where a server that reads w sees the end of the data.
DataEnds(w, server) ==
  {k \in DOMAIN w : /\ w[k] = "." /\ LineStart(w, k, server)
                    /\ \/ SubSeq(w, k + 1, k + 2) = <<"CR", "LF">>
                       \/ server = "lenient" /\ SubSeq(w, k + 1, k + 1) = <<"LF">>}

\* What it keeps of data that ends before k: every line without its first dot.
Kept(w, k, server) ==
  FlattenSeq([j \in 1..(k - 1) |->
    IF w[j] = "." /\ LineStart(w, j, server) THEN <<>> ELSE <<w[j]>>])

\* The message with its last line ended.
EndsLine(m) == m = <<>> \/ (Len(m) >= 2 /\ SubSeq(m, Len(m) - 1, Len(m)) = <<"CR", "LF">>)
Whole(m) == IF EndsLine(m) THEN m ELSE m \o <<"CR", "LF">>

HasBareLf(m) ==
  \E k \in DOMAIN m : m[k] = "LF" /\ (k = 1 \/ m[k - 1] # "CR")

BytesOf(bs) == FlattenSeq([k \in DOMAIN bs |-> bs[k].bytes])

\* Every variable has its type.
TypeOK ==
  /\ message \in Messages /\ transfer \in {"data", "bdat"}
  /\ {rest, wire, piece, current} \subseteq Seq(Bytes)
  /\ {atLineStart, wrote, done} \subseteq BOOLEAN
  /\ {previous, last} \subseteq Bytes \cup {"none"}
  /\ blocks \in Seq([bytes : Seq(Bytes), isLast : BOOLEAN])

\* However the message is cut into chunks, no server sees the data end before
\* the terminator that sendData() writes, or misses that one; and what it then
\* un-stuffs is exactly the caller's message, its last line ended.  (A strict
\* server only when the message ends its lines with CR LF.)
DataIsTransparent ==
  done /\ transfer = "data" =>
    /\ \A server \in Servers : DataEnds(wire, server) = {Len(wire) - 2}
    /\ \A server \in IF HasBareLf(message) THEN {"lenient"} ELSE Servers :
         Kept(wire, Len(wire) - 2, server) = Whole(message)

\* What has been written depends on the bytes, not on where chunks were cut.
ChunkingInvisible ==
  ~done /\ transfer = "data" =>
    LET sent == SubSeq(message, 1, Len(message) - Len(rest)) IN
    /\ wire = DotStuff(sent, TRUE)
    /\ atLineStart = LineStartAfter(sent, TRUE)

\* BDAT carries every byte once, in blocks that never exceed ChunkSize, are
\* empty only for an empty message, and of which just the final one is LAST.
BdatIsComplete ==
  transfer = "bdat" =>
    /\ BytesOf(blocks) \o (IF done THEN <<>> ELSE current) \o piece \o rest = message
    /\ \A k \in DOMAIN blocks :
         /\ Len(blocks[k].bytes) <= ChunkSize
         /\ (blocks[k].bytes = <<>> => message = <<>>)
         /\ (blocks[k].isLast <=> (done /\ k = Len(blocks)))
    /\ (done => blocks # <<>>)
=============================================================================
