------------------------------ MODULE BodyPipe ------------------------------
(***************************************************************************)
(* BodyPipe (dsbox_net): the bounded pipe between the thread that streams  *)
(* a body and the thread that reads it.  The writer blocks while the pipe  *)
(* is full, the reader while it is empty; close(), finish() and fail() may *)
(* come from other threads at any time.  One condition variable serves     *)
(* both sides: read() and write() notify it after they unlock, the others  *)
(* before.                                                                 *)
(***************************************************************************)
EXTENDS Naturals, Sequences

CONSTANTS PipeSize,   \* BodyPipeState::capacity, 0 for unbounded
          MaxChunk,   \* bound: bytes in one write()
          MaxBytes    \* bound: bytes written altogether

\* Assumed of the constants.
PipeConstants == PipeSize \in Nat /\ MaxChunk \in Nat \ {0} /\ MaxBytes \in Nat

VARIABLES chunks,       \* BodyPipeState::chunks, each by its place in the stream and its size
          frontOffset,  \* bytes of the first one already read
          bufferedBytes, finished, failed, readerClosed,
          rpc,          \* the reader: out, in read(), asleep, about to notify
          wpc,          \* the writer: out, in write(), asleep, about to notify
          writing,      \* bytes the writer is writing
          written,      \* history: bytes accepted by write()
          got,          \* history: bytes returned by read()
          eof           \* history: whether read() returned 0, or threw

flags == <<finished, failed, readerClosed>>
data  == <<chunks, frontOffset, bufferedBytes>>
vars  == <<data, flags, rpc, wpc, writing, written, got, eof>>

Init ==
    /\ chunks = <<>> /\ frontOffset = 0 /\ bufferedBytes = 0
    /\ finished = FALSE /\ failed = FALSE /\ readerClosed = FALSE
    /\ rpc = "out" /\ wpc = "out" /\ writing = 0
    /\ written = 0 /\ got = 0 /\ eof = "no"

-----------------------------------------------------------------------------
\* What each side waits for.
ReaderWakes == chunks # <<>> \/ finished \/ failed \/ readerClosed
Over        == readerClosed \/ finished \/ failed
\* A mutated form: a pipe that is full takes one more write().
RoomForOne == bufferedBytes <= PipeSize
HasRoom     == bufferedBytes < PipeSize
WriterWakes == HasRoom \/ Over

\* cv.notify_all(): whoever sleeps looks at its predicate again.
WakeReader == rpc' = IF rpc = "asleep" THEN "in" ELSE rpc
WakeWriter == wpc' = IF wpc = "asleep" THEN "in" ELSE wpc
WakeAll    == WakeReader /\ WakeWriter

BeginRead ==
    /\ rpc = "out" /\ eof = "no"
    /\ rpc' = "in"
    /\ UNCHANGED <<data, flags, wpc, writing, written, got, eof>>

ReadWaits ==
    /\ rpc = "in" /\ ~ReaderWakes
    /\ rpc' = "asleep"
    /\ UNCHANGED <<data, flags, wpc, writing, written, got, eof>>

\* Nothing more comes: the reader has closed the pipe, or it is empty.
ReadEnds ==
    /\ rpc = "in" /\ ReaderWakes
    /\ readerClosed \/ chunks = <<>>
    /\ eof' = IF readerClosed THEN "closed" ELSE IF failed THEN "threw" ELSE "end"
    /\ rpc' = "out"
    /\ UNCHANGED <<data, flags, wpc, writing, written, got>>

\* Bytes of the first chunk, at most as many as the caller has room for.
ReadSome ==
    /\ rpc = "in" /\ chunks # <<>> /\ ~readerClosed
    /\ \E room \in 1 .. MaxChunk :
         LET available == chunks[1].size - frontOffset
             n == IF room < available THEN room ELSE available
         IN  /\ got' = got + n
             /\ bufferedBytes' = bufferedBytes - n
             /\ IF n = available
                THEN chunks' = Tail(chunks) /\ frontOffset' = 0
                ELSE frontOffset' = frontOffset + n /\ UNCHANGED chunks
    /\ rpc' = "notify"
    /\ UNCHANGED <<flags, wpc, writing, written, eof>>

ReadNotifies ==
    /\ rpc = "notify"
    /\ rpc' = "out" /\ WakeWriter
    /\ UNCHANGED <<data, flags, writing, written, got, eof>>

BeginWrite ==
    /\ wpc = "out" /\ ~Over
    /\ \E n \in 1 .. MaxChunk :
         written + n <= MaxBytes /\ writing' = n
    /\ wpc' = "in"
    /\ UNCHANGED <<data, flags, rpc, written, got, eof>>

WriteWaits ==
    /\ wpc = "in" /\ PipeSize > 0 /\ ~WriterWakes
    /\ wpc' = "asleep"
    /\ UNCHANGED <<data, flags, rpc, writing, written, got, eof>>

\* write() returns false: nobody will read what it brings.
WriteRefused ==
    /\ wpc = "in" /\ Over
    /\ wpc' = "out" /\ writing' = 0
    /\ UNCHANGED <<data, flags, rpc, written, got, eof>>

Write ==
    /\ wpc = "in" /\ ~Over /\ (PipeSize > 0 => HasRoom)
    /\ chunks' = Append(chunks, [from |-> written, size |-> writing])
    /\ bufferedBytes' = bufferedBytes + writing
    /\ written' = written + writing
    /\ wpc' = "notify" /\ writing' = 0
    /\ UNCHANGED <<frontOffset, flags, rpc, got, eof>>

WriteNotifies ==
    /\ wpc = "notify"
    /\ wpc' = "out" /\ WakeReader
    /\ UNCHANGED <<data, flags, writing, written, got, eof>>

\* The streaming thread is through, or somebody fails the pipe: the first of
\* the two stays.
Finish ==
    /\ wpc = "out" /\ ~finished /\ ~failed
    /\ finished' = TRUE /\ WakeAll
    /\ UNCHANGED <<data, failed, readerClosed, writing, written, got, eof>>

FailPipe ==
    /\ ~finished /\ ~failed
    /\ failed' = TRUE /\ WakeAll
    /\ UNCHANGED <<data, finished, readerClosed, writing, written, got, eof>>

\* A mutated form: close() wakes the reader only.
WakeOwnSide == WakeReader /\ UNCHANGED wpc
\* close(), also from the reader's own thread when the stream is destroyed.
WakeClosed == WakeAll
Close ==
    /\ ~readerClosed
    /\ readerClosed' = TRUE
    /\ chunks' = <<>> /\ bufferedBytes' = 0
    /\ WakeClosed
    /\ UNCHANGED <<frontOffset, finished, failed, writing, written, got, eof>>

Reading == ReadWaits \/ ReadEnds \/ ReadSome \/ ReadNotifies
Writing == WriteWaits \/ WriteRefused \/ Write \/ WriteNotifies

Next == BeginRead \/ Reading \/ BeginWrite \/ Writing \/ Finish \/ FailPipe \/ Close

\* A thread inside read() or write() goes on; there are finitely many bytes.
Fairness == WF_vars(Reading \/ Writing)
Spec == Init /\ [][Next]_vars /\ Fairness

-----------------------------------------------------------------------------
TypeOK ==
    /\ bufferedBytes \in Nat /\ frontOffset \in Nat
    /\ rpc \in {"out", "in", "asleep", "notify"}
    /\ wpc \in {"out", "in", "asleep", "notify"}

\* Nobody sleeps on a condition that holds, unless somebody is about to wake
\* him: the one condition variable is enough.
NoneSleepsOn ==
    /\ rpc = "asleep" /\ ReaderWakes => wpc = "notify"
    /\ wpc = "asleep" /\ WriterWakes => rpc = "notify"

\* The pipe holds the bytes that were written and not yet read, in their order and
\* none missing, as many as the counter says and less than the capacity and one
\* write(); all were read when the reader is told of the end.
End(c) == c.from + c.size
PipeExact ==
    /\ \A k \in 1 .. Len(chunks) - 1 : chunks[k + 1].from = End(chunks[k])
    /\ chunks # <<>> => chunks[1].from + frontOffset = got /\ End(chunks[Len(chunks)]) = written
    /\ ~readerClosed => bufferedBytes = written - got
    /\ ~readerClosed /\ chunks = <<>> => got = written
    /\ PipeSize > 0 => bufferedBytes < PipeSize + MaxChunk
    /\ eof = "end" => got = written /\ ~failed

Inv == TypeOK /\ NoneSleepsOn /\ PipeExact

\* Nobody waits for ever once the other side is gone.
Returns == finished \/ failed \/ readerClosed => rpc # "asleep" /\ wpc # "asleep"
EventuallyReturns == <>[]Returns
=============================================================================
