----------------------------- MODULE BatchPath ------------------------------
(***************************************************************************)
(* The way of a decrypt batch through both processes, as the arithmetic of *)
(* its payloads: a client's body is parsed by the front (main.rs for TCP,  *)
(* protocol.rs for HTTP), encoded for the worker (protocol.rs), parsed and *)
(* answered there (ipc.cpp), and the answer is parsed by the supervisor    *)
(* (protocol.rs).                                                          *)
(*                                                                         *)
(* Of a payload there is its size, its header, its table of lengths and    *)
(* where its builder put the samples; the bytes themselves are no matter.  *)
(* The client's table may hold anything, so an entry is chosen when it is  *)
(* read.  A u16, a u32 and a u64 have U16, U32 and U64 values.             *)
(***************************************************************************)
EXTENDS Integers, Sequences

CONSTANTS
  U16, U32, U64,
  kMaxPayload,    \* what the worker takes in one frame
  MAX_HTTP_BODY,
  MaxSample       \* 64 MiB, for one sample of a client's table

\* The values of the code satisfy this with 2^16, 2^32, 2^64, 2^28 and 2^26.
ASSUME BatchAssumption ==
  /\ {U16, U32, U64, kMaxPayload, MAX_HTTP_BODY, MaxSample} \subseteq Nat
  /\ U16 <= U32 /\ 12 + 7 * U32 <= U64
  /\ MAX_HTTP_BODY <= kMaxPayload /\ kMaxPayload < U32

VARIABLES
  at,       \* where the batch is, or how it ended
  via,      \* "tcp" or "http"
  size,     \* of the payload in hand, or of the part that is built
  adam_len, uri_len, sample_count,
  table,    \* the lengths that its builder wrote
  starts,   \* where its builder put the samples
  lengths,  \* the lengths that the parser has read, one per turn
  sample_bytes,
  offset,   \* where the next sample is cut
  samples,  \* where those before it were
  asked     \* history: the lengths in the client's body

header == <<adam_len, uri_len, sample_count>>
parsed == <<lengths, sample_bytes, offset, samples>>
vars == <<at, via, size, header, table, starts, parsed, asked>>

\* Refused by the front, by the encoder, by the worker's read_frame(), by its
\* handler, failed there, an answer that does not parse, and the good end.
Outcomes == {"rejected", "too_large", "closed", "invalid_frame",
             "decrypt_failed", "bad_answer", "answered"}

FrontSteps  == {"front.header", "front.table", "front.cut"}
WorkerSteps == {"worker.header", "worker.table", "worker.cut"}
ReplySteps  == {"reply.header", "reply.table", "reply.cut"}

Lengths == Seq(0 .. U32 - 1)

TypeOK ==
  /\ at \in {"idle", "encode", "encode.samples", "frame", "answer"}
              \cup FrontSteps \cup WorkerSteps \cup ReplySteps \cup Outcomes
  /\ via \in {"tcp", "http"}
  /\ size \in 0 .. U32 - 1 /\ adam_len \in Nat /\ uri_len \in Nat
  /\ sample_count \in 0 .. U32 - 1
  /\ table \in Lengths /\ lengths \in Lengths /\ asked \in Lengths
  /\ sample_bytes \in Nat /\ offset \in Nat
  /\ starts \in Seq(Nat) /\ samples \in Seq(Nat)

Init ==
  /\ at = "idle" /\ via = "tcp" /\ size = 0
  /\ adam_len = 0 /\ uri_len = 0 /\ sample_count = 0
  /\ table = <<>> /\ starts = <<>> /\ asked = <<>>
  /\ lengths = <<>> /\ sample_bytes = 0 /\ offset = 0 /\ samples = <<>>
-----------------------------------------------------------------------------
(* Steps that several parsers and builders have in common.                 *)

End(outcome) ==
  /\ at' = outcome
  /\ UNCHANGED <<via, size, header, table, starts, parsed, asked>>

Goto(step) ==
  at' = step /\ UNCHANGED <<via, size, header, table, starts, asked>>

Parsing(step) ==
  /\ Goto(step) /\ lengths' = <<>> /\ samples' = <<>>
  /\ UNCHANGED <<sample_bytes, offset>>

\* What the next turn of a loop over the table or the samples is about.
More(turns) == Len(turns) < sample_count
Length(turns) == lengths[Len(turns) + 1]

FirstEntry == table[1]
Entry == table[Len(lengths) + 1]

Read(n) == lengths' = Append(lengths, n) /\ UNCHANGED <<offset, samples>>

Cut(n) ==
  /\ samples' = Append(samples, offset) /\ offset' = offset + n
  /\ UNCHANGED <<lengths, sample_bytes>>

\* The samples follow what has been built, one after the other.
Build ==
  /\ More(starts)
  /\ starts' = Append(starts, size) /\ size' = size + Length(starts)
  /\ UNCHANGED <<at, via, header, table, parsed, asked>>
-----------------------------------------------------------------------------
(* The front: parse_decrypt_batch_payload() and parse_http_decrypt_batch().*)

\* A TCP frame has a u16 for each id, an HTTP body a u32; both a u32 count.
WithoutCount == IF via = "tcp" THEN 4 ELSE 8
HeaderBytes == IF via = "tcp" THEN 8 ELSE 12
IdLengths   == 0 .. (IF via = "tcp" THEN U16 ELSE U32) - 1

Receive(v, n) ==
  /\ at = "idle" /\ at' = "front.header" /\ via' = v /\ size' = n
  /\ UNCHANGED <<header, table, starts, parsed, asked>>

\* read_decrypt_frame() takes what the u32 in the frame's header says.
ReceiveTcp(n) == Receive("tcp", n)

\* A body is only read if content-length is within the limit.
ReceiveHttp(n) == n <= MAX_HTTP_BODY /\ Receive("http", n)

\* usize has 64 bits; a sum that does not fit is refused.
NarrowTable(count) == (count * 4) % U32
TableBytes(count) == count * 4

FixedEnd == HeaderBytes + TableBytes(sample_count) + adam_len + uri_len

FrontShort ==
  at = "front.header" /\ size < HeaderBytes /\ End("rejected")

FrontHeader(a, u, count) ==
  /\ at = "front.header" /\ size >= HeaderBytes
  /\ a \in IdLengths /\ u \in IdLengths
  /\ LET fixed_end == HeaderBytes + TableBytes(count) + a + u
     IN  IF 0 \in {a, u, count} \/ U64 <= fixed_end \/ size < fixed_end
         THEN End("rejected")
         ELSE /\ at' = "front.table"
              /\ adam_len' = a /\ uri_len' = u /\ sample_count' = count
              /\ UNCHANGED <<via, size, table, starts, parsed, asked>>

FrontEntry(n) ==
  /\ at = "front.table" /\ More(lengths)
  /\ IF n = 0 \/ n > MaxSample THEN End("rejected")
     ELSE Goto(at) /\ Read(n) /\ UNCHANGED sample_bytes

\* An id that is not UTF-8 is refused.
FrontIds ==
  /\ at = "front.table" /\ ~More(lengths)
  /\ \/ End("rejected")
     \/ Goto("front.cut") /\ offset' = FixedEnd
        /\ UNCHANGED <<lengths, sample_bytes, samples>>

FrontCut ==
  /\ at = "front.cut" /\ More(samples)
  /\ IF offset + Length(samples) > size THEN End("rejected")
     ELSE Goto(at) /\ Cut(Length(samples))

FrontEnd ==
  /\ at = "front.cut" /\ ~More(samples)
  /\ End(IF offset # size THEN "rejected" ELSE "encode")

Front ==
  \/ \E n \in 0 .. U32 - 1 : ReceiveTcp(n) \/ ReceiveHttp(n)
  \/ FrontShort
  \/ \E a, u, count \in 0 .. U32 - 1 : FrontHeader(a, u, count)
  \/ \E n \in 0 .. U32 - 1 : FrontEntry(n)
  \/ FrontIds \/ FrontCut \/ FrontEnd
-----------------------------------------------------------------------------
(* decrypt_batch() of the supervisor, and the frame.                       *)

ToU32(n) == n % U32

\* Without the first test the casts below would cut the ids' lengths.
AnyId == FALSE
IdTooLong == U16 <= adam_len \/ U16 <= uri_len

Encode ==
  /\ at = "encode"
  /\ IF \/ IdTooLong \/ sample_count = 0
        \/ \E k \in DOMAIN lengths : lengths[k] = 0
     THEN End("too_large")
     ELSE /\ at' = "encode.samples"
          /\ size' = 8 + TableBytes(sample_count) + adam_len + uri_len
          /\ adam_len' = adam_len % U16 /\ uri_len' = uri_len % U16
          /\ sample_count' = ToU32(sample_count)
          /\ table' = [k \in DOMAIN lengths |-> ToU32(lengths[k])]
          /\ starts' = <<>> /\ asked' = lengths
          /\ UNCHANGED <<via, parsed>>

EncodeSample == at = "encode.samples" /\ Build

\* write_frame() has a u32 for the size.
Send ==
  /\ at = "encode.samples" /\ ~More(starts)
  /\ End(IF U32 <= size THEN "too_large" ELSE "frame")

\* read_frame() of the worker, which ends when it is refused.
ReadFrame ==
  /\ at = "frame"
  /\ IF size > kMaxPayload THEN End("closed") ELSE Parsing("worker.header")

Supervisor == Encode \/ EncodeSample \/ Send \/ ReadFrame
-----------------------------------------------------------------------------
(* The worker: parse_decrypt_payload(), build_decrypt_response_payload().  *)

WorkerFixed ==
  (8 + (TableBytes(sample_count) % U64) + adam_len + uri_len) % U64

WorkerHeader ==
  /\ at = "worker.header"
  /\ IF \/ size < 8
        \/ 0 \in {adam_len, uri_len, sample_count}
        \/ WorkerFixed > size
     THEN End("invalid_frame")
     ELSE /\ Goto("worker.table") /\ sample_bytes' = 0
          /\ UNCHANGED <<lengths, offset, samples>>

WorkerEntry ==
  /\ at = "worker.table" /\ More(lengths)
  /\ LET total == (sample_bytes + Entry) % U64
     IN  IF Entry = 0 \/ total > kMaxPayload THEN End("invalid_frame")
         ELSE Goto(at) /\ Read(Entry) /\ sample_bytes' = total

WorkerSum ==
  /\ at = "worker.table" /\ ~More(lengths)
  /\ IF (WorkerFixed + sample_bytes) % U64 # size THEN End("invalid_frame")
     ELSE /\ Goto("worker.cut") /\ offset' = WorkerFixed
          /\ UNCHANGED <<lengths, sample_bytes, samples>>

\* Nothing is tested here any more.
WorkerCut ==
  /\ at = "worker.cut" /\ More(samples)
  /\ Goto(at) /\ Cut(Length(samples))

\* decrypt_samples() fails, or decrypts each sample in its place.
WorkerAnswer ==
  /\ at = "worker.cut" /\ ~More(samples)
  /\ \/ End("decrypt_failed")
     \/ /\ at' = "answer" /\ size' = 4 + 4 * Len(samples)
        /\ sample_count' = ToU32(Len(samples))
        /\ table' = [k \in DOMAIN lengths |-> ToU32(lengths[k])]
        /\ starts' = <<>>
        /\ UNCHANGED <<via, adam_len, uri_len, parsed, asked>>

AnswerSample == at = "answer" /\ Build

\* write_frame(): the size is cast to a u32.
WriteAnswer ==
  /\ at = "answer" /\ ~More(starts)
  /\ at' = "reply.header" /\ size' = ToU32(size)
  /\ lengths' = <<>> /\ samples' = <<>>
  /\ UNCHANGED <<via, header, table, starts, sample_bytes, offset, asked>>

Worker ==
  \/ WorkerHeader \/ WorkerEntry \/ WorkerSum \/ WorkerCut \/ WorkerAnswer
  \/ AnswerSample \/ WriteAnswer
-----------------------------------------------------------------------------
(* parse_decrypt_samples_payload() of the supervisor.                      *)

ReplyHeader ==
  /\ at = "reply.header"
  /\ End(IF size < 4 \/ size < 4 + TableBytes(sample_count) THEN "bad_answer"
         ELSE "reply.table")

ReplyEntry ==
  /\ at = "reply.table" /\ More(lengths)
  /\ Goto(at) /\ Read(Entry) /\ UNCHANGED sample_bytes

ReplyTable ==
  /\ at = "reply.table" /\ ~More(lengths)
  /\ Goto("reply.cut") /\ offset' = 4 + TableBytes(sample_count)
  /\ UNCHANGED <<lengths, sample_bytes, samples>>

ReplyCut ==
  /\ at = "reply.cut" /\ More(samples)
  /\ IF offset + Length(samples) > size THEN End("bad_answer")
     ELSE Goto(at) /\ Cut(Length(samples))

ReplyEnd ==
  /\ at = "reply.cut" /\ ~More(samples)
  /\ End(IF offset # size THEN "bad_answer" ELSE "answered")

Reply == ReplyHeader \/ ReplyEntry \/ ReplyTable \/ ReplyCut \/ ReplyEnd

\* The next batch.
Again ==
  /\ at \in Outcomes /\ at' = "idle" /\ via' = "tcp" /\ size' = 0
  /\ adam_len' = 0 /\ uri_len' = 0 /\ sample_count' = 0
  /\ table' = <<>> /\ starts' = <<>> /\ asked' = <<>>
  /\ lengths' = <<>> /\ sample_bytes' = 0 /\ offset' = 0 /\ samples' = <<>>

Next == Front \/ Supervisor \/ Worker \/ Reply \/ Again

Spec == Init /\ [][Next]_vars
-----------------------------------------------------------------------------
(* Properties.                                                             *)

EntryBase == IF at = "front.table" THEN HeaderBytes
             ELSE IF at = "worker.table" THEN 8 ELSE 4

\* No parser reads past its payload, whatever lengths and counts a client
\* sends: neither an entry of the table, which the two languages address
\* after a test of the sum alone, nor a sample, which the worker cuts without
\* a test of its own (main.rs:542, protocol.rs:206, ipc.cpp:454-471).
ReadsInside ==
  /\ at \in {"front.table", "worker.table", "reply.table"} /\ More(lengths) =>
       EntryBase + 4 * (Len(lengths) + 1) <= size
  /\ at = "worker.cut" /\ More(samples) =>
       offset + Length(samples) <= size

\* What the front accepts, the rest of the way accepts too: the encoder but
\* for an id of a long HTTP body, the worker but for a TCP frame that is larger
\* than it takes, the handler and the parser of its answer always
\* (main.rs:516, protocol.rs:135-231, ipc.cpp:435-489).
FrontDecides ==
  /\ at \notin {"invalid_frame", "bad_answer"}
  /\ at = "too_large" => via = "http" /\ IdTooLong
  /\ at = "closed" => via = "tcp" /\ size > kMaxPayload

\* Every parser finds the samples where its builder put them, with the lengths
\* that the client gave, through casts, sums and four tables
\* (protocol.rs:171-180, ipc.cpp:455-489).
SamplesFound ==
  /\ at \in WorkerSteps \cup ReplySteps \cup {"answered"} =>
       /\ \A k \in DOMAIN lengths : lengths[k] = asked[k]
       /\ \A k \in DOMAIN samples : samples[k] = starts[k]
  /\ at = "answered" => lengths = asked /\ Len(samples) = Len(asked)
=============================================================================
