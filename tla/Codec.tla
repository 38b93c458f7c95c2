------------------------------- MODULE Codec --------------------------------
(***************************************************************************)
(* The decoders of the worker process, as operators: the scanner that cuts *)
(* the first JSON object out of an answer of Apple's and the decoder of    *)
(* its tokens (apple/tokens.cpp), and the payloads of a decrypt batch and  *)
(* of its answer, which one language encodes and the other decodes         *)
(* (ipc.cpp and rust/protocol.rs).                                         *)
(*                                                                         *)
(* A character that the scanner does not look at is "x".  A payload is     *)
(* a sequence of cells with the values 0 .. Base - 1: a u16 is one cell,   *)
(* a u32 is two, so its arithmetic overflows at Base * Base.               *)
(***************************************************************************)
EXTENDS Integers, SequencesExt

CONSTANTS
  Base,        \* bound: values of a cell
  MaxText,     \* bound: characters of an answer
  MaxPayload   \* kMaxPayload, in cells

ASSUME CodecAssumption ==
  Base \in Nat \ {0, 1} /\ MaxText \in Nat /\ MaxPayload \in Nat
-----------------------------------------------------------------------------
(* first_json_object().                                                    *)

Alphabet == {"{", "}", "\"", "\\", "x"}

Texts == BoundedSeq(Alphabet, MaxText)

\* One turn of the loop, after the return: nothing is read any more.
Turn(st, c) ==
  CASE st.found -> st
    [] ~st.found /\ st.in_str ->
         [st EXCEPT !.esc = ~st.esc /\ c = "\\",
                    !.in_str = st.esc \/ c # "\""]
    [] ~st.found /\ ~st.in_str ->
         LET depth == st.depth + (IF c = "{" THEN 1 ELSE 0)
                               - (IF c = "}" THEN 1 ELSE 0)
         IN  [st EXCEPT !.in_str = c = "\"", !.depth = depth,
                        !.found = c = "}" /\ depth = 0]

FirstJsonObject(s) ==
  LET start == SelectInSeq(s, LAMBDA c : c = "{")
      rest  == SubSeq(s, start, Len(s))
      first == [found |-> FALSE, depth |-> 0, in_str |-> FALSE, esc |-> FALSE]
      After(n) == FoldLeft(Turn, first, SubSeq(rest, 1, n))
      ends  == {n \in 1 .. Len(rest) : After(n).found}
  IN  IF start = 0 \/ ends = {} THEN <<>> ELSE SubSeq(rest, 1, Min(ends))

\* The grammar: a string ends at the first quote that no backslash escapes;
\* an object holds strings, objects and anything but a quote or a brace.
RECURSIVE StringTail(_), Items(_)
StringTail(t) ==
  /\ t # <<>>
  /\ \/ t = <<"\"">>
     \/ Head(t) = "\\" /\ Len(t) > 1 /\ StringTail(SubSeq(t, 3, Len(t)))
     \/ Head(t) \notin {"\\", "\""} /\ StringTail(Tail(t))

Items(t) ==
  \/ t = <<>>
  \/ Head(t) \notin {"{", "}", "\""} /\ Items(Tail(t))
  \/ \E n \in 2 .. Len(t) :
       /\ \/ Head(t) = "\"" /\ StringTail(SubSeq(t, 2, n))
          \/ Head(t) = "{" /\ t[n] = "}" /\ Items(SubSeq(t, 2, n - 1))
       /\ Items(SubSeq(t, n + 1, Len(t)))

IsObject(t) ==
  Len(t) > 1 /\ Head(t) = "{" /\ Last(t) = "}" /\ Items(Tail(Front(t)))

\* The scanner returns the text from the first brace to where the grammar
\* first closes the object, however braces, quotes and backslashes stand in
\* its strings, and nothing of an object that is cut off (tokens.cpp:44).
JsonScannerExact == \A s \in Texts :
  LET found == FirstJsonObject(s)
      start == SelectInSeq(s, LAMBDA c : c = "{")
      objects == {n \in start .. Len(s) : IsObject(SubSeq(s, start, n))}
  IN  found = IF start = 0 \/ objects = {} THEN <<>>
              ELSE SubSeq(s, start, Min(objects))
-----------------------------------------------------------------------------
(* base64url_decode().  A digit has three bits here instead of six, a byte *)
(* four instead of eight, and an int six instead of 32.                   *)

DigitSize == 8
ByteSize  == 16
IntSize   == 64

Digits == {"A", "B", "="}

\* The table has an entry for "=" too: padding is a digit.
DigitValue(c) == IF c = "B" THEN 5 ELSE 0

Encodings == BoundedSeq(Digits \cup {"\n", "!"}, MaxText)

\* The accumulator is never masked; what the int has no room for is lost.
Accumulate(st, c) ==
  CASE st.bad \/ c = "\n" -> st
    [] ~st.bad /\ c \notin Digits \cup {"\n"} -> [st EXCEPT !.bad = TRUE]
    [] OTHER ->
         LET val  == (st.val * DigitSize + DigitValue(c)) % IntSize
             bits == st.bits + 3
         IN  IF bits < 4 THEN [st EXCEPT !.val = val, !.bits = bits]
             ELSE [st EXCEPT !.val = val, !.bits = bits - 4,
                             !.out = Append(@, (val \div 2 ^ (bits - 4))
                                                 % ByteSize)]

Base64UrlDecode(s) ==
  LET start == [bad |-> FALSE, val |-> 0, bits |-> 0, out |-> <<>>]
      end   == FoldLeft(Accumulate, start, s)
  IN  IF end.bad THEN <<>> ELSE end.out

\* The decoder yields the whole bytes of the number that the digits write,
\* however long the text and however little an int holds, and nothing of a
\* text with a foreign character (tokens.cpp:128).
Base64Exact == \A s \in Encodings :
  LET digits == SelectSeq(s, LAMBDA c : c \in Digits)
      bits   == 3 * Len(digits)
      number == FoldLeft(LAMBDA n, c : n * DigitSize + DigitValue(c), 0, digits)
      bytes  == [k \in 1 .. bits \div 4 |->
                   (number \div 2 ^ (bits - 4 * k)) % ByteSize]
  IN  Base64UrlDecode(s) = IF "!" \in ToSet(s) THEN <<>> ELSE bytes
-----------------------------------------------------------------------------
(* The payload of a decrypt batch.                                         *)

Cells == 0 .. Base - 1

Payloads == BoundedSeq(Cells, MaxPayload)

ToU32(n) == <<n \div Base, n % Base>>

\* A cell at or past the end is whatever lies there.
CellAt(p, i) == IF i \in DOMAIN p THEN p[i] ELSE 1

ReadU32(p, i) == Base * CellAt(p, i) + CellAt(p, i + 1)

SumOf(lengths) == FoldLeft(LAMBDA a, n : a + n, 0, lengths)

\* The samples of the given lengths that follow each other from i on.
Cut(p, i, lengths) ==
  [k \in DOMAIN lengths |->
     LET from == i + SumOf(SubSeq(lengths, 1, k - 1))
     IN  SubSeq(p, from, from + lengths[k] - 1)]

Invalid == [ok |-> FALSE]

Batch(adam, uri, samples) ==
  [ok |-> TRUE, adam |-> adam, uri |-> uri, samples |-> samples]

\* The sizes are computed in 64 bits.
TableCells(count) == count * 2

ParseDecryptPayload(p) ==
  LET adam_len == p[1]
      uri_len  == p[2]
      count    == ReadU32(p, 3)
      fixed    == 4 + TableCells(count) + adam_len + uri_len
      lengths  == [k \in 1 .. count |-> ReadU32(p, 3 + 2 * k)]
      s        == 5 + TableCells(count)
  IN  IF Len(p) < 4 THEN Invalid
      ELSE IF \/ 0 \in {adam_len, uri_len, count}
              \/ fixed > Len(p)
              \/ \E k \in 1 .. count : lengths[k] = 0
              \/ SumOf(lengths) > MaxPayload
              \/ fixed + SumOf(lengths) # Len(p)
      THEN Invalid
      ELSE Batch(SubSeq(p, s, s + adam_len - 1),
                 SubSeq(p, s + adam_len, s + adam_len + uri_len - 1),
                 Cut(p, s + adam_len + uri_len, lengths))

\* decrypt_batch_payload() of the supervisor; it refuses what has no place
\* in the length fields.
LengthTable(samples) ==
  FlattenSeq([k \in DOMAIN samples |-> ToU32(Len(samples[k]))])

DecryptBatchPayload(adam, uri, samples) ==
  <<Len(adam), Len(uri)>> \o ToU32(Len(samples)) \o LengthTable(samples)
    \o adam \o uri \o FlattenSeq(samples)

\* build_decrypt_response_payload() of the worker.
DecryptResponsePayload(samples) ==
  ToU32(Len(samples)) \o LengthTable(samples) \o FlattenSeq(samples)

\* parse_decrypt_samples_payload() of the supervisor.
ParseDecryptSamples(p) ==
  LET count   == ReadU32(p, 1)
      lengths == [k \in 1 .. count |-> ReadU32(p, 1 + 2 * k)]
      offset  == 3 + 2 * count
  IN  IF \/ Len(p) < 2
         \/ Len(p) < 2 + 2 * count
         \/ offset - 1 + SumOf(lengths) # Len(p)
      THEN Invalid
      ELSE [ok |-> TRUE, samples |-> Cut(p, offset, lengths)]

\* Batches that decrypt_batch_payload() encodes, as short as they come.
Batches ==
  {b \in [adam : {<<1>>}, uri : {<<0>>},
          samples : BoundedSeq(BoundedSeq(Cells, 2) \ {<<>>}, 2) \ {<<>>}] :
     Len(DecryptBatchPayload(b.adam, b.uri, b.samples)) <= MaxPayload}

\* Both ends agree on every frame: the worker accepts just the payloads that
\* the supervisor encodes and finds in them what was put in, whatever the
\* length fields say, and the supervisor does with the answer
\* (ipc.cpp:435-489, protocol.rs:135-231).
FramesExact ==
  /\ \A b \in Batches :
       LET sent == DecryptBatchPayload(b.adam, b.uri, b.samples)
       IN  /\ ParseDecryptPayload(sent) = Batch(b.adam, b.uri, b.samples)
           /\ ParseDecryptSamples(DecryptResponsePayload(b.samples))
                = [ok |-> TRUE, samples |-> b.samples]
  /\ \A p \in Payloads :
       /\ LET r == ParseDecryptPayload(p)
          IN  r.ok => DecryptBatchPayload(r.adam, r.uri, r.samples) = p
       /\ LET r == ParseDecryptSamples(p)
          IN  r.ok => DecryptResponsePayload(r.samples) = p
=============================================================================
