--------------------------- MODULE StreamFraming ---------------------------
(***************************************************************************)
(* Envelopes on a stream of the libp2p back end (libp2p-signaling.ts): send *)
(* writes an envelope's JSON and a newline, and the handler reads whatever  *)
(* chunks the stream yields.  An envelope is the sequence of its pieces; a  *)
(* proper part of a JSON object does not parse.                             *)
(***************************************************************************)
EXTENDS SequencesExt

\* The members of a set of numbers, in order.
InOrder(S) ==
  [n \in 1 .. Cardinality(S) |-> CHOOSE k \in S : Cardinality({j \in S : j <= k}) = n]

Newline == "newline"

\* send
Write(envelopes) == FlattenSeq([n \in DOMAIN envelopes |-> Append(envelopes[n], Newline)])

\* text.split('\n')
Lines(chunk) ==
  LET ends == InOrder({k \in DOMAIN chunk : chunk[k] = Newline} \union {Len(chunk) + 1})
  IN [n \in DOMAIN ends |-> SubSeq(chunk, IF n = 1 THEN 1 ELSE ends[n - 1] + 1, ends[n] - 1)]

\* The handler's loop: each chunk by itself, and a line that does not parse, the
\* empty one included, is passed over.
Read(chunks, Envelope) ==
  FlattenSeq([n \in DOMAIN chunks |->
                SelectSeq(Lines(chunks[n]), LAMBDA line : line \in Envelope)])

\* External: the stream, cut after the given positions.
Cut(stream, cuts) ==
  LET ends == InOrder(cuts \union {Len(stream)})
  IN [n \in DOMAIN ends |-> SubSeq(stream, IF n = 1 THEN 1 ELSE ends[n - 1] + 1, ends[n])]

=============================================================================
