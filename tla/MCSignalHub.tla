---------------------------- MODULE MCSignalHub ----------------------------
(* A small instance of SignalHub: two peers, one of them in two tabs.  And  *)
(* the other back end's framing on all short streams.                       *)
EXTENDS SignalHub, StreamFraming

CONSTANTS a, b, b2, id1, id2

MCClient == {a, b, b2}
MCId == {id1, id2}
MCMaxSockets == [c \in MCClient |-> IF c = b THEN 3 ELSE 1]
MCIdOf == [c \in MCClient |-> IF c = a THEN id1 ELSE id2]

-----------------------------------------------------------------------------
(* Two envelopes, of two pieces and of three *)
Pieces == {<<"{1", "1}">>, <<"{2", "-2-", "2}">>}

\* Where the n-th of these envelopes lies in their stream.
First(envelopes, n) == Len(Write(SubSeq(envelopes, 1, n - 1))) + 1
Span(envelopes, n) == First(envelopes, n) .. First(envelopes, n) + Len(envelopes[n]) - 1

\* However a stream is cut into chunks, what is read are the envelopes that lie in
\* one chunk, each once and in order; one that is cut is lost, and takes no other
\* with it.
ASSUME WholeOrNothing ==
  \A envelopes \in SeqOf(Pieces, 2) :
    LET stream == Write(envelopes)
    IN stream # <<>> =>
         \A cuts \in SUBSET (1 .. Len(stream) - 1) :
           LET whole(n) == \A k \in cuts : ~(k \in Span(envelopes, n) /\ k + 1 \in Span(envelopes, n))
           IN Read(Cut(stream, cuts), Pieces)
                = FlattenSeq([n \in DOMAIN envelopes |->
                                IF whole(n) THEN <<envelopes[n]>> ELSE <<>>])

=============================================================================
