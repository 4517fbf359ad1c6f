---------------------------- MODULE TraceStore ----------------------------
(***************************************************************************)
(* The daemon's trace store (internal/daemon/tracestore.go): a ring buffer *)
(* of spans with an index from a trace ID to the ring positions that hold  *)
(* its spans.  When the ring is full a new span overwrites the oldest one, *)
(* and the index entry of the overwritten span has to go with it.  Record  *)
(* and GetTrace run under the store's lock, so each is one step.           *)
(***************************************************************************)
EXTENDS Integers, Sequences, SequencesExt

CONSTANTS
    Traces,        \* trace IDs
    TraceCapacity, \* slots of the ring
    MaxSpans       \* bound on the number of spans recorded

ASSUME TraceAssumption == TraceCapacity \in Nat \ {0} /\ MaxSpans \in Nat

VARIABLES
    spans,    \* the ring: position -> span, NoSpan where nothing was written
    index,    \* trace ID -> positions of its spans, oldest first; a trace
              \* without an entry is absent from the domain
    head,     \* next position to write
    count,    \* spans written since the start
    recorded  \* history: every span, in the order of Record

traceVars == <<spans, index, head, count, recorded>>

Positions == 0 .. TraceCapacity - 1
NoSpan == [trace |-> "none", id |-> 0]
Span(t, n) == [trace |-> t, id |-> n]

TraceInit ==
    /\ spans = [p \in Positions |-> NoSpan]
    /\ index = << >>
    /\ head = 0
    /\ count = 0
    /\ recorded = << >>

PositionsOf(ix, t) == IF t \in DOMAIN ix THEN ix[t] ELSE << >>

SetEntry(ix, t, ps) ==
    [u \in DOMAIN ix \cup {t} |-> IF u = t THEN ps ELSE ix[u]]

\* The first occurrence of the position goes; an empty entry is deleted.
removeIndexEntry(ix, t, p) ==
    LET left == RemoveFirst(PositionsOf(ix, t), p) IN
    IF left = << >> THEN [u \in DOMAIN ix \ {t} |-> ix[u]]
    ELSE SetEntry(ix, t, left)

\* Variant: the ring is taken for full one span too late.
Record_Late(t) ==
    LET span == Span(t, count + 1)
        full == count > TraceCapacity
        ix == IF full /\ spans[head] # NoSpan
              THEN removeIndexEntry(index, spans[head].trace, head) ELSE index
    IN /\ count < MaxSpans
       /\ spans' = [spans EXCEPT ![head] = span]
       /\ index' = SetEntry(ix, t, Append(PositionsOf(ix, t), head))
       /\ head' = (head + 1) % TraceCapacity
       /\ count' = count + 1
       /\ recorded' = Append(recorded, span)

\* Record, as RecordSpan calls it with a fresh span of trace t.
Record(t) ==
    LET span == Span(t, count + 1)
        full == count >= TraceCapacity
        ix == IF full /\ spans[head] # NoSpan
              THEN removeIndexEntry(index, spans[head].trace, head) ELSE index
    IN /\ count < MaxSpans
       /\ spans' = [spans EXCEPT ![head] = span]
       /\ index' = SetEntry(ix, t, Append(PositionsOf(ix, t), head))
       /\ head' = (head + 1) % TraceCapacity
       /\ count' = count + 1
       /\ recorded' = Append(recorded, span)

\* What a trace query answers: the spans at the indexed positions, in the
\* order of the index, skipping positions that hold another trace's span.
GetTrace(t) ==
    LET OfTrace(s) == s.trace = t
        ps == PositionsOf(index, t)
    IN SelectSeq([i \in DOMAIN ps |-> spans[ps[i]]], OfTrace)

TraceNext == \E t \in Traces : Record(t)

TraceSpec == TraceInit /\ [][TraceNext]_traceVars

-----------------------------------------------------------------------------
\* The ring, the index and the write position have their types.
TraceTypeOK ==
    /\ spans \in [Positions -> {NoSpan} \cup [trace : Traces, id : 1 .. MaxSpans]]
    /\ DOMAIN index \subseteq Traces
    /\ \A t \in DOMAIN index : Range(index[t]) \subseteq Positions
    /\ head \in Positions
    /\ count \in 0 .. MaxSpans

\* A query for a trace (GetTrace) returns exactly the spans of that trace
\* among the last TraceCapacity spans recorded, each once, in the order they
\* were recorded: overwriting a slot of the ring never leaves an index entry
\* that returns another span, a span twice or a span out of order.
TraceIsWindow ==
    LET OfTrace(t, s) == s.trace = t
        n == Len(recorded)
        window == SubSeq(recorded, IF n > TraceCapacity THEN n - TraceCapacity + 1 ELSE 1, n)
    IN \A t \in Traces :
          GetTrace(t) = SelectSeq(window, LAMBDA s : OfTrace(t, s))

\* The index holds no entry for a trace that has left the ring, and no more
\* positions than the ring has slots (removeIndexEntry): however many traces
\* pass through a daemon, the store's memory is bounded by its capacity.
IndexIsBounded ==
    /\ \A t \in DOMAIN index : \E p \in Positions : spans[p].trace = t
    /\ \A t \in DOMAIN index : Len(index[t]) <= TraceCapacity

\* A query answers with the spans of its trace that are left in the ring, and
\* the index grows no further than the ring (Record, GetTrace).
TracesAreWindows == TraceTypeOK /\ TraceIsWindow /\ IndexIsBounded
===========================================================================
