------------------------------- MODULE Ranges -------------------------------
(***************************************************************************)
(* The range sets of a slice query: from the holes of a resume bitfield to *)
(* the selector a client sends (resume.rs, client.rs, keys.rs) and back to *)
(* the spans a server works through (keys.rs).                             *)
(*                                                                         *)
(* A span <<s, e>> stands for the chunks s..e-1.  A selector is the        *)
(* sequence of its comma-separated words: <<k>> is written "k", <<s, e>>   *)
(* is written "s-e".                                                       *)
(***************************************************************************)
EXTENDS Integers, Sequences, FiniteSets, SequencesExt

CONSTANT MaxSpans   \* MAX_RANGE_SPANS (128 in the code)

ASSUME SpanAssumption == MaxSpans \in Nat \ {0}

\* The chunks a sequence of spans stands for.
Covered(spans) == UNION {spans[k][1]..(spans[k][2] - 1) : k \in DOMAIN spans}

\* The sum of a sequence of numbers.
Total(c) ==
  LET sum[k \in 0..Len(c)] == IF k = 0 THEN 0 ELSE sum[k-1] + c[k]
  IN  sum[Len(c)]

\* Vec::retain: the elements that are in the set kept, in their order.
Retain(seq, kept) ==
  LET out[k \in 0..Len(seq)] ==
        IF k = 0 THEN <<>>
        ELSE IF seq[k] \in kept THEN Append(out[k-1], seq[k]) ELSE out[k-1]
  IN  out[Len(seq)]

NonEmpty(spans) == {r \in Range(spans) : r[1] < r[2]}

Truncated(seq, n) == SubSeq(seq, 1, IF Len(seq) < n THEN Len(seq) ELSE n)

-----------------------------------------------------------------------------
(* The client: which holes to ask for, and how to write them down *)

\* The spans with one more chunk: the last one grows, or a new one starts.
Extended(spans, i) ==
  IF spans # <<>> /\ Last(spans)[2] = i
    THEN [spans EXCEPT ![Len(spans)] = <<@[1], i + 1>>]
    ELSE Append(spans, <<i, i + 1>>)

\* ResumeState::missing_ranges: the runs of unset bits, ascending.
MissingRanges(bits, count) ==
  LET out[i \in 0..count] ==
        IF i = 0 THEN <<>>
        ELSE IF i - 1 \in bits THEN out[i-1] ELSE Extended(out[i-1], i - 1)
  IN  out[count]

ClampNothing(spans, budget) == spans

\* The loop of fill_holes that shortens spans until the budget is spent; the
\* spans left empty are dropped.
Clamp(spans, budget) ==
  LET left[k \in 0..Len(spans)] ==
        IF k = 0 THEN budget
        ELSE LET len == spans[k][2] - spans[k][1]
             IN  IF len < left[k-1] THEN left[k-1] - len ELSE 0
      short == [k \in DOMAIN spans |-> <<spans[k][1], spans[k][1] + left[k-1] - left[k]>>]
  IN  Retain(short, NonEmpty(short))

\* fill_holes: the holes one query asks for.
Holes(bits, count, budget) == Clamp(Truncated(MissingRanges(bits, count), MaxSpans), budget)

\* coalesce: adjacent indices become one span, nothing else does (an index
\* that repeats its predecessor starts a second span over the same chunk).
Coalesce(indices) ==
  LET spans[k \in 0..Len(indices)] ==
        IF k = 0 THEN <<>>
        ELSE Extended(spans[k-1], indices[k])
  IN  Truncated(spans[Len(indices)], MaxSpans)

\* format_ranges: empty spans are skipped, one chunk is written as its index.
FormatRanges(spans) ==
  LET full == Retain(spans, NonEmpty(spans))
  IN  [k \in DOMAIN full |-> IF full[k][2] = full[k][1] + 1 THEN <<full[k][1]>> ELSE full[k]]

-----------------------------------------------------------------------------
(* The server *)

\* One word of the selector; a bare index is k..k+1 (the overflow of k+1 that
\* checked_add refuses is past the chunk count as well).
WordSpan(w) == IF Len(w) = 1 THEN <<w[1], w[1] + 1>> ELSE w

Asked(spans) == Total([k \in DOMAIN spans |-> spans[k][2] - spans[k][1]])

\* parse_ranges: whether the words are accepted (an empty selector is not).
Accepts(words, count, cap) ==
  LET s == [k \in DOMAIN words |-> WordSpan(words[k])]
  IN  /\ words # <<>> /\ Len(words) <= MaxSpans
      /\ \A k \in DOMAIN s :
           /\ s[k][1] < s[k][2] /\ s[k][2] <= count
           /\ k > 1 => s[k][1] >= s[k-1][2]
      /\ Asked(s) <= cap

\* parse_ranges: the spans of an accepted selector.
ParseRanges(words) == [k \in DOMAIN words |-> WordSpan(words[k])]
=============================================================================
