------------------------------ MODULE Chunker ------------------------------
(***************************************************************************)
(* How a file is cut into chunks.  A file is a sequence of lines: the      *)
(* beginning of a definition, other code, or blank.  A chunk knows the     *)
(* line its buffer began with and the numbers of the lines it contains.    *)
(***************************************************************************)
EXTENDS Naturals, SequencesExt

CONSTANT MaxLines   \* max_lines (80)

ASSUME ChunkerAssumption == MaxLines \in Nat \ {0}

\* strip() takes the blank lines at both ends away
Strip(lines, buf) ==
    LET text == {i \in DOMAIN buf : lines[buf[i]] # "blank"}
    IN  {buf[i] : i \in {j \in DOMAIN buf : \E m, n \in text : m <= j /\ j <= n}}

\* A chunk without text is dropped.
Flush(chunks, lines, buf, start) ==
    LET content == Strip(lines, buf)
    IN  IF content = {} THEN chunks ELSE Append(chunks, [start |-> start, content |-> content])

\* Mutant: the line after a full buffer counts as the full buffer's last.
ChunkLine_sameStart(state, lines, i) ==
    LET cut  == lines[i] = "def" /\ Len(state.buf) >= 3
        open == IF cut
                THEN [chunks |-> Flush(state.chunks, lines, state.buf, state.start),
                      buf |-> <<i>>, start |-> i]
                ELSE [state EXCEPT !.buf = Append(@, i)]
    IN  IF Len(open.buf) >= MaxLines
        THEN [chunks |-> Flush(open.chunks, lines, open.buf, open.start),
              buf |-> <<>>, start |-> i]
        ELSE open

ChunkLine(state, lines, i) ==
    LET cut  == lines[i] = "def" /\ Len(state.buf) >= 3
        open == IF cut
                THEN [chunks |-> Flush(state.chunks, lines, state.buf, state.start),
                      buf |-> <<i>>, start |-> i]
                ELSE [state EXCEPT !.buf = Append(@, i)]
    IN  IF Len(open.buf) >= MaxLines
        THEN [chunks |-> Flush(open.chunks, lines, open.buf, open.start),
              buf |-> <<>>, start |-> i + 1]
        ELSE open

ChunkFile(lines) ==
    LET end == FoldLeft(LAMBDA state, i : ChunkLine(state, lines, i),
                        [chunks |-> <<>>, buf |-> <<>>, start |-> 1],
                        [i \in DOMAIN lines |-> i])
    IN  Flush(end.chunks, lines, end.buf, end.start)
-----------------------------------------------------------------------------
\* What a reader of the chunks relies on: each line with text is in exactly one chunk,
\* and in order; no chunk is longer than MaxLines; between start_line and its text a
\* chunk has only blank lines; and a definition is at most the third line of its chunk.
ChunksOf(lines, chunks) ==
    LET Text == {i \in DOMAIN lines : lines[i] # "blank"} IN
    /\ \A i \in Text : \E c \in DOMAIN chunks : i \in chunks[c].content
    /\ \A c \in DOMAIN chunks :
          LET first == CHOOSE i \in chunks[c].content : \A j \in chunks[c].content : i <= j
          IN  /\ \A i \in chunks[c].content : i < chunks[c].start + MaxLines
              /\ chunks[c].start <= first
              /\ \A i \in chunks[c].start..(first - 1) : lines[i] = "blank"
              /\ \A i \in chunks[c].content : lines[i] = "def" => i < chunks[c].start + 3
    /\ \A c \in DOMAIN chunks, d \in DOMAIN chunks :
          c < d => \A i \in chunks[c].content, j \in chunks[d].content : i < j
=============================================================================
