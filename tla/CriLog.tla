------------------------------- MODULE CriLog --------------------------------
(***************************************************************************)
(* How the log runner turns what a container writes into CRI log records    *)
(* (mkga_cri_log_* and the drain loop of mkga_ctr_exec_to_cri_log).  Two    *)
(* pipes are read in turns, in pieces of any size; each stream collects a   *)
(* line in a buffer of LineBuf characters.  A record is tagged "F" when it  *)
(* ends a line and "P" when the line goes on.  A character is NL or not;    *)
(* the time stamp is left out.                                             *)
(***************************************************************************)
EXTENDS Naturals, Sequences, SequencesExt

CONSTANTS
  LineBuf,     \* sizeof(stream->pending)
  OutLen,      \* bound: characters on stdout
  ErrLen       \* bound: characters on stderr

Stream == {"stdout", "stderr"}
NL     == "nl"
Char   == {"x", NL}

VARIABLES
  written,     \* what the container writes to each stream, all of it
  taken,       \* characters read so far
  pending,     \* the stream's unfinished line
  records,     \* the log file
  ended        \* both streams are at their end and flushed

lvars == <<written, taken, pending, records, ended>>

CriLogInit ==
  /\ written \in {[stdout |-> o, stderr |-> e] :
                    o \in BoundedSeq(Char, OutLen), e \in BoundedSeq(Char, ErrLen)}
  /\ taken = [s \in Stream |-> 0]
  /\ pending = [s \in Stream |-> <<>>]
  /\ records = <<>>
  /\ ended = FALSE

\* The log and the line buffer of one stream, while a piece is handled.
Flushed(l, s, tag) ==
  IF l.line = <<>> THEN l
  ELSE [log  |-> Append(l.log, [stream |-> s, tag |-> tag, text |-> l.line]),
        line |-> <<>>]

MutAppendChar(l, s, ch) ==  \* a full buffer ends the line
  IF ch = NL THEN Flushed(l, s, "F")
  ELSE LET m == IF Len(l.line) >= LineBuf THEN Flushed(l, s, "F") ELSE l
       IN  [m EXCEPT !.line = Append(@, ch)]

AppendChar(l, s, ch) ==
  IF ch = NL THEN Flushed(l, s, "F")
  ELSE LET m == IF Len(l.line) >= LineBuf THEN Flushed(l, s, "P") ELSE l
       IN  [m EXCEPT !.line = Append(@, ch)]

\* mkga_cri_log_append_chunk.
AppendChunk(l, s, chunk) ==
  FoldLeft(LAMBDA m, ch : AppendChar(m, s, ch), l, chunk)

\* A read returns some of what is left in the pipe.
ReadPipe(s) ==
  /\ taken[s] < Len(written[s])
  /\ \E n \in (taken[s] + 1)..Len(written[s]) :
       LET l == AppendChunk([log |-> records, line |-> pending[s]], s,
                            SubSeq(written[s], taken[s] + 1, n))
       IN  /\ taken' = [taken EXCEPT ![s] = n]
           /\ records' = l.log
           /\ pending' = [pending EXCEPT ![s] = l.line]
  /\ UNCHANGED <<written, ended>>

\* Both pipes are closed and ctr was reaped: the rest is flushed.
EndLog ==
  /\ ~ended
  /\ \A s \in Stream : taken[s] = Len(written[s])
  /\ LET o == Flushed([log |-> records, line |-> pending["stdout"]], "stdout", "F")
         e == Flushed([log |-> o.log, line |-> pending["stderr"]], "stderr", "F")
     IN  records' = e.log
  /\ pending' = [s \in Stream |-> <<>>]
  /\ ended' = TRUE
  /\ UNCHANGED <<written, taken>>

CriLogNext == (\E s \in Stream : ReadPipe(s)) \/ EndLog

------------------------------------------------------------------------------
(* Properties.                                                             *)

\* What a reader of the log makes of a stream's records.
Rendered(s) ==
  FlattenSeq([i \in 1..Len(records) |->
    IF records[i].stream # s THEN <<>>
    ELSE IF records[i].tag = "F" THEN Append(records[i].text, NL)
    ELSE records[i].text])

\* Text without its empty lines, which the code never records.
NoEmptyLines(t) ==
  LET ends == {i \in 1..Len(t) : t[i] = NL /\ (i = 1 \/ t[i - 1] = NL)}
  IN  FlattenSeq([i \in 1..Len(t) |-> IF i \in ends THEN <<>> ELSE <<t[i]>>])

\* The log is faithful: at every moment each stream's records, with the line in
\* its buffer, spell what was read from that stream without its empty lines,
\* however the reads were cut and the streams interleaved; at the end the last
\* line counts as complete.
LogFaithful ==
  \A s \in Stream :
    LET t == NoEmptyLines(SubSeq(written[s], 1, taken[s]))
        r == Rendered(s) \o pending[s]
    IN  r = t \/ (ended /\ r = Append(t, NL))
==============================================================================
