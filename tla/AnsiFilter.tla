------------------------------ MODULE AnsiFilter ------------------------------
(***************************************************************************)
(* web_terminal_ansi_filter: what of the console output reaches a browser. *)
(* Text passes without control bytes, an escape sequence passes whole or   *)
(* not at all, and operating system commands (OSC) never pass.  The filter *)
(* is called with one read after the other, so a sequence may begin in one *)
(* call and end in a later one.  Bytes are reduced to the classes the code *)
(* tells apart, and are known by their position in the stream.             *)
(***************************************************************************)
EXTENDS Integers, Sequences

CONSTANTS
  SeqMax,    \* sizeof(state->sequence)
  InMax,     \* longest input of a call (WEB_TX_CHUNK_MAX)
  OutMax,    \* output_len of a call (WEB_TX_CHUNK_MAX as well)
  MaxBytes   \* bound: bytes filtered in one run of the model

ASSUME FilterAssumption ==
  /\ SeqMax \in Nat /\ SeqMax >= 2
  /\ InMax \in Nat \ {0} /\ OutMax \in Nat \ {0}
  /\ MaxBytes \in Nat

VARIABLES
  stream,    \* the bytes given to the filter in all its calls
  mode,      \* state->mode
  sequence,  \* state->sequence: positions of the bytes kept
  overlong,  \* state->sequence_dropped
  out,       \* positions of the bytes written in all calls
  taken,     \* bytes this call has read
  written,   \* bytes this call has written
  cut        \* a call had more to write than its output had room for

filterVars == <<stream, mode, sequence, overlong, out, taken, written, cut>>

ESC == "ESC"   \* 0x1b
BEL == "BEL"   \* 0x07
\* "A" stands for the other bytes in 0x40..0x7e, "0" for the rest of what is
\* shown as text, "NUL" for the rest of the control bytes.
ByteClass == {ESC, BEL, "NUL", "[", "]", "\\", "A", "0"}
SafeText == {"[", "]", "\\", "A", "0"}
CsiFinal == {"[", "]", "\\", "A"}

FilterInit ==
  /\ stream = <<>>
  /\ mode = "TEXT" /\ sequence = <<>> /\ overlong = FALSE
  /\ out = <<>> /\ taken = 0 /\ written = 0 /\ cut = FALSE

-----------------------------------------------------------------------------

\* write_byte, for each of the bytes in turn: those beyond the room are lost.
Emit(bytes) ==
  LET room == OutMax - written
      n    == IF Len(bytes) <= room THEN Len(bytes) ELSE room
  IN  /\ out' = out \o SubSeq(bytes, 1, n)
      /\ written' = written + n
      /\ cut' = (cut \/ n < Len(bytes))

EmitNothing == UNCHANGED <<out, written, cut>>

Keep(s, over) == sequence' = s /\ overlong' = over

\* Variant: a sequence that fills the buffer loses its last bytes only.
AppendedForgetful(p) ==
  IF Len(sequence) < SeqMax
  THEN [sequence |-> Append(sequence, p), overlong |-> overlong]
  ELSE [sequence |-> sequence, overlong |-> FALSE]

\* append_sequence.
Appended(p) ==
  IF Len(sequence) < SeqMax
  THEN [sequence |-> Append(sequence, p), overlong |-> overlong]
  ELSE [sequence |-> sequence, overlong |-> TRUE]

\* Variant: the sequence stays in the buffer after it is written.
FlushNoReset(kept) ==
  /\ Emit(IF kept.overlong THEN <<>> ELSE kept.sequence)
  /\ Keep(kept.sequence, FALSE)

\* flush_sequence.
Flush(kept) ==
  /\ Emit(IF kept.overlong THEN <<>> ELSE kept.sequence)
  /\ Keep(<<>>, FALSE)

\* The five cases of the switch, for the byte b at position p.
Text(b, p) ==
  /\ mode = "TEXT"
  /\ \/ /\ b = ESC
        /\ Keep(<<p>>, FALSE) /\ mode' = "ESC" /\ EmitNothing
     \/ /\ b # ESC
        /\ IF b \in SafeText THEN Emit(<<p>>) ELSE EmitNothing
        /\ UNCHANGED <<mode, sequence, overlong>>

Escape(b, p) ==
  /\ mode = "ESC"
  /\ \/ /\ b = "["
        /\ Keep(Appended(p).sequence, Appended(p).overlong) /\ mode' = "CSI" /\ EmitNothing
     \/ /\ b = "]"
        /\ Keep(<<>>, FALSE) /\ mode' = "OSC" /\ EmitNothing
     \/ /\ b = ESC
        /\ Keep(<<p>>, FALSE) /\ UNCHANGED mode /\ EmitNothing
     \/ /\ b \notin {"[", "]", ESC}
        /\ Flush(Appended(p)) /\ mode' = "TEXT"

Csi(b, p) ==
  /\ mode = "CSI"
  /\ \/ /\ b \in CsiFinal
        /\ Flush(Appended(p)) /\ mode' = "TEXT"
     \/ /\ b \notin CsiFinal
        /\ Keep(Appended(p).sequence, Appended(p).overlong)
        /\ UNCHANGED mode /\ EmitNothing

Osc(b) ==
  /\ mode = "OSC"
  /\ mode' = CASE b = BEL -> "TEXT" [] b = ESC -> "OSC_ESC" [] OTHER -> "OSC"
  /\ EmitNothing /\ UNCHANGED <<sequence, overlong>>

OscEsc(b) ==
  /\ mode = "OSC_ESC"
  /\ mode' = CASE b = "\\" -> "TEXT" [] b = ESC -> "OSC_ESC" [] OTHER -> "OSC"
  /\ EmitNothing /\ UNCHANGED <<sequence, overlong>>

\* One turn of the loop.
Filter(b) ==
  /\ taken < InMax /\ Len(stream) < MaxBytes
  /\ stream' = Append(stream, b)
  /\ taken' = taken + 1
  /\ LET p == Len(stream) + 1
     IN  Text(b, p) \/ Escape(b, p) \/ Csi(b, p) \/ Osc(b) \/ OscEsc(b)

\* The call returns and the next one begins, with an empty output buffer.
NextCall ==
  /\ taken > 0
  /\ taken' = 0 /\ written' = 0
  /\ UNCHANGED <<stream, mode, sequence, overlong, out, cut>>

FilterNext == (\E b \in ByteClass : Filter(b)) \/ NextCall

FilterSpec == FilterInit /\ [][FilterNext]_filterVars

-----------------------------------------------------------------------------
(* What the stream means, whatever the calls it comes in.                  *)

\* An OSC that starts at i is ended at j by BEL or by ESC \, and the filter
\* does not take a BEL right after an ESC for an end.
OscEnds(s, i, j) ==
  LET afterEsc == j - 1 > i + 1 /\ s[j - 1] = ESC
  IN  (s[j] = BEL /\ ~afterEsc) \/ (s[j] = "\\" /\ afterEsc)

\* An item is a byte of text or a sequence.  Item(s, i, j): one that starts at
\* i may end at j; the first such j is its end.
Item(s, i, j) ==
  IF s[i] # ESC THEN j = i
  ELSE /\ i < Len(s)
       /\ \/ s[i + 1] = ESC /\ j = i
          \/ s[i + 1] = "[" /\ j > i + 1 /\ s[j] \in CsiFinal
          \/ s[i + 1] = "]" /\ j > i + 1 /\ OscEnds(s, i, j)
          \/ s[i + 1] \notin {ESC, "[", "]"} /\ j = i + 1

Shown(s, i, j) ==
  IF i = j THEN s[i] \in SafeText
  ELSE s[i + 1] # "]" /\ j - i + 1 <= SeqMax

IsEnd(s, i, j) == Item(s, i, j) /\ \A k \in i .. j - 1 : ~Item(s, i, k)

\* Where the items start: at the beginning, and after the end of one before.
Starts(s) ==
  LET starts[i \in 1 .. Len(s) + 1] ==
        i = 1 \/ \E k \in 1 .. i - 1 : IsEnd(s, k, i - 1) /\ starts[k]
  IN  {i \in 1 .. Len(s) + 1 : starts[i]}

\* The positions of what the browsers are to get.
Visible(s) ==
  LET starts == Starts(s)
  IN  {p \in 1 .. Len(s) : \E i \in starts, j \in p .. Len(s) :
                            i <= p /\ IsEnd(s, i, j) /\ Shown(s, i, j)}

\* The state keeps its types: above all, the sequence never outgrows its
\* buffer, nor the output its own.
FilterTypeOK ==
  /\ stream \in Seq(ByteClass)
  /\ mode \in {"TEXT", "ESC", "CSI", "OSC", "OSC_ESC"}
  /\ sequence \in Seq(1 .. MaxBytes) /\ Len(sequence) <= SeqMax
  /\ overlong \in BOOLEAN /\ cut \in BOOLEAN
  /\ out \in Seq(1 .. MaxBytes)
  /\ taken \in 0 .. InMax /\ written \in 0 .. OutMax

Increasing(s) == \A i, j \in 1 .. Len(s) : i < j => s[i] < s[j]
Positions(s) == {s[k] : k \in 1 .. Len(s)}

\* The browsers get the visible items of the stream, each whole and in order,
\* wherever one call ended and the next began: a sequence cut in two by a read
\* is neither lost nor shown in part.
CallsDoNotMatter ==
  ~cut => Increasing(out) /\ Positions(out) = Visible(stream)

\* What has been written, and what may still be of it.
Passed == out \o sequence

\* A turn adds its own byte at most, at the end, and otherwise leaves out.
OnlyLeavesOut ==
  /\ Increasing(Passed')
  /\ Positions(Passed') \subseteq Positions(Passed) \cup {Len(stream')}

\* Even when the output is too small, bytes are only left out: none is
\* repeated or overtaken, also not by the sequence that is kept, and a byte
\* neither written nor kept is gone: no later call brings it back.
OrderKept == [][OnlyLeavesOut]_filterVars
=============================================================================
