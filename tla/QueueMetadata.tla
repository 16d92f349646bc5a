--------------------------- MODULE QueueMetadata ---------------------------
(***************************************************************************)
(* The queue metadata codec of queue_metadata.go: FormatQueueMetadata,     *)
(* ParseQueueMetadata and StripQueueMetadata, and the way enqueueBead,     *)
(* the auto-convoy re-persist and recordDispatchFailure append a block to  *)
(* a stripped description.                                                 *)
(*                                                                         *)
(* A description is a string abstracted to a sequence of tokens: user      *)
(* text, a newline, the ---gt:queue:v1--- delimiter (which may sit in the   *)
(* middle of a line of user text, as strings.Index allows) and a "key:     *)
(* value" run.  Whitespace is left out, so TrimSpace is the identity; a     *)
(* key-value token never shares a line with another token.                 *)
(*                                                                         *)
(* Of the QueueMetadata struct the fields the queue reads or writes are    *)
(* kept: target_rig (dispatch quarantines a bead without it), vars (the    *)
(* one field with a list format), convoy (the re-persist), dispatch_       *)
(* failures (the circuit breaker) and last_failure.  The other string and  *)
(* bool fields are formatted and parsed the same way and are passed to     *)
(* the executor unread.                                                    *)
(***************************************************************************)
EXTENDS Integers, Sequences
LOCAL INSTANCE SequencesExt
LOCAL INSTANCE TLC

CONSTANT NoMeta    \* ParseQueueMetadata's nil

\* Tokens of a description; a key-value token holds its key and the text
\* of its value.
Tok(kind) == [kind |-> kind, key |-> "", val |-> ""]
Text  == Tok("text")
NL    == Tok("nl")
Delim == Tok("delim")     \* queueMetadataDelimiter
KV(k, v) == [kind |-> "kv", key |-> k, val |-> v]

\* fmt's %d, and strconv.Atoi over the values a bounded model can hold.
Itoa(n) == ToString(n)
AtoiRange == -1..9
AtoiOk(v) == \E n \in AtoiRange : Itoa(n) = v
Atoi(v) == CHOOSE n \in AtoiRange : Itoa(n) = v

\* QueueMetadata with every field at its zero value.
EmptyMeta == [target_rig |-> "", vars |-> <<>>, convoy |-> "",
              failures |-> 0, last_failure |-> ""]

\* NewQueueMetadata(rigName); EnqueuedAt is not modelled.
NewQueueMetadata(rig) == [EmptyMeta EXCEPT !.target_rig = rig]

\* strings.Index(description, queueMetadataDelimiter), 1-based, 0 = absent.
DelimIndex(d) == SelectInSeq(d, LAMBDA t : t = Delim)

\* strings.Join(lines, "\n") of one-token lines.
JoinLines(ls) == [i \in 1..(2 * Len(ls) - 1) |->
                    IF i % 2 = 1 THEN ls[(i + 1) \div 2] ELSE NL]

\* strings.Split(s, "\n").
RECURSIVE SplitLines(_)
SplitLines(s) ==
    LET i == SelectInSeq(s, LAMBDA t : t = NL) IN
    IF i = 0 THEN <<s>>
    ELSE <<SubSeq(s, 1, i - 1)>> \o SplitLines(SubSeq(s, i + 1, Len(s)))

\* strings.TrimRight(s, "\n").
RECURSIVE TrimRightNL(_)
TrimRightNL(s) == IF s # <<>> /\ Last(s) = NL THEN TrimRightNL(Front(s)) ELSE s

\* A line for a field that is written only when it is set.
Field(key, val, set) == IF set THEN <<KV(key, val)>> ELSE <<>>

\* Mutant: the failure count written only from two failures on.
FormatQueueMetadataFailuresFromTwo(m) ==
    LET vs == SelectSeq(m.vars, LAMBDA v : v # "") IN
    JoinLines(<<Delim>>
              \o Field("target_rig", m.target_rig, m.target_rig # "")
              \o [i \in 1..Len(vs) |-> KV("var", vs[i])]
              \o Field("convoy", m.convoy, m.convoy # "")
              \o Field("dispatch_failures", Itoa(m.failures), m.failures > 1)
              \o Field("last_failure", m.last_failure, m.last_failure # ""))

\* FormatQueueMetadata: the delimiter, then one line per set field in
\* struct order; each non-blank var on a "var:" line of its own.
FormatQueueMetadata(m) ==
    LET vs == SelectSeq(m.vars, LAMBDA v : v # "") IN
    JoinLines(<<Delim>>
              \o Field("target_rig", m.target_rig, m.target_rig # "")
              \o [i \in 1..Len(vs) |-> KV("var", vs[i])]
              \o Field("convoy", m.convoy, m.convoy # "")
              \o Field("dispatch_failures", Itoa(m.failures), m.failures > 0)
              \o Field("last_failure", m.last_failure, m.last_failure # ""))

\* One key of the parse switch; unknown keys are ignored, and a
\* dispatch_failures value that strconv.Atoi rejects leaves the count.
SetKey(m, k, v) ==
    CASE k = "target_rig"        -> [m EXCEPT !.target_rig = v]
      [] k = "var"               -> [m EXCEPT !.vars = Append(@, v)]
      [] k = "convoy"            -> [m EXCEPT !.convoy = v]
      [] k = "dispatch_failures" -> IF AtoiOk(v) THEN [m EXCEPT !.failures = Atoi(v)] ELSE m
      [] k = "last_failure"      -> [m EXCEPT !.last_failure = v]
      [] OTHER                   -> m

\* One line of the section: blank lines are skipped, a second delimiter
\* ends the section, a line that does not split on ": " is skipped.
ParseLine(acc, line) ==
    CASE acc.stop \/ line = <<>> -> acc
      [] line = <<Delim>>        -> [acc EXCEPT !.stop = TRUE]
      [] Len(line) = 1 /\ line[1].kind = "kv" ->
             [acc EXCEPT !.m = SetKey(@, line[1].key, line[1].val)]
      [] OTHER                   -> acc

\* ParseQueueMetadata: nil without a delimiter; otherwise the lines after
\* the first delimiter, read in order (a later key overrides an earlier).
ParseQueueMetadata(d) ==
    IF DelimIndex(d) = 0 THEN NoMeta
    ELSE FoldLeft(ParseLine, [m |-> EmptyMeta, stop |-> FALSE],
                  SplitLines(SubSeq(d, DelimIndex(d) + 1, Len(d)))).m

\* Mutant: the block cut at the last delimiter instead of the first.
StripQueueMetadataLast(d) ==
    LET i == SelectLastInSeq(d, LAMBDA t : t = Delim) IN
    IF i = 0 THEN d ELSE TrimRightNL(SubSeq(d, 1, i - 1))

\* StripQueueMetadata: everything before the first delimiter, trailing
\* newlines trimmed.
StripQueueMetadata(d) ==
    IF DelimIndex(d) = 0 THEN d ELSE TrimRightNL(SubSeq(d, 1, DelimIndex(d) - 1))

\* newDesc := baseDesc; if newDesc != "" { newDesc += "\n" }; += metaBlock.
AppendMetadata(baseDesc, metaBlock) ==
    IF baseDesc = <<>> THEN metaBlock ELSE baseDesc \o <<NL>> \o metaBlock

\* What a round trip can give back: Format drops blank var lines.
Canonical(m) == [m EXCEPT !.vars = SelectSeq(@, LAMBDA v : v # "")]

\* Bounded inputs: descriptions of up to three tokens, among them user text
\* holding the delimiter (once or twice) and text after it that reads as a
\* target_rig line, and a dispatch_failures line Atoi rejects; metadata
\* over small value sets.
Tokens == {Text, NL, Delim, KV("note", "x"), KV("target_rig", "q"),
           KV("dispatch_failures", "x")}
Descriptions == BoundedSeq(Tokens, 3)
Metadatas == [target_rig : {"", "r"}, vars : BoundedSeq({"", "v"}, 2),
              convoy : {"", "c"}, failures : 0..3, last_failure : {"", "e"}]
=============================================================================
