----------------------------- MODULE BoundedSink -----------------------------
(***************************************************************************)
(* state.py's BoundedSink, the buffer a running execution's outputs go to  *)
(* as they arrive, and what a still_running reply reads from it.           *)
(*                                                                         *)
(* A text is a sequence of characters: a positive number is the character  *)
(* printed at that place, 0 is the elision marker, one character wide.     *)
(* Output that itself contains the marker's text contains a 0.             *)
(***************************************************************************)
EXTENDS Naturals, Sequences

CONSTANTS
  Budget,      \* _SINK_STREAM_CHARS
  MaxOutputs,  \* _SINK_MAX_OUTPUTS
  MaxChars,    \* MAX_OUTPUT_CHARS
  Partial,     \* _PARTIAL_TEXT_CHARS
  Streams,     \* stdout, stderr
  Spots,       \* where in a message the code may print the marker's own text
  MaxChunk,    \* characters of one message (a bound)
  MaxPrinted,  \* characters in all (a bound)
  MaxEntries   \* outputs in all (a bound)

ASSUME SinkAssumption ==
  /\ Budget \in Nat /\ Budget >= 2 /\ Budget % 2 = 0
  /\ MaxOutputs \in Nat /\ MaxOutputs >= 4
  /\ MaxChars \in Nat /\ MaxChars >= 2 /\ Partial \in Nat \ {0}
  /\ Spots \subseteq Nat /\ {MaxChunk, MaxPrinted, MaxEntries} \subseteq Nat
  /\ {"display", "elided", "oversized"} \cap Streams = {}

VARIABLES
  sink,     \* the buffer
  whole,    \* history: the outputs, merged but neither bounded nor dropped
  printed   \* history: how many characters were printed

vars == <<sink, whole, printed>>

Elided == 0
Text == Seq(Nat)
Entries == [kind : Streams \cup {"display", "elided", "oversized"}, text : Text]

\* _entries_elided_entry
ElidedEntry == [kind |-> "elided", text |-> <<Elided>>]
OversizedEntry == [kind |-> "oversized", text |-> <<Elided>>]

First(n, t) == SubSeq(t, 1, n)
Last(n, t) == IF Len(t) <= n THEN t ELSE SubSeq(t, Len(t) - n + 1, Len(t))
Marked(t) == \E i \in DOMAIN t : t[i] = Elided

TypeOK == sink \in Seq(Entries) /\ whole \in Seq(Entries) /\ printed \in Nat

Init == sink = <<>> /\ whole = <<>> /\ printed = 0
------------------------------------------------------------------------------
Half == Budget \div 2

\* _bounded_stream_text
Bounded(t) == IF Len(t) <= Budget THEN t ELSE First(Half, t) \o <<Elided>> \o Last(Half, t)

\* str.partition: the place of the first marker.
MarkIn(t) == CHOOSE i \in DOMAIN t : t[i] = Elided /\ \A j \in 1..(i - 1) : t[j] # Elided

\* Mutant: the tail is taken from the message alone.
FreshTail(t, new) == IF Marked(t) THEN First(MarkIn(t), t) \o Last(Half, new) ELSE Bounded(t \o new)

\* Mutant: after the first elision nothing is cut.
Unslid(t, new) == IF Marked(t) THEN t \o new ELSE Bounded(t \o new)

\* A message merged into the last entry: the head stays, the tail slides.
Merged(t, new) ==
  IF Marked(t)
  THEN First(MarkIn(t), t) \o Last(Half, SubSeq(t, MarkIn(t) + 1, Len(t)) \o new)
  ELSE Bounded(t \o new)

\* Mutant: at the cap the middle entry is dropped, and that is all.
DropsMiddle(s) ==
  LET mid == Len(s) \div 2 IN
  IF Len(s) < MaxOutputs THEN s ELSE First(mid, s) \o SubSeq(s, mid + 2, Len(s))

\* At the cap two entries become a marker, or one is dropped next to it.
WithRoom(s) ==
  LET mid == Len(s) \div 2 IN
  IF Len(s) < MaxOutputs THEN s
  ELSE IF s[mid] = ElidedEntry THEN First(mid, s) \o SubSeq(s, mid + 2, Len(s))
  ELSE First(mid - 1, s) \o <<ElidedEntry>> \o SubSeq(s, mid + 2, Len(s))

Continues(s, name) == s # <<>> /\ s[Len(s)].kind = name

\* A stream message.
Prints(name, new) ==
  /\ printed' = printed + Len(new)
  /\ IF Continues(sink, name)
     THEN /\ sink' = [sink EXCEPT ![Len(sink)].text = Merged(@, new)]
          /\ whole' = [whole EXCEPT ![Len(whole)].text = @ \o new]
     ELSE /\ sink' = Append(WithRoom(sink), [kind |-> name, text |-> Bounded(new)])
          /\ whole' = Append(whole, [kind |-> name, text |-> new])

\* Any other output; an oversized one is replaced by a note of its size.
Displays(e) ==
  /\ sink' = Append(WithRoom(sink), e)
  /\ whole' = Append(whole, e)
  /\ printed' = printed + 1

\* What a message may hold: the next characters, some of them a marker.
Chunks == {[i \in 1..n |-> IF i \in at THEN Elided ELSE printed + i] :
             n \in 0..MaxChunk, at \in SUBSET Spots}
Shown == {[kind |-> "display", text |-> <<printed + 1>>], ElidedEntry, OversizedEntry}

Next ==
  /\ printed < MaxPrinted /\ Len(whole) < MaxEntries
  /\ \/ \E name \in Streams, new \in Chunks : Prints(name, new)
     \/ \E e \in Shown : Displays(e)

Spec == Init /\ [][Next]_vars
------------------------------------------------------------------------------
(* What a reader gets.                                                     *)

\* Mutant: the head of the text is kept.
CutAtTheEnd(t) == IF Len(t) <= MaxChars THEN t ELSE First(MaxChars, t) \o <<Elided>>

\* outputs._cap
Capped(t) == IF Len(t) <= MaxChars THEN t ELSE First(MaxChars \div 2, t) \o <<Elided>> \o Last(MaxChars \div 2, t)

\* _sink_text joins the texts; the separators are left out.
Joined(s) == LET upTo[n \in 0..Len(s)] == IF n = 0 THEN <<>> ELSE upTo[n - 1] \o s[n].text
             IN  upTo[Len(s)]

\* partial_output of a still_running reply.
Reply == Last(Partial, Capped(Joined(sink)))
------------------------------------------------------------------------------
\* The code's own output does not hold the marker.
Unmarked == \A i \in DOMAIN whole : whole[i].kind \in Streams => ~Marked(whole[i].text)

\* Whatever is printed, in messages of whatever size, the buffer holds at most
\* MaxOutputs entries; a stream's text is at most a budget and a half, and a
\* budget and its marker unless the code itself printed the marker.
Bounds ==
  /\ Len(sink) <= MaxOutputs
  /\ \A i \in DOMAIN sink : /\ Len(sink[i].text) <= Budget + Half
                            /\ Unmarked => Len(sink[i].text) <= Budget + 1

\* Bounding as the output arrives comes to the same as bounding all of it at
\* the end: each stream's text is _bounded_stream_text of what it printed, and
\* of the entries the middle was replaced by one marker.
Folded(e) == IF e.kind \in Streams THEN [e EXCEPT !.text = Bounded(@)] ELSE e
HeadKept == MaxOutputs \div 2 - 1
TailKept == MaxOutputs - MaxOutputs \div 2

FoldedAtOnce(w) ==
  IF Len(w) <= MaxOutputs
  THEN [i \in DOMAIN w |-> Folded(w[i])]
  ELSE [i \in 1..MaxOutputs |-> IF i <= HeadKept THEN Folded(w[i])
                                ELSE IF i = HeadKept + 1 THEN ElidedEntry
                                ELSE Folded(w[i + Len(w) - MaxOutputs])]

StreamingIsFolding == Unmarked => sink = FoldedAtOnce(whole)

\* Through the three cuts between the kernel and a still_running reply (the
\* sink's, _cap's, the partial's), the reply ends with what was printed last.
EndIsShown ==
  whole # <<>> =>
    LET last == whole[Len(whole)].text
        n    == CHOOSE m \in {Half, MaxChars \div 2, Partial, Len(last)} :
                  \A k \in {Half, MaxChars \div 2, Partial, Len(last)} : m <= k
    IN  Last(n, Reply) = Last(n, last)

\* No output is left out silently: a text that is not what was printed holds a
\* marker where it was cut, and so does a list of entries.
LossIsMarked ==
  /\ Len(sink) < Len(whole) => ElidedEntry \in {sink[i] : i \in DOMAIN sink}
  /\ whole # <<>> => LET t == sink[Len(sink)].text  w == whole[Len(whole)].text
                     IN  t # w => Marked(t) /\ First(MarkIn(t) - 1, t) = First(MarkIn(t) - 1, w)
------------------------------------------------------------------------------
(* Stated without its exception; the README says where it fails.           *)

\* "After the first elision, keep the original head and slide the tail".
HeadStays ==
  [][\A i \in DOMAIN sink \cap DOMAIN sink' :
       Len(sink[i].text) > Budget /\ sink[i].kind = sink'[i].kind /\ Len(sink) = Len(sink')
       => First(Half, sink'[i].text) = First(Half, sink[i].text)]_vars
==============================================================================
