------------------------- MODULE EventStreamProofs -------------------------
(***************************************************************************)
(* Proofs about EventStream, for events of any length and number, any      *)
(* chunks, and any way the stream is cut into records.                     *)
(*                                                                         *)
(* The argument is about the whole stream, which no variable holds: there  *)
(* is a text that Docker has written so far, in which everything that is   *)
(* on its way, or was looked at, has its position.  A step makes it longer *)
(* or moves a position, so that nothing is to be proved by induction over  *)
(* sequences.                                                              *)
(***************************************************************************)
EXTENDS EventStream, TLAPS, FiniteSetTheorems, SequenceTheorems

Strings == Seq(Characters)

(***************************************************************************)
(* The inductive invariant                                                 *)
(***************************************************************************)
Types ==
    /\ mode \in {"ssh", "tls"} /\ arriving \in BOOLEAN
    /\ sent \in Seq(Messages) /\ delivered \in Seq(Messages)
    /\ wire \in Seq(Strings \ {<<>>})
    /\ decrypted \in Strings /\ chunk \in Strings /\ data \in Strings
    /\ skippedheader \in BOOLEAN /\ openbrackets \in Int
    /\ pc \in {"select", "parse"} \cup Ended
    /\ pc = "parse" <=> chunk # <<>> /\ pc # "ValueError"
    /\ mode = "ssh" => decrypted = <<>> /\ ~arriving

(* The text is part of the stream, after the first p characters. *)
Lies(text, stream, p) == \A i \in 1 .. Len(text) : text[i] = stream[p + i]

(* The stream is the header and the events; event n begins after at[n].    *)
Written(events, stream, at) ==
    /\ stream \in Strings /\ at \in [1 .. Len(events) + 1 -> 0 .. Len(stream)]
    /\ at[1] = 2 /\ Lies(Header, stream, 0)
    /\ at[Len(events) + 1] = Len(stream)
    /\ \A n \in 1 .. Len(events) :
          /\ at[n + 1] = at[n] + Len(Text[events[n]])
          /\ Lies(Text[events[n]], stream, at[n])

(* Records are its last part; record n ends at cut[n].                     *)
Waits(records, stream, cut) ==
    /\ cut \in [0 .. Len(records) -> 0 .. Len(stream)]
    /\ cut[Len(records)] = Len(stream)
    /\ \A n \in 1 .. Len(records) :
          /\ cut[n] = cut[n - 1] + Len(records[n])
          /\ Lies(records[n], stream, cut[n - 1])

(* Before the records there is what was read of them: all but the first p  *)
(* characters.                                                             *)
Fetched(stream, cut, p) ==
    /\ p \in Nat /\ cut[0] = p + Len(chunk) + Len(decrypted)
    /\ Lies(chunk, stream, p) /\ Lies(decrypted, stream, p + Len(chunk))

(* Those were looked at: the data is what follows the last event that was  *)
(* delivered, and these are the first that were sent.                      *)
Begun(at) == IF skippedheader THEN at[Len(delivered) + 1] ELSE 0

Examined(stream, at, p) ==
    /\ Len(delivered) <= Len(sent)
    /\ \A n \in 1 .. Len(delivered) : delivered[n] = sent[n]
    /\ p = Begun(at) + Len(data) /\ Lies(data, stream, Begun(at))
    /\ ~skippedheader => delivered = <<>> /\ p < 2 /\ openbrackets = 0

Located(stream, at, cut, p) ==
    /\ Written(sent, stream, at) /\ Waits(wire, stream, cut)
    /\ Fetched(stream, cut, p) /\ Examined(stream, at, p)

(* An event without braces in its strings is delivered with its last brace.*)
Prompt ==
    AllPlain =>
        /\ pc # "ValueError"
        /\ skippedheader /\ Len(delivered) < Len(sent) =>
             Len(data) < Len(Text[sent[Len(delivered) + 1]])

StreamInv ==
    /\ Types
    /\ \E stream, at, cut, p : Located(stream, at, cut, p)
    /\ openbrackets = Depth(data)
    /\ Prompt

-----------------------------------------------------------------------------
(***************************************************************************)
(* Texts                                                                   *)
(***************************************************************************)
LEMMA CountAppend ==
    ASSUME NEW text \in Strings, NEW character \in Characters, NEW kinds
    PROVE  /\ Count(text, kinds) \in Nat
           /\ Count(Append(text, character), kinds) =
                Count(text, kinds) + (IF character \in kinds THEN 1 ELSE 0)
<1> DEFINE Of(s) == {n \in 1 .. Len(s) : s[n] \in kinds}
           more == Append(text, character)
<1>1. IsFiniteSet(Of(text)) /\ Cardinality(Of(text)) \in Nat
  <2>1. IsFiniteSet(1 .. Len(text))
    BY FS_Interval DEF Strings
  <2>2. QED BY <2>1, FS_Subset, FS_CardinalityType
<1>2. /\ Len(more) = Len(text) + 1 /\ more[Len(text) + 1] = character
      /\ \A n \in 1 .. Len(text) : more[n] = text[n]
      /\ Len(text) \in Nat
  BY DEF Strings
<1>3. CASE character \in kinds
  <2>1. Of(more) = Of(text) \cup {Len(text) + 1} /\ Len(text) + 1 \notin Of(text)
    BY <1>2, <1>3
  <2>2. QED BY <1>1, <1>3, <2>1, FS_AddElement DEF Count
<1>4. CASE character \notin kinds
  <2>1. Of(more) = Of(text)
    BY <1>2, <1>4
  <2>2. Count(more, kinds) = Cardinality(Of(text)) /\ Count(text, kinds) = Cardinality(Of(text))
    BY <2>1, Zenon DEF Count
  <2>3. QED BY <1>1, <1>4, <2>2
<1>5. QED BY <1>3, <1>4

LEMMA DepthEmpty == Depth(<<>>) = 0
<1>1. ASSUME NEW kinds
      PROVE  Count(<<>>, kinds) = 0
  <2> DEFINE none == {n \in 1 .. Len(<<>>) : <<>>[n] \in kinds}
  <2>1. none = {}
    OBVIOUS
  <2>2. Count(<<>>, kinds) = Cardinality(none)
    BY DEF Count
  <2> HIDE DEF none
  <2>3. QED BY <2>1, <2>2, FS_EmptySet
<1> DEFINE opening == {"{", "q{"}
           closing == {"}", "q}"}
<1>2. Depth(<<>>) = Count(<<>>, opening) - Count(<<>>, closing)
  BY DEF Depth
<1> HIDE DEF opening, closing
<1>3. QED BY <1>1, <1>2

LEMMA DepthAppend ==
    ASSUME NEW text \in Strings, NEW character \in Characters
    PROVE  /\ Depth(text) \in Int
           /\ Depth(Append(text, character)) =
                Depth(text) + (IF Opens(character) THEN 1 ELSE 0)
                            - (IF Closes(character) THEN 1 ELSE 0)
<1>1. \A kinds : /\ Count(text, kinds) \in Nat
                 /\ Count(Append(text, character), kinds) =
                      Count(text, kinds) + (IF character \in kinds THEN 1 ELSE 0)
  BY CountAppend
<1> DEFINE opening == {"{", "q{"}
           closing == {"}", "q}"}
<1>2. /\ Opens(character) <=> character \in opening
      /\ Closes(character) <=> character \in closing
      /\ \A s : Depth(s) = Count(s, opening) - Count(s, closing)
  BY DEF Depth, Opens, Closes
<1> HIDE DEF opening, closing
<1>3. QED BY <1>1, <1>2

(* Without braces in strings the parser counts as JSON does.               *)
LEMMA PlainDepth ==
    ASSUME NEW text \in Strings, \A n \in 1 .. Len(text) : text[n] \notin {"q{", "q}"}
    PROVE  Depth(text) = Count(text, {"{"}) - Count(text, {"}"})
<1>1. \A n \in 1 .. Len(text) : /\ text[n] \in {"{", "q{"} <=> text[n] \in {"{"}
                              /\ text[n] \in {"}", "q}"} <=> text[n] \in {"}"}
  OBVIOUS
<1>2. /\ {n \in 1 .. Len(text) : text[n] \in {"{", "q{"}} =
           {n \in 1 .. Len(text) : text[n] \in {"{"}}
      /\ {n \in 1 .. Len(text) : text[n] \in {"}", "q}"}} =
           {n \in 1 .. Len(text) : text[n] \in {"}"}}
  BY <1>1, Zenon
<1>3. QED BY <1>2 DEF Depth, Count

LEMMA EventTexts ==
    ASSUME NEW m \in Messages
    PROVE  /\ Text[m] \in Strings /\ Len(Text[m]) \in Nat \ {0} /\ Complete(Text[m])
           /\ \A text \in Strings :
                 /\ Len(text) \in 1 .. Len(Text[m])
                 /\ \A i \in 1 .. Len(text) : text[i] = Text[m][i]
                 /\ Complete(text)
                 => text = Text[m]
<1>1. Text[m] \in Strings /\ Text[m] # <<>>
  BY StreamAssumption DEF Strings
<1>2. Len(Text[m]) \in Nat \ {0}
  BY <1>1 DEF Strings
<1>3. ASSUME NEW text \in Strings, Len(text) \in 1 .. Len(Text[m]),
             \A i \in 1 .. Len(text) : text[i] = Text[m][i], Complete(text)
      PROVE  text = Text[m]
  <2>1. CASE Len(text) = Len(Text[m])
    BY <1>1, <1>3, <2>1, SeqEqual DEF Strings
  <2>2. CASE Len(text) # Len(Text[m])
    <3>1. Len(text) \in 1 .. Len(Text[m]) - 1
      BY <1>2, <1>3, <2>2
    <3>2. \A i \in 1 .. Len(text) : Text[m][i] \in Characters
      BY <1>1, <1>2, <1>3 DEF Strings
    <3>3. /\ SubSeq(Text[m], 1, Len(text)) \in Strings
          /\ Len(SubSeq(Text[m], 1, Len(text))) = Len(text)
          /\ \A i \in 1 .. Len(text) : SubSeq(Text[m], 1, Len(text))[i] = Text[m][i]
      BY <3>1, <3>2, SubSeqProperties DEF Strings
    <3>4. SubSeq(Text[m], 1, Len(text)) = text
      BY <1>3, <3>3, SeqEqual DEF Strings
    <3>5. QED BY <1>3, <3>1, <3>4, EventsAssumption
  <2>3. QED BY <2>1, <2>2
<1>4. QED BY <1>1, <1>2, <1>3, EventsAssumption

(* Two events that begin at the same place of a stream are one.            *)
LEMMA SameEvent ==
    ASSUME NEW m \in Messages, NEW n \in Messages, NEW stream, NEW p \in Nat,
           Lies(Text[m], stream, p), Lies(Text[n], stream, p)
    PROVE  m = n
<1>1. Len(Text[m]) \in Nat \ {0} /\ Len(Text[n]) \in Nat \ {0}
  BY EventTexts
<1>2. CASE Len(Text[m]) <= Len(Text[n])
  <2>1. \A i \in 1 .. Len(Text[m]) : Text[m][i] = Text[n][i]
    BY <1>1, <1>2 DEF Lies
  <2>2. Text[m] = Text[n]
    BY <1>1, <1>2, <2>1, EventTexts
  <2>3. QED BY <2>2, EventsAssumption
<1>3. CASE Len(Text[n]) <= Len(Text[m])
  <2>1. \A i \in 1 .. Len(Text[n]) : Text[n][i] = Text[m][i]
    BY <1>1, <1>3 DEF Lies
  <2>2. Text[n] = Text[m]
    BY <1>1, <1>3, <2>1, EventTexts
  <2>3. QED BY <2>2, EventsAssumption
<1>4. QED BY <1>1, <1>2, <1>3

(***************************************************************************)
(* Places in the stream                                                    *)
(***************************************************************************)
LEMMA LiesLonger ==
    ASSUME NEW text \in Strings, NEW stream \in Strings, NEW more \in Strings, NEW p \in Nat,
           Lies(text, stream, p), p + Len(text) <= Len(stream)
    PROVE  Lies(text, stream \o more, p)
<1>1. Len(text) \in Nat /\ Len(stream) \in Nat
  BY DEF Strings
<1>2. \A i \in 1 .. Len(stream) : (stream \o more)[i] = stream[i]
  BY <1>1, ConcatProperties DEF Strings
<1>3. QED BY <1>1, <1>2 DEF Lies

LEMMA LiesBehind ==
    ASSUME NEW text \in Strings, NEW stream \in Strings
    PROVE  Lies(text, stream \o text, Len(stream))
<1>1. Len(text) \in Nat /\ Len(stream) \in Nat
  BY DEF Strings
<1>2. \A i \in 1 .. Len(stream) + Len(text) :
         (stream \o text)[i] = IF i <= Len(stream) THEN stream[i] ELSE text[i - Len(stream)]
  BY ConcatProperties DEF Strings
<1>3. QED BY <1>1, <1>2 DEF Lies

LEMMA StringConcat ==
    ASSUME NEW s \in Strings, NEW t \in Strings
    PROVE  /\ s \o t \in Strings /\ Len(s \o t) = Len(s) + Len(t)
           /\ \A u \in Strings : (s \o t) \o u = s \o (t \o u)
<1>1. s \o t \in Strings /\ Len(s \o t) = Len(s) + Len(t)
  BY DEF Strings
<1>2. ASSUME NEW u \in Strings
      PROVE  (s \o t) \o u = s \o (t \o u)
  BY ConcatAssociative DEF Strings
<1>3. QED BY <1>1, <1>2

(* What Docker writes.                                                     *)
LEMMA WrittenMore ==
    ASSUME NEW events \in Seq(Messages), NEW stream, NEW at, Written(events, stream, at),
           NEW m \in Messages
    PROVE  \E at2 : /\ Written(Append(events, m), stream \o Text[m], at2)
                    /\ \A n \in 1 .. Len(events) + 1 : at2[n] = at[n]
<1> DEFINE longer == stream \o Text[m]
           more == Append(events, m)
           at2 == [n \in 1 .. Len(events) + 2 |->
                     IF n <= Len(events) + 1 THEN at[n] ELSE Len(longer)]
<1>1. /\ Len(events) \in Nat /\ stream \in Strings /\ Len(stream) \in Nat
      /\ Text[m] \in Strings /\ Len(Text[m]) \in Nat
  BY EventTexts DEF Written, Strings
<1>2. longer \in Strings /\ Len(longer) = Len(stream) + Len(Text[m])
  BY <1>1, StringConcat
<1>3. /\ Len(more) = Len(events) + 1 /\ more[Len(events) + 1] = m
      /\ \A n \in 1 .. Len(events) : more[n] = events[n] /\ events[n] \in Messages
  OBVIOUS
<1> HIDE DEF more
<1>4. Lies(Header, longer, 0)
  <2>1. Header \in Strings /\ Len(Header) = 2
    BY DEF Header, Strings, Characters
  <2>2. 0 + Len(Header) <= Len(stream) /\ Lies(Header, stream, 0)
    <3>1. at[1] \in 0 .. Len(stream) /\ at[1] = 2
      BY <1>1 DEF Written
    <3>2. QED BY <1>1, <2>1, <3>1 DEF Written
  <2>3. QED BY <1>1, <2>1, <2>2, LiesLonger
<1>5. ASSUME NEW n \in 1 .. Len(events)
      PROVE  Lies(Text[events[n]], longer, at[n]) /\ at[n + 1] = at[n] + Len(Text[events[n]])
  <2>1. Text[events[n]] \in Strings /\ Len(Text[events[n]]) \in Nat
    BY <1>3, EventTexts
  <2>2. n \in 1 .. Len(events) + 1 /\ n + 1 \in 1 .. Len(events) + 1
    BY <1>1
  <2>3. at[n] \in 0 .. Len(stream) /\ at[n + 1] \in 0 .. Len(stream)
    BY <2>2 DEF Written
  <2>4. at[n + 1] = at[n] + Len(Text[events[n]]) /\ Lies(Text[events[n]], stream, at[n])
    BY DEF Written
  <2> HIDE DEF longer
  <2>5. at[n] \in Nat /\ at[n] + Len(Text[events[n]]) <= Len(stream)
    BY <1>1, <2>1, <2>3, <2>4
  <2>6. QED BY <1>1, <2>1, <2>4, <2>5, LiesLonger DEF longer
<1>6. Lies(Text[m], longer, Len(stream))
  BY <1>1, LiesBehind
<1>7. /\ at \in [1 .. Len(events) + 1 -> 0 .. Len(stream)] /\ at[1] = 2
      /\ at[Len(events) + 1] = Len(stream)
  BY DEF Written
<1> HIDE DEF longer
<1>8. at2 \in [1 .. Len(events) + 2 -> 0 .. Len(longer)]
  BY <1>1, <1>2, <1>7
<1>9. /\ \A n \in 1 .. Len(events) + 1 : at2[n] = at[n]
      /\ at2[Len(events) + 2] = Len(longer) /\ Len(events) + 1 + 1 = Len(events) + 2
  BY <1>1
<1> HIDE DEF at2
<1>10. ASSUME NEW n \in 1 .. Len(events) + 1
       PROVE  /\ at2[n + 1] = at2[n] + Len(Text[more[n]])
              /\ Lies(Text[more[n]], longer, at2[n])
  <2>1. CASE n = Len(events) + 1
    BY <1>1, <1>2, <1>3, <1>6, <1>7, <1>9, <2>1
  <2>2. CASE n # Len(events) + 1
    <3>1. n \in 1 .. Len(events) /\ n + 1 \in 1 .. Len(events) + 1
      BY <1>1, <2>2
    <3>2. at2[n] = at[n] /\ at2[n + 1] = at[n + 1] /\ more[n] = events[n]
      BY <1>3, <1>9, <3>1
    <3>3. QED BY <1>5, <3>1, <3>2
  <2>3. QED BY <2>1, <2>2
<1>11. at2[1] = 2
  BY <1>1, <1>7, <1>9
<1>12. Written(more, longer, at2)
  BY <1>2, <1>3, <1>4, <1>8, <1>9, <1>10, <1>11 DEF Written
<1>13. QED BY <1>9, <1>12 DEF longer, more

(* What waits to be read: one record more, one or a character less.        *)
LEMMA WaitsOneMore ==
    ASSUME NEW stream \in Strings, NEW records \in Seq(Strings), NEW cut,
           Waits(records, stream, cut), NEW text \in Strings
    PROVE  \E cut2 : Waits(Append(records, text), stream \o text, cut2) /\ cut2[0] = cut[0]
<1> DEFINE longer == stream \o text
           more == Append(records, text)
           cut2 == [n \in 0 .. Len(records) + 1 |->
                      IF n <= Len(records) THEN cut[n] ELSE Len(longer)]
<1>1. /\ Len(records) \in Nat /\ Len(stream) \in Nat /\ Len(text) \in Nat
      /\ longer \in Strings /\ Len(longer) = Len(stream) + Len(text)
  BY StringConcat DEF Strings
<1>2. /\ Len(more) = Len(records) + 1 /\ more[Len(records) + 1] = text
      /\ \A n \in 1 .. Len(records) : more[n] = records[n] /\ records[n] \in Strings
  OBVIOUS
<1>3. /\ cut \in [0 .. Len(records) -> 0 .. Len(stream)]
      /\ cut[Len(records)] = Len(stream)
  BY DEF Waits
<1>4. ASSUME NEW n \in 1 .. Len(records)
      PROVE  cut[n] = cut[n - 1] + Len(records[n]) /\ Lies(records[n], longer, cut[n - 1])
  <2>1. records[n] \in Strings /\ Len(records[n]) \in Nat
    BY <1>2 DEF Strings
  <2>2. n \in 0 .. Len(records) /\ n - 1 \in 0 .. Len(records)
    BY <1>1
  <2>3. cut[n - 1] \in 0 .. Len(stream) /\ cut[n] \in 0 .. Len(stream)
    BY <1>3, <2>2
  <2>4. cut[n] = cut[n - 1] + Len(records[n]) /\ Lies(records[n], stream, cut[n - 1])
    BY DEF Waits
  <2> HIDE DEF longer
  <2>5. cut[n - 1] \in Nat /\ cut[n - 1] + Len(records[n]) <= Len(stream)
    BY <1>1, <2>1, <2>3, <2>4
  <2>6. QED BY <2>1, <2>4, <2>5, LiesLonger DEF longer
<1>5. Lies(text, longer, Len(stream))
  BY LiesBehind
<1> HIDE DEF longer, more
<1>6. cut2 \in [0 .. Len(records) + 1 -> 0 .. Len(longer)] /\ cut2[0] = cut[0]
  BY <1>1, <1>3
<1>7. /\ \A n \in 0 .. Len(records) : cut2[n] = cut[n]
      /\ cut2[Len(records) + 1] = Len(longer)
  BY <1>1
<1> HIDE DEF cut2
<1>8. ASSUME NEW n \in 1 .. Len(records) + 1
      PROVE  cut2[n] = cut2[n - 1] + Len(more[n]) /\ Lies(more[n], longer, cut2[n - 1])
  <2>1. CASE n = Len(records) + 1
    <3>1. cut2[n - 1] = Len(stream) /\ cut2[n] = Len(longer) /\ more[n] = text
      BY <1>1, <1>2, <1>3, <1>7, <2>1
    <3>2. QED BY <1>1, <1>5, <3>1
  <2>2. CASE n # Len(records) + 1
    <3>1. n \in 1 .. Len(records) /\ n \in 0 .. Len(records) /\ n - 1 \in 0 .. Len(records)
      BY <1>1, <2>2
    <3>2. cut2[n] = cut[n] /\ cut2[n - 1] = cut[n - 1] /\ more[n] = records[n]
      BY <1>2, <1>7, <3>1
    <3>3. QED BY <1>4, <3>1, <3>2
  <2>3. QED BY <2>1, <2>2
<1>9. Waits(more, longer, cut2)
  BY <1>2, <1>6, <1>7, <1>8 DEF Waits
<1>10. QED BY <1>6, <1>9 DEF longer, more

LEMMA WaitsMore ==
    ASSUME NEW stream \in Strings, NEW records \in Seq(Strings), NEW cut,
           Waits(records, stream, cut), NEW text \in Strings, NEW r \in Records(text)
    PROVE  \E cut2 : Waits(records \o r, stream \o text, cut2) /\ cut2[0] = cut[0]
<1>1. CASE r = <<text>>
  <2>1. records \o r = Append(records, text)
    BY <1>1
  <2>2. QED BY <2>1, WaitsOneMore
<1>2. ASSUME NEW n \in 1 .. Len(text) - 1,
             r = <<SubSeq(text, 1, n), SubSeq(text, n + 1, Len(text))>>
      PROVE  \E cut2 : Waits(records \o r, stream \o text, cut2) /\ cut2[0] = cut[0]
  <2> DEFINE a == SubSeq(text, 1, n)
             b == SubSeq(text, n + 1, Len(text))
  <2>1. Len(text) \in Nat /\ \A i \in 1 .. Len(text) : text[i] \in Characters
    BY DEF Strings
  <2>2. /\ a \in Strings /\ Len(a) = n /\ \A i \in 1 .. n : a[i] = text[i]
    BY <2>1, SubSeqProperties DEF Strings
  <2>3. /\ b \in Strings /\ Len(b) = Len(text) - n
        /\ \A i \in 1 .. Len(text) - n : b[i] = text[n + i]
    BY <2>1, SubSeqProperties DEF Strings
  <2>4. a \o b = text
    <3>1. a \o b \in Strings /\ Len(a \o b) = Len(text)
      BY <2>1, <2>2, <2>3, StringConcat
    <3>2. \A i \in 1 .. Len(a) + Len(b) :
             (a \o b)[i] = IF i <= Len(a) THEN a[i] ELSE b[i - Len(a)]
      BY <2>2, <2>3, ConcatProperties DEF Strings
    <3>3. ASSUME NEW i \in 1 .. Len(text)
          PROVE  (a \o b)[i] = text[i]
      <4>1. CASE i <= n
        BY <2>1, <2>2, <2>3, <3>2, <4>1
      <4>2. CASE i > n
        <5>1. i - n \in 1 .. Len(text) - n /\ n + (i - n) = i
          BY <2>1, <4>2
        <5>2. (a \o b)[i] = b[i - n]
          BY <2>1, <2>2, <2>3, <3>2, <4>2
        <5>3. QED BY <2>3, <5>1, <5>2
      <4>3. QED BY <2>1, <4>1, <4>2
    <3>4. QED BY <3>1, <3>3, SeqEqual DEF Strings
  <2> HIDE DEF a, b
  <2>5. /\ (stream \o a) \o b = stream \o text
        /\ records \o r = Append(Append(records, a), b)
    <3>1. (stream \o a) \o b = stream \o (a \o b)
      <4>1. a \in Strings /\ b \in Strings
        BY <2>2, <2>3
      <4>2. \A u \in Strings : (stream \o a) \o u = stream \o (a \o u)
        BY <4>1, StringConcat
      <4>3. QED BY <4>1, <4>2, Zenon
    <3>2. r = <<a, b>>
      BY <1>2 DEF a, b
    <3>3. QED BY <2>2, <2>3, <2>4, <3>1, <3>2
  <2> DEFINE longer == stream \o a
             more == Append(records, a)
  <2>6. more \in Seq(Strings) /\ longer \in Strings
    BY <2>2, StringConcat
  <2>7. PICK cut1 : Waits(more, longer, cut1) /\ cut1[0] = cut[0]
    BY <2>2, WaitsOneMore
  <2> HIDE DEF longer, more
  <2>8. PICK cut2 : Waits(Append(more, b), longer \o b, cut2) /\ cut2[0] = cut1[0]
    BY <2>3, <2>6, <2>7, WaitsOneMore
  <2>9. Waits(records \o r, stream \o text, cut2) /\ cut2[0] = cut[0]
    BY <2>5, <2>7, <2>8 DEF longer, more
  <2>10. QED BY <2>9
<1>3. QED BY <1>1, <1>2 DEF Records

LEMMA WaitsOneLess ==
    ASSUME NEW stream \in Strings, NEW records \in Seq(Strings), records # <<>>, NEW cut,
           Waits(records, stream, cut)
    PROVE  /\ Head(records) \in Strings /\ Lies(Head(records), stream, cut[0])
           /\ \E cut2 : /\ Waits(Tail(records), stream, cut2)
                        /\ cut2[0] = cut[0] + Len(Head(records))
<1> DEFINE cut2 == [n \in 0 .. Len(records) - 1 |-> cut[n + 1]]
<1>1. /\ Len(records) \in Nat \ {0} /\ Head(records) = records[1] /\ records[1] \in Strings
      /\ Len(Tail(records)) = Len(records) - 1
      /\ \A n \in 1 .. Len(records) - 1 : Tail(records)[n] = records[n + 1]
  OBVIOUS
<1>2. /\ cut \in [0 .. Len(records) -> 0 .. Len(stream)]
      /\ cut[Len(records)] = Len(stream)
      /\ \A n \in 1 .. Len(records) :
            /\ cut[n] = cut[n - 1] + Len(records[n])
            /\ Lies(records[n], stream, cut[n - 1])
  BY DEF Waits
<1>3. cut2[0] = cut[0] + Len(records[1]) /\ Lies(records[1], stream, cut[0])
  BY <1>1, <1>2
<1>4. cut2 \in [0 .. Len(records) - 1 -> 0 .. Len(stream)]
  BY <1>1, <1>2
<1>5. cut2[Len(records) - 1] = Len(stream)
  BY <1>1, <1>2
<1>6. \A n \in 1 .. Len(records) - 1 :
         /\ cut2[n] = cut2[n - 1] + Len(records[n + 1])
         /\ Lies(records[n + 1], stream, cut2[n - 1])
  BY <1>1, <1>2
<1> HIDE DEF cut2
<1>7. Waits(Tail(records), stream, cut2)
  BY <1>1, <1>4, <1>5, <1>6 DEF Waits
<1>8. QED BY <1>1, <1>3, <1>7

LEMMA WaitsCharacterLess ==
    ASSUME NEW stream \in Strings, NEW records \in Seq(Strings), records # <<>>, NEW cut,
           Waits(records, stream, cut), Head(records) # <<>>
    PROVE  \E cut2 : /\ Waits(<<Tail(Head(records))>> \o Tail(records), stream, cut2)
                     /\ cut2[0] = cut[0] + 1
<1> DEFINE tail == Tail(records[1])
           rest == <<tail>> \o Tail(records)
           length == Len(records[1])
           number == Len(records)
           first == cut[0]
           start == first + 1
           cut2 == [n \in 0 .. number |-> IF n = 0 THEN start ELSE cut[n]]
<1>1. number \in Nat \ {0} /\ Head(records) = records[1] /\ records[1] \in Strings
  OBVIOUS
<1>2. /\ length \in Nat \ {0} /\ Len(tail) = length - 1 /\ tail \in Strings
      /\ \A i \in 1 .. length - 1 : tail[i] = records[1][i + 1]
  BY <1>1 DEF Strings
<1>3. /\ Len(rest) = number /\ rest[1] = tail
      /\ \A n \in 2 .. number : rest[n] = records[n]
  BY <1>1, <1>2
<1>4. /\ cut \in [0 .. number -> 0 .. Len(stream)] /\ cut[number] = Len(stream)
      /\ \A n \in 1 .. number : /\ cut[n] = cut[n - 1] + Len(records[n])
                                /\ Lies(records[n], stream, cut[n - 1])
      /\ Len(stream) \in Nat
  BY DEF Waits, Strings
<1>5. /\ cut[1] = first + length /\ Lies(records[1], stream, first)
      /\ first \in Nat /\ cut[1] \in 0 .. Len(stream)
  <2>1. 1 \in 1 .. number /\ 0 \in 0 .. number /\ 1 \in 0 .. number /\ 1 - 1 = 0
    BY <1>1
  <2>2. first \in Nat /\ cut[1] \in 0 .. Len(stream)
    BY <1>4, <2>1
  <2>3. cut[1] = cut[1 - 1] + Len(records[1]) /\ Lies(records[1], stream, cut[1 - 1])
    BY <1>4, <2>1
  <2>4. QED BY <2>1, <2>2, <2>3
<1>6. \A i \in 1 .. length : records[1][i] = stream[first + i]
  BY <1>5 DEF Lies
<1> HIDE DEF rest, tail, length, number, first
<1>7. start \in 0 .. Len(stream)
  BY <1>2, <1>4, <1>5
<1> HIDE DEF start
<1>8. cut2 \in [0 .. number -> 0 .. Len(stream)] /\ cut2[0] = start
      /\ \A n \in 1 .. number : cut2[n] = cut[n]
  BY <1>1, <1>4, <1>7
<1> HIDE DEF cut2
<1>9. cut2[1] = cut2[0] + Len(rest[1]) /\ Lies(rest[1], stream, cut2[0])
  <2>1. ASSUME NEW i \in 1 .. length - 1
        PROVE  tail[i] = stream[start + i]
    <3>1. i + 1 \in 1 .. length /\ first + (i + 1) = start + i
      BY <1>2, <1>5 DEF start
    <3>2. QED BY <1>2, <1>6, <3>1
  <2>2. cut2[1] = start + (length - 1)
    BY <1>1, <1>2, <1>5, <1>8 DEF start
  <2>3. QED BY <1>2, <1>3, <1>8, <2>1, <2>2 DEF Lies
<1>10. ASSUME NEW n \in 1 .. number
       PROVE  cut2[n] = cut2[n - 1] + Len(rest[n]) /\ Lies(rest[n], stream, cut2[n - 1])
  <2>1. CASE n = 1
    BY <1>9, <2>1
  <2>2. CASE n # 1
    <3>1. n - 1 \in 1 .. number /\ n \in 2 .. number
      BY <1>1, <2>2
    <3>2. cut2[n] = cut[n] /\ cut2[n - 1] = cut[n - 1] /\ rest[n] = records[n]
      BY <1>3, <1>8, <3>1
    <3>3. QED BY <1>4, <3>2
  <2>3. QED BY <2>1, <2>2
<1>11. cut2[number] = Len(stream)
  BY <1>1, <1>4, <1>8
<1>12. Waits(rest, stream, cut2)
  BY <1>3, <1>8, <1>10, <1>11 DEF Waits
<1>13. QED BY <1>1, <1>8, <1>12 DEF rest, tail, start, first

(* What recv returns of a text, and what it leaves.                        *)
LEMMA Chunked ==
    ASSUME NEW text \in Strings, text # <<>>, NEW stream, NEW p \in Nat, Lies(text, stream, p)
    PROVE  /\ FirstChunk(text) \in Strings \ {<<>>} /\ AfterFirstChunk(text) \in Strings
           /\ Len(text) = Len(FirstChunk(text)) + Len(AfterFirstChunk(text))
           /\ Lies(FirstChunk(text), stream, p)
           /\ Lies(AfterFirstChunk(text), stream, p + Len(FirstChunk(text)))
<1> DEFINE n == Min2(ChunkSize, Len(text))
<1>1. Len(text) \in Nat \ {0} /\ \A i \in 1 .. Len(text) : text[i] \in Characters
  BY DEF Strings
<1>2. n \in 1 .. Len(text)
  BY <1>1, StreamAssumption DEF Min2
<1> HIDE DEF n
<1>3. /\ SubSeq(text, 1, n) \in Strings /\ Len(SubSeq(text, 1, n)) = n
      /\ \A i \in 1 .. n : SubSeq(text, 1, n)[i] = text[i]
  BY <1>1, <1>2, SubSeqProperties DEF Strings
<1>4. /\ SubSeq(text, n + 1, Len(text)) \in Strings
      /\ Len(SubSeq(text, n + 1, Len(text))) = Len(text) - n
      /\ \A i \in 1 .. Len(text) - n : SubSeq(text, n + 1, Len(text))[i] = text[n + i]
  BY <1>1, <1>2, SubSeqProperties DEF Strings
<1>5. /\ FirstChunk(text) = SubSeq(text, 1, n)
      /\ AfterFirstChunk(text) = SubSeq(text, n + 1, Len(text))
  BY DEF FirstChunk, AfterFirstChunk, n
<1>6. Lies(SubSeq(text, 1, n), stream, p)
  BY <1>1, <1>2, <1>3 DEF Lies
<1>7. Lies(SubSeq(text, n + 1, Len(text)), stream, p + n)
  <2>1. ASSUME NEW i \in 1 .. Len(text) - n
        PROVE  SubSeq(text, n + 1, Len(text))[i] = stream[p + n + i]
    <3>1. n + i \in 1 .. Len(text) /\ p + (n + i) = p + n + i
      BY <1>1, <1>2
    <3>2. QED BY <1>4, <3>1 DEF Lies
  <2>2. QED BY <1>4, <2>1 DEF Lies
<1>8. /\ SubSeq(text, 1, n) # <<>> /\ Len(text) = n + (Len(text) - n)
  BY <1>1, <1>2, <1>3
<1>9. QED BY <1>3, <1>4, <1>5, <1>6, <1>7, <1>8

-----------------------------------------------------------------------------
(***************************************************************************)
(* The first state, and steps that only move what waits                    *)
(***************************************************************************)
LEMMA RecordsType ==
    ASSUME NEW text \in Strings \ {<<>>}, NEW r \in Records(text)
    PROVE  r \in Seq(Strings \ {<<>>})
<1>1. CASE r = <<text>>
  BY <1>1
<1>2. ASSUME NEW n \in 1 .. Len(text) - 1,
             r = <<SubSeq(text, 1, n), SubSeq(text, n + 1, Len(text))>>
      PROVE  r \in Seq(Strings \ {<<>>})
  <2> DEFINE a == SubSeq(text, 1, n)
             b == SubSeq(text, n + 1, Len(text))
  <2>1. Len(text) \in Nat /\ \A i \in 1 .. Len(text) : text[i] \in Characters
    BY DEF Strings
  <2>2. a \in Strings /\ Len(a) = n /\ b \in Strings /\ Len(b) = Len(text) - n
    BY <2>1, SubSeqProperties DEF Strings
  <2> HIDE DEF a, b
  <2>3. a # <<>> /\ b # <<>>
    BY <2>1, <2>2
  <2>4. r = <<a, b>>
    BY <1>2 DEF a, b
  <2>5. QED BY <2>2, <2>3, <2>4
<1>3. QED BY <1>1, <1>2 DEF Records

LEMMA StreamInitial ==
    ASSUME Init
    PROVE  StreamInv
<1>1. Header \in Strings \ {<<>>} /\ Len(Header) = 2
  BY DEF Header, Strings, Characters
<1>2. wire \in Seq(Strings \ {<<>>})
  BY <1>1, RecordsType DEF Init
<1>3. Types
  <2>1. /\ sent \in Seq(Messages) /\ delivered \in Seq(Messages)
        /\ decrypted \in Strings /\ chunk \in Strings /\ data \in Strings
    BY DEF Init, Strings
  <2>2. /\ mode \in {"ssh", "tls"} /\ arriving \in BOOLEAN /\ skippedheader \in BOOLEAN
        /\ pc \in {"select", "parse"} \cup Ended
    BY Zenon DEF Init
  <2>3. openbrackets \in Int
    BY DEF Init
  <2>4. /\ pc = "parse" <=> chunk # <<>> /\ pc # "ValueError"
        /\ mode = "ssh" => decrypted = <<>> /\ ~arriving
    BY DEF Init
  <2>5. QED BY <1>2, <2>1, <2>2, <2>3, <2>4, Zenon DEF Types
<1>4. PICK cut : Waits(wire, Header, cut) /\ cut[0] = 0
  <2> DEFINE cut0 == [n \in 0 .. 0 |-> 0]
             none == <<>>
  <2>1. Waits(none, none, cut0) /\ cut0[0] = 0
    BY DEF Waits
  <2>2. none \o wire = wire /\ none \o Header = Header
    BY <1>1, <1>2 DEF Strings
  <2>3. none \in Strings /\ none \in Seq(Strings)
    BY DEF Strings
  <2> HIDE DEF cut0, none
  <2>4. \E cut : Waits(none \o wire, none \o Header, cut) /\ cut[0] = cut0[0]
    BY <1>1, <2>1, <2>3, WaitsMore DEF Init
  <2>5. QED BY <2>1, <2>2, <2>4
<1> DEFINE at == [n \in 1 .. 1 |-> 2]
<1>5. Written(sent, Header, at)
  <2>1. at \in [1 .. Len(sent) + 1 -> 0 .. Len(Header)] /\ at[1] = 2
        /\ Len(sent) = 0
    BY <1>1 DEF Init
  <2> HIDE DEF at
  <2>2. Lies(Header, Header, 0)
    BY <1>1 DEF Lies
  <2>3. QED BY <1>1, <2>1, <2>2 DEF Written
<1> HIDE DEF at
<1>6. Fetched(Header, cut, 0)
  BY <1>4 DEF Fetched, Lies, Init
<1>7. Examined(Header, at, 0)
  BY DEF Examined, Begun, Lies, Init
<1>8. openbrackets = Depth(data)
  BY DepthEmpty DEF Init
<1>9. Prompt
  BY DEF Prompt, Init
<1>10. QED BY <1>3, <1>4, <1>5, <1>6, <1>7, <1>8, <1>9 DEF StreamInv, Located

LEMMA Places ==
    ASSUME Types, NEW stream, NEW at, NEW cut, NEW p, Located(stream, at, cut, p)
    PROVE  /\ stream \in Strings /\ Len(stream) \in Nat /\ p \in Nat
           /\ cut[0] = p + Len(chunk) + Len(decrypted)
           /\ Len(chunk) \in Nat /\ Len(decrypted) \in Nat /\ Len(data) \in Nat
           /\ Len(sent) \in Nat /\ Len(delivered) \in Nat /\ Len(delivered) <= Len(sent)
           /\ Begun(at) \in Nat /\ p = Begun(at) + Len(data)
           /\ p + Len(chunk) + Len(decrypted) <= Len(stream)
<1>1. /\ Len(chunk) \in Nat /\ Len(decrypted) \in Nat /\ Len(data) \in Nat
      /\ Len(sent) \in Nat /\ Len(delivered) \in Nat /\ Len(wire) \in Nat
  BY DEF Types, Strings
<1>2. stream \in Strings /\ Len(stream) \in Nat
  BY DEF Located, Written, Strings
<1>3. cut[0] \in 0 .. Len(stream) /\ cut[0] = p + Len(chunk) + Len(decrypted) /\ p \in Nat
  BY <1>1 DEF Located, Waits, Fetched
<1>4. Len(delivered) \in Nat /\ Len(delivered) <= Len(sent) /\ p = Begun(at) + Len(data)
  BY <1>1 DEF Located, Examined
<1>5. Begun(at) \in Nat
  <2>1. Len(delivered) + 1 \in 1 .. Len(sent) + 1
    BY <1>1, <1>4
  <2>2. at[Len(delivered) + 1] \in 0 .. Len(stream)
    BY <2>1 DEF Located, Written
  <2>3. QED BY <1>2, <2>2 DEF Begun
<1>6. p + Len(chunk) + Len(decrypted) <= Len(stream)
  <2>1. cut[0] <= Len(stream)
    BY <1>2, <1>3
  <2>2. QED BY <1>3, <2>1
<1>7. QED BY <1>1, <1>2, <1>3, <1>4, <1>5, <1>6

LEMMA QuietKeeps ==
    ASSUME StreamInv, Types', UNCHANGED <<sent, wire, decrypted, chunk, parser>>,
           pc' = pc \/ pc' # "ValueError"
    PROVE  StreamInv'
<1>1. PICK stream, at, cut, p : Located(stream, at, cut, p)
  BY DEF StreamInv
<1>2. Located(stream, at, cut, p)'
  BY <1>1 DEF Located, Fetched, Examined, Begun, parser
<1>3. openbrackets' = Depth(data')
  BY DEF StreamInv, parser
<1>4. Prompt'
  BY DEF StreamInv, Prompt, AllPlain, parser
<1>5. QED BY <1>2, <1>3, <1>4 DEF StreamInv

LEMMA QuietStepsKeep ==
    ASSUME StreamInv,
           \/ Arrive \/ Close \/ RequestStop \/ Stop \/ ReadPart \/ ReadEnd \/ Break
           \/ UNCHANGED vars
    PROVE  StreamInv'
<1>1. /\ UNCHANGED <<mode, sent, wire, decrypted, chunk, parser>>
      /\ pc' = pc \/ (pc = "select" /\ pc' \in {"exited", "raised"})
      /\ arriving' = arriving \/ arriving' = FALSE
  BY DEF Arrive, Close, RequestStop, Stop, ReadPart, ReadEnd, Break, vars, transport
<1>2. Types'
  <2>1. arriving' \in BOOLEAN /\ pc' \in {"select", "parse"} \cup Ended
    BY <1>1 DEF StreamInv, Types, Ended
  <2>2. /\ pc' = "parse" <=> chunk' # <<>> /\ pc' # "ValueError"
        /\ mode' = "ssh" => decrypted' = <<>> /\ ~arriving'
    BY <1>1 DEF StreamInv, Types
  <2>3. QED BY <1>1, <2>1, <2>2 DEF StreamInv, Types, parser
<1>3. QED BY <1>1, <1>2, QuietKeeps

(* What was read is what waited first.                                     *)
LEMMA ReadKeeps ==
    ASSUME StreamInv, Types', UNCHANGED <<sent, parser>>, pc = "select", pc' = "parse",
           NEW stream, NEW at, NEW cut, NEW p, Located(stream, at, cut, p),
           NEW cut2, Waits(wire', stream, cut2),
           cut2[0] = p + Len(chunk') + Len(decrypted'),
           Lies(chunk', stream, p), Lies(decrypted', stream, p + Len(chunk'))
    PROVE  StreamInv'
<1>1. Located(stream, at, cut2, p)'
  BY DEF Located, Fetched, Examined, Begun, parser
<1>2. openbrackets' = Depth(data')
  BY DEF StreamInv, parser
<1>3. Prompt'
  BY DEF StreamInv, Prompt, AllPlain, parser
<1>4. QED BY <1>1, <1>2, <1>3 DEF StreamInv

LEMMA ReadChannelKeeps ==
    ASSUME StreamInv, ReadChannel
    PROVE  StreamInv'
<1>1. PICK stream, at, cut, p : Located(stream, at, cut, p)
  BY DEF StreamInv
<1>2. Types /\ wire # <<>> /\ chunk = <<>> /\ decrypted = <<>> /\ pc = "select"
  BY DEF StreamInv, Types, ReadChannel
<1>3. stream \in Strings /\ cut[0] = p /\ p \in Nat /\ Waits(wire, stream, cut)
  BY <1>1, <1>2, Places DEF Located
<1> DEFINE record == Head(wire)
<1>4. wire \in Seq(Strings) /\ record \in Strings /\ record # <<>>
      /\ Len(record) \in Nat \ {0} /\ Head(record) = record[1] /\ record[1] \in Characters
      /\ Tail(wire) \in Seq(Strings \ {<<>>})
  <2>1. record \in Strings \ {<<>>} /\ Tail(wire) \in Seq(Strings \ {<<>>})
    BY <1>2, HeadTailProperties DEF Types
  <2>2. wire \in Seq(Strings)
    BY <1>2 DEF Types
  <2> HIDE DEF record
  <2>3. QED BY <2>1, <2>2 DEF Strings
<1>5. Lies(record, stream, cut[0])
  BY <1>2, <1>3, <1>4, WaitsOneLess
<1>6. /\ chunk' = <<record[1]>> /\ Len(chunk') = 1 /\ chunk' \in Strings
      /\ decrypted' = <<>> /\ pc' = "parse" /\ UNCHANGED <<sent, parser, mode, arriving>>
  BY <1>2, <1>4 DEF ReadChannel, Strings
<1>7. Lies(chunk', stream, p) /\ Lies(decrypted', stream, p + Len(chunk'))
  <2>1. record[1] = stream[p + 1]
    BY <1>3, <1>4, <1>5 DEF Lies
  <2>2. QED BY <1>6, <2>1 DEF Lies
<1>8. /\ wire' \in Seq(Strings \ {<<>>})
      /\ \E cut2 : Waits(wire', stream, cut2) /\ cut2[0] = cut[0] + 1
  <2>1. CASE Len(record) = 1
    <3>1. wire' = Tail(wire)
      BY <2>1 DEF ReadChannel
    <3>2. \E cut2 : Waits(Tail(wire), stream, cut2) /\ cut2[0] = cut[0] + Len(record)
      BY <1>2, <1>3, <1>4, WaitsOneLess
    <3>3. QED BY <1>4, <2>1, <3>1, <3>2
  <2>2. CASE Len(record) # 1
    <3>1. wire' = <<Tail(record)>> \o Tail(wire)
      BY <2>2 DEF ReadChannel
    <3>2. Tail(record) \in Strings \ {<<>>}
      <4>1. Tail(record) \in Strings /\ Len(Tail(record)) = Len(record) - 1
        BY <1>4, HeadTailProperties DEF Strings
      <4>2. Len(record) - 1 # 0
        BY <1>4, <2>2
      <4>3. QED BY <4>1, <4>2
    <3>3. wire' \in Seq(Strings \ {<<>>})
      <4>1. <<Tail(record)>> \in Seq(Strings \ {<<>>})
        BY <3>2
      <4>2. Tail(wire) \in Seq(Strings \ {<<>>})
        BY <1>4
      <4>3. \A s, t \in Seq(Strings \ {<<>>}) : s \o t \in Seq(Strings \ {<<>>})
        BY ConcatProperties
      <4>4. QED BY <3>1, <4>1, <4>2, <4>3, Zenon
    <3>4. \E cut2 : /\ Waits(<<Tail(Head(wire))>> \o Tail(wire), stream, cut2)
                    /\ cut2[0] = cut[0] + 1
      BY <1>2, <1>3, <1>4, WaitsCharacterLess
    <3>5. QED BY <3>1, <3>3, <3>4
  <2>3. QED BY <2>1, <2>2
<1>9. Types'
  BY <1>2, <1>6, <1>8 DEF Types, parser, Ended, Strings
<1>10. PICK cut2 : Waits(wire', stream, cut2) /\ cut2[0] = cut[0] + 1
  BY <1>8
<1>11. cut2[0] = p + Len(chunk') + Len(decrypted')
  BY <1>3, <1>6, <1>10
<1>12. QED BY <1>1, <1>2, <1>6, <1>7, <1>9, <1>10, <1>11, ReadKeeps

LEMMA ReadSocketKeeps ==
    ASSUME StreamInv, ReadSocket \/ ReadRest
    PROVE  StreamInv'
<1>1. PICK stream, at, cut, p : Located(stream, at, cut, p)
  BY DEF StreamInv
<1>2. /\ Types /\ chunk = <<>> /\ pc = "select" /\ pc' = "parse"
      /\ UNCHANGED <<sent, parser, mode, arriving>>
  BY DEF StreamInv, Types, ReadSocket, ReadRest
<1>3. /\ stream \in Strings /\ p \in Nat /\ Waits(wire, stream, cut)
      /\ cut[0] = p + Len(decrypted) /\ Lies(decrypted, stream, p)
      /\ Len(decrypted) \in Nat
  <2>1. /\ stream \in Strings /\ p \in Nat /\ cut[0] = p + Len(chunk) + Len(decrypted)
        /\ Len(decrypted) \in Nat
    BY <1>1, <1>2, Places
  <2>2. Lies(decrypted, stream, p + Len(chunk)) /\ Waits(wire, stream, cut)
    BY <1>1 DEF Located, Fetched
  <2>3. Len(chunk) = 0
    BY <1>2
  <2>4. QED BY <2>1, <2>2, <2>3
<1>4. ASSUME NEW text \in Strings \ {<<>>}, Lies(text, stream, p),
             chunk' = FirstChunk(text), decrypted' = AfterFirstChunk(text),
             wire' \in Seq(Strings \ {<<>>}), mode = "ssh" => decrypted' = <<>>,
             NEW cut2, Waits(wire', stream, cut2), cut2[0] = p + Len(text)
      PROVE  StreamInv'
  <2>1. /\ chunk' \in Strings \ {<<>>} /\ decrypted' \in Strings
        /\ Len(text) = Len(chunk') + Len(decrypted')
        /\ Lies(chunk', stream, p) /\ Lies(decrypted', stream, p + Len(chunk'))
    BY <1>3, <1>4, Chunked
  <2>2. Types'
    BY <1>2, <1>4, <2>1 DEF Types, parser, Ended
  <2>3. cut2[0] = p + Len(chunk') + Len(decrypted')
    <3>1. Len(chunk') \in Nat /\ Len(decrypted') \in Nat
      BY <2>1 DEF Strings
    <3>2. QED BY <1>3, <1>4, <2>1, <3>1
  <2>4. QED BY <1>1, <1>2, <1>4, <2>1, <2>2, <2>3, ReadKeeps
<1>5. CASE /\ decrypted # <<>> /\ chunk' = FirstChunk(decrypted)
           /\ decrypted' = AfterFirstChunk(decrypted) /\ wire' = wire
  BY <1>2, <1>3, <1>4, <1>5 DEF Types
<1>6. CASE /\ decrypted = <<>> /\ wire # <<>> /\ mode = "tls"
           /\ chunk' = FirstChunk(Head(wire))
           /\ decrypted' = AfterFirstChunk(Head(wire)) /\ wire' = Tail(wire)
  <2>1. /\ Head(wire) \in Strings \ {<<>>} /\ Tail(wire) \in Seq(Strings \ {<<>>})
        /\ wire \in Seq(Strings)
    BY <1>2, <1>6, HeadTailProperties DEF Types
  <2>2. cut[0] = p
    BY <1>3, <1>6
  <2>3. /\ Lies(Head(wire), stream, p)
        /\ \E cut2 : Waits(Tail(wire), stream, cut2) /\ cut2[0] = p + Len(Head(wire))
    BY <1>3, <1>6, <2>1, <2>2, WaitsOneLess
  <2>4. QED BY <1>4, <1>6, <2>1, <2>3
<1>7. QED BY <1>5, <1>6 DEF ReadSocket, ReadRest

LEMMA SendKeeps ==
    ASSUME StreamInv, NEW m \in Messages, Send(m)
    PROVE  StreamInv'
<1>1. PICK stream, at, cut, p : Located(stream, at, cut, p)
  BY DEF StreamInv
<1>2. /\ Types /\ sent \in Seq(Messages) /\ delivered \in Seq(Messages)
      /\ wire \in Seq(Strings \ {<<>>})
      /\ wire \in Seq(Strings) /\ data \in Strings /\ chunk \in Strings /\ decrypted \in Strings
      /\ skippedheader \in BOOLEAN
  BY DEF StreamInv, Types
<1>3. /\ Text[m] \in Strings \ {<<>>} /\ Len(Text[m]) \in Nat \ {0}
  BY EventTexts, StreamAssumption
<1>4. PICK r \in Records(Text[m]) : wire' = wire \o r
  BY DEF Send
<1>5. /\ Written(sent, stream, at) /\ Waits(wire, stream, cut)
      /\ Fetched(stream, cut, p) /\ Examined(stream, at, p)
  BY <1>1 DEF Located
<1>6. /\ stream \in Strings /\ Len(stream) \in Nat /\ p \in Nat
      /\ cut[0] = p + Len(chunk) + Len(decrypted)
      /\ Len(chunk) \in Nat /\ Len(decrypted) \in Nat /\ Len(data) \in Nat
      /\ Len(sent) \in Nat /\ Len(delivered) \in Nat /\ Len(delivered) <= Len(sent)
      /\ Begun(at) \in Nat /\ p = Begun(at) + Len(data)
      /\ p + Len(chunk) + Len(decrypted) <= Len(stream)
  BY <1>1, <1>2, Places
<1> DEFINE longer == stream \o Text[m]
<1>7. PICK at2 : /\ Written(Append(sent, m), longer, at2)
                 /\ \A n \in 1 .. Len(sent) + 1 : at2[n] = at[n]
  BY <1>2, <1>5, WrittenMore
<1>8. PICK cut2 : Waits(wire \o r, longer, cut2) /\ cut2[0] = cut[0]
  <2>1. wire \in Seq(Strings) /\ stream \in Strings /\ Waits(wire, stream, cut)
    BY <1>2, <1>5, <1>6
  <2>2. Text[m] \in Strings
    BY <1>3
  <2>3. r \in Records(Text[m])
    OBVIOUS
  <2> HIDE DEF longer
  <2>4. \E cut2 : Waits(wire \o r, stream \o Text[m], cut2) /\ cut2[0] = cut[0]
    BY <2>1, <2>2, <2>3, WaitsMore
  <2>5. QED BY <2>4 DEF longer
<1>9. /\ sent' = Append(sent, m)
      /\ UNCHANGED <<mode, decrypted, chunk, parser, skippedheader, data, openbrackets,
                     delivered, pc>>
      /\ arriving' \in BOOLEAN /\ (mode = "ssh" => ~arriving')
  BY DEF Send, parser
<1>10. /\ Len(sent') = Len(sent) + 1 /\ sent'[Len(sent) + 1] = m /\ sent' \in Seq(Messages)
       /\ \A n \in 1 .. Len(sent) : sent'[n] = sent[n]
  BY <1>2, <1>9
<1>11. Types'
  <2>1. r \in Seq(Strings \ {<<>>})
    BY <1>3, RecordsType
  <2>2. wire' \in Seq(Strings \ {<<>>})
    BY <1>2, <1>4, <2>1, ConcatProperties
  <2>3. /\ pc' \in {"select", "parse"} \cup Ended
        /\ pc' = "parse" <=> chunk' # <<>> /\ pc' # "ValueError"
        /\ mode' = "ssh" => decrypted' = <<>> /\ ~arriving'
    BY <1>2, <1>9 DEF Types
  <2>4. mode' \in {"ssh", "tls"} /\ openbrackets' \in Int
    BY <1>2, <1>9 DEF Types
  <2>5. QED BY <1>2, <1>9, <1>10, <2>2, <2>3, <2>4 DEF Types
<1>12. Begun(at2)' = Begun(at)
  <2>1. Len(delivered) + 1 \in 1 .. Len(sent) + 1
    BY <1>6
  <2>2. at2[Len(delivered) + 1] = at[Len(delivered) + 1]
    BY <1>7, <2>1
  <2>3. QED BY <1>9, <2>2 DEF Begun
<1>13. Lies(chunk, longer, p) /\ Lies(decrypted, longer, p + Len(chunk))
  <2>1. Lies(chunk, stream, p) /\ Lies(decrypted, stream, p + Len(chunk))
    BY <1>5 DEF Fetched
  <2>2. /\ p + Len(chunk) \in Nat /\ p + Len(chunk) <= Len(stream)
        /\ p + Len(chunk) + Len(decrypted) <= Len(stream)
    <3>1. /\ p \in Nat /\ Len(chunk) \in Nat /\ Len(decrypted) \in Nat /\ Len(stream) \in Nat
          /\ p + Len(chunk) + Len(decrypted) <= Len(stream)
      BY <1>6
    <3>2. QED BY <3>1
  <2>3. QED BY <1>2, <1>3, <1>6, <2>1, <2>2, LiesLonger
<1>14. Lies(data, longer, Begun(at))
  <2>1. Lies(data, stream, Begun(at))
    BY <1>5 DEF Examined
  <2>2. Begun(at) + Len(data) <= Len(stream)
    BY <1>6
  <2>3. QED BY <1>2, <1>3, <1>6, <2>1, <2>2, LiesLonger
<1> HIDE DEF longer
<1>15. Fetched(longer, cut2, p)'
  BY <1>6, <1>8, <1>9, <1>13 DEF Fetched
<1>16. Examined(longer, at2, p)'
  <2>1. /\ \A n \in 1 .. Len(delivered) : delivered[n] = sent[n]
        /\ ~skippedheader => delivered = <<>> /\ p < 2 /\ openbrackets = 0
    BY <1>5 DEF Examined
  <2>2. \A n \in 1 .. Len(delivered) : n \in 1 .. Len(sent)
    BY <1>6
  <2>3. \A n \in 1 .. Len(delivered) : delivered[n] = sent'[n]
    BY <1>10, <2>1, <2>2
  <2>4. Len(delivered') <= Len(sent')
    BY <1>6, <1>9, <1>10
  <2>5. QED BY <1>6, <1>9, <1>12, <1>14, <2>1, <2>3, <2>4 DEF Examined
<1>17. Located(longer, at2, cut2, p)'
  BY <1>4, <1>7, <1>8, <1>9, <1>15, <1>16 DEF Located
<1>18. Prompt'
  <2> SUFFICES ASSUME AllPlain'
               PROVE  /\ pc # "ValueError"
                      /\ skippedheader =>
                           Len(data) < Len(Text[sent'[Len(delivered) + 1]])
    BY <1>9 DEF Prompt
  <2>1. AllPlain
    <3>1. \A n \in 1 .. Len(sent) : Plain(sent'[n])
      BY <1>6, <1>10 DEF AllPlain
    <3>2. QED BY <1>10, <3>1 DEF AllPlain
  <2>2. /\ pc # "ValueError"
        /\ skippedheader /\ Len(delivered) < Len(sent) =>
             Len(data) < Len(Text[sent[Len(delivered) + 1]])
    BY <2>1 DEF StreamInv, Prompt
  <2>3. CASE Len(delivered) < Len(sent)
    <3>1. Len(delivered) + 1 \in 1 .. Len(sent)
      <4>1. Len(delivered) \in Nat /\ Len(sent) \in Nat
        BY <1>6
      <4>2. QED BY <2>3, <4>1
    <3>2. QED BY <1>10, <2>2, <2>3, <3>1
  <2>4. CASE Len(delivered) = Len(sent)
    <3>1. skippedheader => Len(data) = 0
      <4>1. skippedheader => Begun(at) = Len(stream)
        BY <1>5, <2>4 DEF Begun, Written
      <4>2. QED BY <1>6, <4>1
    <3>2. sent'[Len(delivered) + 1] = m
      BY <1>10, <2>4
    <3>3. QED BY <1>3, <2>2, <3>1, <3>2
  <2>5. QED BY <1>6, <2>3, <2>4
<1>19. openbrackets' = Depth(data')
  BY <1>9 DEF StreamInv
<1>20. QED BY <1>11, <1>17, <1>18, <1>19 DEF StreamInv

-----------------------------------------------------------------------------
(***************************************************************************)
(* The parser                                                              *)
(***************************************************************************)
(* What the parser decides about: the data with the character it looks at. *)
Looking == Append(data, Head(chunk))

LEMMA TextRead ==
    ASSUME Types, pc = "parse", NEW stream, NEW at, NEW cut, NEW p, Located(stream, at, cut, p)
    PROVE  /\ Head(chunk) \in Characters /\ Head(chunk) = stream[p + 1]
           /\ Looking \in Strings /\ Len(Looking) = Len(data) + 1
           /\ Last(Looking) = Head(chunk) /\ Lies(Looking, stream, Begun(at))
           /\ Begun(at) + Len(Looking) = p + 1 /\ p + 1 <= Len(stream)
<1>1. /\ chunk \in Strings /\ chunk # <<>> /\ data \in Strings
  BY DEF Types
<1>2. /\ Len(chunk) \in Nat \ {0} /\ Head(chunk) = chunk[1] /\ Head(chunk) \in Characters
  BY <1>1 DEF Strings
<1>3. /\ p \in Nat /\ Len(stream) \in Nat
      /\ p + Len(chunk) + Len(decrypted) <= Len(stream) /\ Len(decrypted) \in Nat
      /\ Len(data) \in Nat /\ Begun(at) \in Nat /\ p = Begun(at) + Len(data)
  BY Places
<1>4. Lies(chunk, stream, p) /\ Lies(data, stream, Begun(at))
  BY DEF Located, Fetched, Examined
<1>5. Head(chunk) = stream[p + 1]
  BY <1>2, <1>4 DEF Lies
<1>6. /\ Looking \in Strings /\ Len(Looking) = Len(data) + 1
      /\ Looking[Len(data) + 1] = Head(chunk)
      /\ \A i \in 1 .. Len(data) : Looking[i] = data[i]
  BY <1>1, <1>2 DEF Looking, Strings
<1>7. Lies(Looking, stream, Begun(at))
  <2>1. ASSUME NEW i \in 1 .. Len(data) + 1
        PROVE  Looking[i] = stream[Begun(at) + i]
    <3>1. CASE i = Len(data) + 1
      <4>1. Begun(at) + i = p + 1
        BY <1>3, <3>1
      <4>2. Looking[i] = Head(chunk)
        BY <1>6, <3>1
      <4>3. QED BY <1>5, <4>1, <4>2
    <3>2. CASE i # Len(data) + 1
      <4>1. i \in 1 .. Len(data)
        BY <1>3, <3>2
      <4>2. Looking[i] = data[i]
        BY <1>6, <4>1
      <4>3. data[i] = stream[Begun(at) + i]
        BY <1>4, <4>1 DEF Lies
      <4>4. QED BY <4>2, <4>3
    <3>3. QED BY <3>1, <3>2
  <2>2. QED BY <1>6, <2>1 DEF Lies
<1>8. Begun(at) + Len(Looking) = p + 1 /\ p + 1 <= Len(stream)
  <2>1. Begun(at) + Len(Looking) = p + 1
    BY <1>3, <1>6
  <2>2. Len(chunk) \in Nat \ {0}
    BY <1>2
  <2>3. p + 1 <= Len(stream)
    BY <1>3, <2>2
  <2>4. QED BY <2>1, <2>3
<1>9. QED BY <1>2, <1>5, <1>6, <1>7, <1>8 DEF Last

(* Before the end of the header is found.                                  *)
LEMMA HeaderRead ==
    ASSUME Types, pc = "parse", NEW stream, NEW at, NEW cut, NEW p, Located(stream, at, cut, p),
           ~skippedheader
    PROVE  /\ delivered = <<>> /\ openbrackets = 0
           /\ \/ p = 0 /\ Head(chunk) = "text"
              \/ p = 1 /\ Head(chunk) = "end of header"
<1>1. delivered = <<>> /\ p < 2 /\ openbrackets = 0 /\ p \in Nat
  BY Places DEF Located, Examined
<1>2. Lies(Header, stream, 0)
  BY DEF Located, Written
<1>3. stream[1] = "text" /\ stream[2] = "end of header"
  <2>1. Len(Header) = 2 /\ Header[1] = "text" /\ Header[2] = "end of header"
    BY DEF Header
  <2>2. \A i \in 1 .. 2 : Header[i] = stream[0 + i]
    BY <1>2, <2>1 DEF Lies
  <2>3. Header[1] = stream[1] /\ Header[2] = stream[2]
    BY <2>2
  <2>4. QED BY <2>1, <2>3
<1>4. Head(chunk) = stream[p + 1]
  BY TextRead
<1>5. (p = 0 /\ p + 1 = 1) \/ (p = 1 /\ p + 1 = 2)
  BY <1>1
<1>6. QED BY <1>1, <1>3, <1>4, <1>5, Zenon

(* Afterwards it is a part of the event whose turn it is.                  *)
LEMMA EventRead ==
    ASSUME Types, pc = "parse", NEW stream, NEW at, NEW cut, NEW p, Located(stream, at, cut, p),
           skippedheader
    PROVE  /\ Len(delivered) < Len(sent) /\ sent[Len(delivered) + 1] \in Messages
           /\ Lies(Text[sent[Len(delivered) + 1]], stream, Begun(at))
           /\ at[Len(delivered) + 2] = Begun(at) + Len(Text[sent[Len(delivered) + 1]])
<1>1. /\ Len(sent) \in Nat /\ Len(delivered) \in Nat /\ Len(delivered) <= Len(sent) /\ sent \in Seq(Messages)
      /\ p \in Nat /\ p = Begun(at) + Len(data) /\ Len(data) \in Nat
      /\ Begun(at) \in Nat /\ Len(stream) \in Nat
  BY Places DEF Types
<1>2. p + 1 <= Len(stream)
  BY TextRead
<1>3. Begun(at) = at[Len(delivered) + 1]
  BY DEF Begun
<1>4. Len(delivered) < Len(sent)
  <2>1. at[Len(sent) + 1] = Len(stream)
    BY DEF Located, Written
  <2>2. Len(delivered) # Len(sent)
    BY <1>1, <1>2, <1>3, <2>1
  <2>3. QED BY <1>1, <2>2
<1>5. Len(delivered) + 1 \in 1 .. Len(sent) /\ Len(delivered) + 1 + 1 = Len(delivered) + 2
  BY <1>1, <1>4
<1>6. sent[Len(delivered) + 1] \in Messages
  BY <1>1, <1>5
<1> DEFINE next == Len(delivered) + 1
<1>7. /\ at[next + 1] = at[next] + Len(Text[sent[next]])
      /\ Lies(Text[sent[next]], stream, at[next])
  <2> HIDE DEF next
  <2>1. next \in 1 .. Len(sent)
    BY <1>5 DEF next
  <2>2. QED BY <2>1 DEF Located, Written
<1>8. QED BY <1>3, <1>4, <1>5, <1>6, <1>7

(* Without braces in strings the braces tell where the event ends.         *)
LEMMA PlainRead ==
    ASSUME StreamInv, AllPlain, pc = "parse", skippedheader
    PROVE  /\ Closes(Last(Looking)) => Last(Looking) = "}"
           /\ Last(Looking) = "}" /\ Depth(Looking) = 0 =>
                Looking = Text[sent[Len(delivered) + 1]]
           /\ Len(Looking) = Len(Text[sent[Len(delivered) + 1]]) =>
                Last(Looking) = "}" /\ Depth(Looking) = 0
<1>1. PICK stream, at, cut, p : Located(stream, at, cut, p)
  BY DEF StreamInv
<1> DEFINE next == Len(delivered) + 1
           event == Text[sent[next]]
<1>2. /\ Types /\ Len(sent) \in Nat /\ Len(delivered) \in Nat /\ Len(delivered) <= Len(sent)
      /\ Begun(at) \in Nat /\ Len(data) \in Nat
  BY <1>1, Places DEF StreamInv
<1>3. /\ Looking \in Strings /\ Len(Looking) = Len(data) + 1
      /\ Lies(Looking, stream, Begun(at))
  BY <1>1, <1>2, TextRead
<1>4. /\ Len(delivered) < Len(sent) /\ sent[next] \in Messages
      /\ Lies(event, stream, Begun(at))
  BY <1>1, <1>2, EventRead
<1>5. next \in 1 .. Len(sent)
  BY <1>2, <1>4
<1> HIDE DEF next
<1>6. Len(data) < Len(event)
  BY <1>4 DEF StreamInv, Prompt, next
<1>7. /\ event \in Strings /\ Len(event) \in Nat \ {0} /\ Complete(event)
      /\ \A text \in Strings :
            /\ Len(text) \in 1 .. Len(event)
            /\ \A i \in 1 .. Len(text) : text[i] = event[i]
            /\ Complete(text)
            => text = event
  BY <1>4, EventTexts
<1>8. \A i \in 1 .. Len(event) : event[i] \notin {"q{", "q}"}
  <2>1. Range(event) \cap {"q{", "q}"} = {}
    BY <1>5 DEF AllPlain, Plain
  <2>2. DOMAIN event = 1 .. Len(event)
    BY <1>7 DEF Strings
  <2> HIDE DEF event
  <2>3. \A i \in 1 .. Len(event) : event[i] \in Range(event)
    BY <2>2, Zenon DEF Range
  <2>4. QED BY <2>1, <2>3, Zenon
<1> HIDE DEF event
<1>9. Len(Looking) \in 1 .. Len(event)
  BY <1>2, <1>3, <1>6, <1>7
<1>10. \A i \in 1 .. Len(Looking) : Looking[i] = event[i] /\ i \in 1 .. Len(event)
  BY <1>3, <1>4, <1>7, <1>9 DEF Lies
<1>11. \A i \in 1 .. Len(Looking) : Looking[i] \notin {"q{", "q}"}
  BY <1>8, <1>10
<1>12. Last(Looking) = Looking[Len(Looking)] /\ Len(Looking) \in 1 .. Len(Looking)
  BY <1>9 DEF Last
<1>13. Closes(Last(Looking)) => Last(Looking) = "}"
  BY <1>11, <1>12 DEF Closes
<1>14. Depth(Looking) = Count(Looking, {"{"}) - Count(Looking, {"}"})
  BY <1>3, <1>11, PlainDepth
<1>15. Complete(Looking) <=> Last(Looking) = "}" /\ Depth(Looking) = 0
  <2>1. \A kinds : Count(Looking, kinds) \in Nat
    <3>1. "{" \in Characters
      BY DEF Characters
    <3>2. QED BY <1>3, <3>1, CountAppend
  <2> DEFINE opening == {"{"}
             closing == {"}"}
  <2>2. Depth(Looking) = Count(Looking, opening) - Count(Looking, closing)
    BY <1>14
  <2>3. Complete(Looking) <=>
          Last(Looking) = "}" /\ Count(Looking, opening) = Count(Looking, closing)
    BY Zenon DEF Complete
  <2> HIDE DEF opening, closing
  <2>4. Depth(Looking) = 0 <=> Count(Looking, opening) = Count(Looking, closing)
    BY <2>1, <2>2
  <2>5. QED BY <2>3, <2>4
<1>16. Complete(Looking) => Looking = event
  BY <1>3, <1>7, <1>9, <1>10
<1>17. Len(Looking) = Len(event) => Looking = event
  BY <1>3, <1>7, <1>10, SeqEqual DEF Strings
<1>18. QED BY <1>7, <1>13, <1>15, <1>16, <1>17 DEF event, next

(* After the character that was looked at comes the next.                  *)
LEMMA LookedKeeps ==
    ASSUME StreamInv, pc = "parse", Looked, UNCHANGED <<mode, sent, transport, stop>>,
           NEW stream, NEW at, NEW cut, NEW p, Located(stream, at, cut, p),
           skippedheader' \in BOOLEAN, data' \in Strings, openbrackets' = Depth(data'),
           openbrackets' \in Int, delivered' \in Seq(Messages),
           Examined(stream, at, p + 1)', Prompt'
    PROVE  StreamInv'
<1>1. /\ Types /\ chunk \in Strings /\ chunk # <<>>
  BY DEF StreamInv, Types
<1>2. /\ Len(chunk) \in Nat \ {0} /\ chunk' = Tail(chunk) /\ chunk' \in Strings
      /\ Len(chunk') = Len(chunk) - 1
      /\ \A i \in 1 .. Len(chunk) - 1 : chunk'[i] = chunk[i + 1]
  BY <1>1, HeadTailProperties DEF Looked, Strings
<1>3. /\ p \in Nat /\ cut[0] = p + Len(chunk) + Len(decrypted) /\ Len(decrypted) \in Nat
  BY <1>1, Places
<1>4. Lies(chunk, stream, p) /\ Lies(decrypted, stream, p + Len(chunk))
  BY DEF Located, Fetched
<1>5. /\ UNCHANGED <<mode, sent, wire, arriving, decrypted>>
  BY DEF transport
<1>6. Fetched(stream, cut, p + 1)'
  <2>1. ASSUME NEW i \in 1 .. Len(chunk) - 1
        PROVE  chunk'[i] = stream[p + 1 + i]
    <3>1. i + 1 \in 1 .. Len(chunk) /\ p + (i + 1) = p + 1 + i
      BY <1>2, <1>3
    <3>2. QED BY <1>2, <1>4, <3>1 DEF Lies
  <2>2. Lies(chunk', stream, p + 1)
    BY <1>2, <2>1 DEF Lies
  <2>3. p + 1 + Len(chunk') = p + Len(chunk) /\ p + 1 \in Nat
    BY <1>2, <1>3
  <2>4. Lies(decrypted, stream, p + 1 + Len(chunk'))
    BY <1>4, <2>3
  <2>5. cut[0] = p + 1 + Len(chunk') + Len(decrypted)
    BY <1>3, <2>3
  <2>6. QED BY <1>5, <2>2, <2>3, <2>4, <2>5 DEF Fetched
<1>7. Located(stream, at, cut, p + 1)'
  BY <1>5, <1>6 DEF Located
<1>8. Types'
  <2>1. pc' \in {"select", "parse"} /\ (pc' = "parse" <=> chunk' # <<>>)
    <3>1. Len(chunk) = 1 <=> chunk' = <<>>
      <4>1. \A s \in Strings : Len(s) = 0 <=> s = <<>>
        BY DEF Strings
      <4>2. Len(chunk) = 1 <=> Len(chunk') = 0
        BY <1>2
      <4>3. QED BY <1>2, <4>1, <4>2
    <3>2. pc' = IF Len(chunk) = 1 THEN "select" ELSE "parse"
      BY DEF Looked
    <3>3. QED BY <3>1, <3>2, Zenon
  <2>2. /\ pc' \in {"select", "parse"} \cup Ended
        /\ pc' = "parse" <=> chunk' # <<>> /\ pc' # "ValueError"
    BY <2>1
  <2>3. mode' = "ssh" => decrypted' = <<>> /\ ~arriving'
    BY <1>1, <1>5 DEF Types
  <2>4. /\ mode' \in {"ssh", "tls"} /\ arriving' \in BOOLEAN
        /\ sent' \in Seq(Messages) /\ wire' \in Seq(Strings \ {<<>>}) /\ decrypted' \in Strings
    BY <1>1, <1>5 DEF Types
  <2>5. QED BY <1>2, <2>2, <2>3, <2>4 DEF Types
<1>9. QED BY <1>7, <1>8 DEF StreamInv

(* The end of the header.                                                  *)
LEMMA SkipHeaderKeeps ==
    ASSUME StreamInv, pc = "parse", SkipHeader(Looking),
           UNCHANGED <<mode, sent, transport, stop>>
    PROVE  StreamInv'
<1>1. PICK stream, at, cut, p : Located(stream, at, cut, p)
  BY DEF StreamInv
<1>2. /\ Types /\ delivered \in Seq(Messages) /\ sent \in Seq(Messages)
      /\ Len(sent) \in Nat
  BY DEF StreamInv, Types
<1>3. /\ ~skippedheader /\ Head(chunk) = "end of header"
  <2>1. Last(Looking) = Head(chunk)
    BY <1>1, <1>2, TextRead
  <2>2. QED BY <2>1 DEF SkipHeader, HeaderEnd
<1>4. p = 1 /\ delivered = <<>> /\ openbrackets = 0
  <2>1. /\ delivered = <<>> /\ openbrackets = 0
        /\ \/ p = 0 /\ Head(chunk) = "text"
           \/ p = 1 /\ Head(chunk) = "end of header"
    <3>1. ~skippedheader
      BY <1>3
    <3>2. QED BY <1>1, <1>2, <3>1, HeaderRead
  <2>2. QED BY <1>3, <2>1, Zenon
<1>5. /\ skippedheader' = TRUE /\ data' = <<>> /\ openbrackets' = 0 /\ delivered' = <<>>
      /\ Looked /\ UNCHANGED sent
  BY <1>4 DEF SkipHeader
<1>6. /\ data' \in Strings /\ Len(data') = 0 /\ openbrackets' = Depth(data')
      /\ openbrackets' \in Int /\ skippedheader' \in BOOLEAN /\ delivered' \in Seq(Messages)
      /\ Len(delivered') = 0
  BY <1>5, DepthEmpty DEF Strings
<1>7. Begun(at)' = 2
  <2>1. at[1] = 2
    BY <1>1 DEF Located, Written
  <2>2. QED BY <1>5, <1>6, <2>1 DEF Begun
<1>8. Examined(stream, at, p + 1)'
  BY <1>2, <1>4, <1>5, <1>6, <1>7 DEF Examined, Lies
<1>9. Prompt'
  <2>1. Looked /\ pc' # "ValueError"
    BY <1>5 DEF Looked
  <2>2. Len(delivered') < Len(sent') => Len(data') < Len(Text[sent'[Len(delivered') + 1]])
    <3>1. ASSUME Len(delivered') < Len(sent')
          PROVE  sent[1] \in Messages
      BY <1>2, <1>5, <1>6, <3>1
    <3>2. QED BY <1>5, <1>6, <3>1, EventTexts
  <2>3. QED BY <2>1, <2>2 DEF Prompt
<1>10. QED BY <1>1, <1>5, <1>6, <1>8, <1>9, LookedKeeps

(* A character that does not complete anything.                            *)
LEMMA CollectKeeps ==
    ASSUME StreamInv, pc = "parse", Collect(Looking),
           UNCHANGED <<mode, sent, transport, stop>>
    PROVE  StreamInv'
<1>1. PICK stream, at, cut, p : Located(stream, at, cut, p)
  BY DEF StreamInv
<1>2. /\ Types /\ data \in Strings /\ openbrackets = Depth(data)
      /\ skippedheader \in BOOLEAN /\ delivered \in Seq(Messages)
      /\ Examined(stream, at, p)
  BY <1>1 DEF StreamInv, Types, Located
<1>3. /\ Head(chunk) \in Characters /\ Looking \in Strings /\ Last(Looking) = Head(chunk)
      /\ Lies(Looking, stream, Begun(at)) /\ Begun(at) + Len(Looking) = p + 1
      /\ Len(Looking) = Len(data) + 1
  BY <1>1, <1>2, TextRead
<1>4. /\ openbrackets' = openbrackets + (IF Opens(Head(chunk)) THEN 1 ELSE 0)
                                      - (IF Closes(Head(chunk)) THEN 1 ELSE 0)
      /\ Closes(Head(chunk)) => openbrackets # 1
      /\ data' = Looking /\ UNCHANGED <<sent, skippedheader, delivered>> /\ Looked
      /\ ~skippedheader => Head(chunk) # "end of header"
  BY <1>3 DEF Collect, HeaderEnd
<1>5. /\ Depth(data) \in Int
      /\ Depth(Looking) = Depth(data) + (IF Opens(Head(chunk)) THEN 1 ELSE 0)
                                      - (IF Closes(Head(chunk)) THEN 1 ELSE 0)
  BY <1>2, <1>3, DepthAppend DEF Looking
<1> DEFINE up == IF Opens(Head(chunk)) THEN 1 ELSE 0
           down == IF Closes(Head(chunk)) THEN 1 ELSE 0
<1>6. up \in Int /\ down \in Int
  OBVIOUS
<1>7. openbrackets' = Depth(data') /\ openbrackets' \in Int /\ openbrackets' = Depth(Looking)
  <2>1. openbrackets' = openbrackets + up - down /\ Depth(Looking) = Depth(data) + up - down
    BY <1>4, <1>5
  <2>2. openbrackets = Depth(data) /\ Depth(data) \in Int /\ data' = Looking
    BY <1>2, <1>4, <1>5
  <2> HIDE DEF up, down
  <2>3. openbrackets' = Depth(Looking) /\ Depth(Looking) \in Int
    BY <1>6, <2>1, <2>2
  <2>4. QED BY <2>2, <2>3
<1> HIDE DEF up, down
<1>8. Begun(at)' = Begun(at)
  BY <1>4 DEF Begun
<1>9. ~skippedheader => delivered = <<>> /\ p + 1 < 2 /\ openbrackets' = 0
  <2> SUFFICES ASSUME ~skippedheader
               PROVE  delivered = <<>> /\ p + 1 < 2 /\ openbrackets' = 0
    OBVIOUS
  <2>1. delivered = <<>> /\ openbrackets = 0 /\ p = 0 /\ Head(chunk) = "text"
    <3>1. /\ delivered = <<>> /\ openbrackets = 0
          /\ \/ p = 0 /\ Head(chunk) = "text"
             \/ p = 1 /\ Head(chunk) = "end of header"
      BY <1>1, <1>2, HeaderRead
    <3>2. QED BY <1>4, <3>1, Zenon
  <2>2. up = 0 /\ down = 0
    BY <2>1 DEF Opens, Closes, up, down
  <2>3. openbrackets' = openbrackets + up - down
    BY <1>4 DEF up, down
  <2>4. p + 1 < 2 /\ openbrackets' = 0
    BY <2>1, <2>2, <2>3
  <2>5. QED BY <2>1, <2>4
<1>10. Examined(stream, at, p + 1)'
  <2>1. /\ Len(delivered) <= Len(sent)
        /\ \A n \in 1 .. Len(delivered) : delivered[n] = sent[n]
    BY <1>2 DEF Examined
  <2>2. QED BY <1>3, <1>4, <1>8, <1>9, <2>1 DEF Examined
<1>11. Prompt'
  <2> SUFFICES ASSUME AllPlain, skippedheader
               PROVE  Len(Looking) < Len(Text[sent[Len(delivered) + 1]])
    BY <1>4 DEF Prompt, AllPlain, Looked
  <2>1. /\ sent[Len(delivered) + 1] \in Messages /\ Len(delivered) < Len(sent)
    BY <1>1, <1>2, EventRead
  <2>2. Len(data) < Len(Text[sent[Len(delivered) + 1]])
    BY <2>1 DEF StreamInv, Prompt
  <2>3. Len(Looking) # Len(Text[sent[Len(delivered) + 1]])
    <3>1. SUFFICES ASSUME Len(Looking) = Len(Text[sent[Len(delivered) + 1]])
                   PROVE  FALSE
      OBVIOUS
    <3>2. Head(chunk) = "}" /\ Depth(Looking) = 0
      BY <1>3, <3>1, PlainRead
    <3>3. Closes(Head(chunk)) /\ up = 0 /\ down = 1
      BY <3>2 DEF Closes, Opens, up, down
    <3>4. Depth(data) + up - down = 0
      BY <1>5, <3>2 DEF up, down
    <3>5. Depth(data) = 1
      BY <1>5, <3>3, <3>4
    <3>6. QED BY <1>2, <1>4, <3>3, <3>5
  <2>4. Len(Text[sent[Len(delivered) + 1]]) \in Nat /\ Len(data) \in Nat
    BY <1>2, <2>1, EventTexts DEF Strings
  <2>5. QED BY <1>3, <2>2, <2>3, <2>4
<1>12. QED BY <1>1, <1>2, <1>3, <1>4, <1>7, <1>10, <1>11, LookedKeeps

(* The text that json.loads takes is the event whose turn it is.           *)
LEMMA YieldEventDelivers ==
    ASSUME StreamInv, pc = "parse", YieldEvent(Looking),
           NEW stream, NEW at, NEW cut, NEW p, Located(stream, at, cut, p)
    PROVE  /\ skippedheader /\ Len(delivered) < Len(sent)
           /\ delivered' = Append(delivered, sent[Len(delivered) + 1])
           /\ sent[Len(delivered) + 1] \in Messages
           /\ at[Len(delivered) + 2] = p + 1
<1>1. Types
  BY DEF StreamInv
<1>2. skippedheader
  BY <1>1, HeaderRead DEF YieldEvent
<1>3. /\ Len(delivered) < Len(sent) /\ sent[Len(delivered) + 1] \in Messages
      /\ Lies(Text[sent[Len(delivered) + 1]], stream, Begun(at))
      /\ at[Len(delivered) + 2] = Begun(at) + Len(Text[sent[Len(delivered) + 1]])
  BY <1>1, <1>2, EventRead
<1>4. PICK m \in Parsed(Looking) : delivered' = Append(delivered, m)
  BY DEF YieldEvent
<1>5. m \in Messages /\ Text[m] = Looking
  BY <1>4 DEF Parsed
<1>6. /\ Lies(Looking, stream, Begun(at)) /\ Begun(at) + Len(Looking) = p + 1
      /\ Begun(at) \in Nat
  BY <1>1, TextRead, Places
<1>7. m = sent[Len(delivered) + 1]
  BY <1>3, <1>5, <1>6, SameEvent
<1>8. QED BY <1>2, <1>3, <1>4, <1>5, <1>6, <1>7

LEMMA YieldEventKeeps ==
    ASSUME StreamInv, pc = "parse", YieldEvent(Looking),
           UNCHANGED <<mode, sent, transport, stop>>
    PROVE  StreamInv'
<1>1. PICK stream, at, cut, p : Located(stream, at, cut, p)
  BY DEF StreamInv
<1>2. /\ Types /\ delivered \in Seq(Messages) /\ sent \in Seq(Messages)
      /\ Len(sent) \in Nat /\ Len(delivered) \in Nat /\ Examined(stream, at, p) /\ p \in Nat
  BY <1>1, Places DEF StreamInv, Types, Located
<1>3. /\ skippedheader /\ Len(delivered) < Len(sent)
      /\ delivered' = Append(delivered, sent[Len(delivered) + 1])
      /\ sent[Len(delivered) + 1] \in Messages /\ at[Len(delivered) + 2] = p + 1
  BY <1>1, YieldEventDelivers
<1>4. /\ skippedheader' = skippedheader /\ data' = <<>> /\ openbrackets' = 0
      /\ Looked /\ UNCHANGED sent
  BY DEF YieldEvent
<1>5. /\ data' \in Strings /\ Len(data') = 0 /\ openbrackets' = Depth(data')
      /\ openbrackets' \in Int /\ skippedheader' \in BOOLEAN
  BY <1>3, <1>4, DepthEmpty DEF Strings
<1>6. /\ delivered' \in Seq(Messages) /\ Len(delivered') = Len(delivered) + 1
      /\ delivered'[Len(delivered) + 1] = sent[Len(delivered) + 1]
      /\ \A n \in 1 .. Len(delivered) : delivered'[n] = delivered[n]
  BY <1>2, <1>3
<1>7. Begun(at)' = p + 1
  <2>1. Len(delivered') + 1 = Len(delivered) + 2
    BY <1>2, <1>6
  <2>2. QED BY <1>3, <1>4, <2>1 DEF Begun
<1>8. Examined(stream, at, p + 1)'
  <2>1. \A n \in 1 .. Len(delivered) : delivered[n] = sent[n]
    BY <1>2 DEF Examined
  <2>2. ASSUME NEW n \in 1 .. Len(delivered) + 1
        PROVE  delivered'[n] = sent[n]
    <3>1. CASE n = Len(delivered) + 1
      BY <1>6, <3>1
    <3>2. CASE n # Len(delivered) + 1
      <4>1. n \in 1 .. Len(delivered)
        BY <1>2, <3>2
      <4>2. QED BY <1>6, <2>1, <4>1
    <3>3. QED BY <3>1, <3>2
  <2>3. Len(delivered') <= Len(sent)
    BY <1>2, <1>3, <1>6
  <2>4. p + 1 = p + 1 + Len(data') /\ Lies(data', stream, p + 1)
    BY <1>2, <1>5 DEF Lies
  <2>5. QED BY <1>3, <1>4, <1>6, <1>7, <2>2, <2>3, <2>4 DEF Examined
<1>9. Prompt'
  <2>1. pc' # "ValueError"
    BY <1>4 DEF Looked
  <2>2. Len(delivered') < Len(sent') => Len(data') < Len(Text[sent'[Len(delivered') + 1]])
    <3>1. SUFFICES ASSUME Len(delivered') < Len(sent)
                   PROVE  0 < Len(Text[sent[Len(delivered') + 1]])
      BY <1>4, <1>5
    <3>2. Len(delivered') + 1 \in 1 .. Len(sent)
      BY <1>2, <1>6, <3>1
    <3>3. sent[Len(delivered') + 1] \in Messages
      BY <1>2, <3>2
    <3>4. QED BY <3>3, EventTexts
  <2>3. QED BY <2>1, <2>2 DEF Prompt
<1>10. QED BY <1>1, <1>4, <1>5, <1>6, <1>8, <1>9, LookedKeeps

(* Without braces in strings the JSON parser is given whole events only.   *)
LEMMA NotJsonKeeps ==
    ASSUME StreamInv, pc = "parse", NotJson(Looking),
           UNCHANGED <<mode, sent, transport, stop>>
    PROVE  StreamInv'
<1>1. PICK stream, at, cut, p : Located(stream, at, cut, p)
  BY DEF StreamInv
<1>2. /\ Types /\ data \in Strings /\ openbrackets = Depth(data)
  BY DEF StreamInv, Types
<1>3. /\ pc' = "ValueError" /\ UNCHANGED <<chunk, parser, skippedheader, data, openbrackets,
                                           delivered>>
      /\ UNCHANGED <<mode, sent, wire, arriving, decrypted>>
      /\ Parsed(Looking) = {} /\ Closes(Last(Looking)) /\ openbrackets = 1
  BY DEF NotJson, parser, transport
<1>4. ~AllPlain
  <2> SUFFICES ASSUME AllPlain
               PROVE  FALSE
    OBVIOUS
  <2>1. skippedheader
    BY <1>1, <1>2, <1>3, HeaderRead
  <2>2. /\ sent[Len(delivered) + 1] \in Messages
    BY <1>1, <1>2, <2>1, EventRead
  <2>3. Head(chunk) \in Characters /\ Last(Looking) = Head(chunk)
    BY <1>1, <1>2, TextRead
  <2>4. Last(Looking) = "}"
    BY <1>3, <2>1, PlainRead
  <2>5. Depth(Looking) = 0
    <3> DEFINE up == IF Opens(Head(chunk)) THEN 1 ELSE 0
               down == IF Closes(Head(chunk)) THEN 1 ELSE 0
    <3>1. up = 0 /\ down = 1
      BY <2>3, <2>4 DEF Closes, Opens
    <3>2. Depth(Looking) = Depth(data) + up - down
      BY <1>2, <2>3, DepthAppend DEF Looking
    <3>3. Depth(data) = 1
      BY <1>2, <1>3
    <3> HIDE DEF up, down
    <3>4. QED BY <3>1, <3>2, <3>3
  <2>6. Looking = Text[sent[Len(delivered) + 1]]
    BY <2>1, <2>4, <2>5, PlainRead
  <2>7. QED BY <1>3, <2>2, <2>6 DEF Parsed
<1>5. Types'
  <2>1. /\ pc' \in {"select", "parse"} \cup Ended
        /\ pc' = "parse" <=> chunk' # <<>> /\ pc' # "ValueError"
        /\ mode' = "ssh" => decrypted' = <<>> /\ ~arriving'
    BY <1>2, <1>3 DEF Types, Ended
  <2>2. QED BY <1>2, <1>3, <2>1 DEF Types
<1>6. Located(stream, at, cut, p)'
  BY <1>1, <1>3 DEF Located, Fetched, Examined, Begun
<1>7. Prompt'
  BY <1>3, <1>4 DEF Prompt, AllPlain
<1>8. QED BY <1>2, <1>3, <1>5, <1>6, <1>7 DEF StreamInv

LEMMA StreamNext ==
    ASSUME StreamInv, [Next]_vars
    PROVE  StreamInv'
<1>1. ASSUME NEW m \in Messages, Send(m)
      PROVE  StreamInv'
  BY <1>1, SendKeeps
<1>2. CASE Parse
  <2>1. pc = "parse" /\ UNCHANGED <<mode, sent, transport, stop>>
    BY <1>2 DEF Parse
  <2>2. SkipHeader(Looking) \/ Collect(Looking) \/ YieldEvent(Looking) \/ NotJson(Looking)
    BY <1>2 DEF Parse, Looking
  <2>3. QED BY <2>1, <2>2, SkipHeaderKeeps, CollectKeeps, YieldEventKeeps, NotJsonKeeps
<1>3. QED
  BY <1>1, <1>2, QuietStepsKeep, ReadChannelKeeps, ReadSocketKeeps DEF Next, Listen

(* All that was sent has its place, on its way or in the parser.           *)
THEOREM StreamCorrect == Spec => []StreamInv
<1>1. StreamInv /\ [Next]_vars => StreamInv'
  BY StreamNext
<1>2. QED BY <1>1, StreamInitial, PTL DEF Spec

-----------------------------------------------------------------------------
(***************************************************************************)
(* What it shows                                                           *)
(***************************************************************************)
(* While the JSON parser has not failed the braces are counted to what is  *)
(* open in the data, whatever the events and however they are cut.         *)
THEOREM StreamTyped == Spec => []TypeOK
<1>1. StreamInv => TypeOK
  <2> SUFFICES ASSUME StreamInv
               PROVE  TypeOK
    OBVIOUS
  <2>1. Types /\ openbrackets = Depth(data)
    BY DEF StreamInv
  <2>2. /\ sent \in Seq(Messages) /\ delivered \in Seq(Messages)
        /\ chunk \in Seq(Characters) /\ data \in Seq(Characters)
        /\ pc \in {"select", "parse"} \cup Ended
    BY <2>1 DEF Types, Strings
  <2>3. /\ pc = "parse" <=> chunk # <<>> /\ pc # "ValueError"
        /\ mode = "ssh" => decrypted = <<>> /\ ~arriving
    BY <2>1 DEF Types
  <2>4. QED BY <2>1, <2>2, <2>3, Zenon DEF TypeOK
<1>2. QED BY <1>1, StreamCorrect, PTL

(* When nothing is left to be read, the last character of the stream was   *)
(* looked at, and events without braces in strings end with it.            *)
LEMMA AllHandled ==
    ASSUME StreamInv, AllPlain, pc = "select", wire = <<>>, decrypted = <<>>
    PROVE  delivered = sent
<1>1. PICK stream, at, cut, p : Located(stream, at, cut, p)
  BY DEF StreamInv
<1>2. /\ Types /\ chunk = <<>> /\ sent \in Seq(Messages) /\ delivered \in Seq(Messages)
  BY DEF StreamInv, Types
<1>3. /\ Len(stream) \in Nat /\ p \in Nat /\ cut[0] = p + Len(chunk) + Len(decrypted)
      /\ Len(sent) \in Nat /\ Len(delivered) \in Nat /\ Len(delivered) <= Len(sent) /\ Len(data) \in Nat
      /\ p = Begun(at) + Len(data)
  BY <1>1, <1>2, Places
<1>4. /\ at \in [1 .. Len(sent) + 1 -> 0 .. Len(stream)] /\ at[1] = 2
      /\ \A n \in 1 .. Len(sent) : at[n + 1] = at[n] + Len(Text[sent[n]])
  BY <1>1 DEF Located, Written
<1>5. /\ cut[Len(wire)] = Len(stream)
      /\ \A n \in 1 .. Len(delivered) : delivered[n] = sent[n]
      /\ ~skippedheader => p < 2
  BY <1>1 DEF Located, Waits, Examined
<1>6. p = Len(stream)
  <2>1. Len(wire) = 0 /\ Len(chunk) = 0 /\ Len(decrypted) = 0
    BY <1>2
  <2>2. QED BY <1>3, <1>5, <2>1
<1>7. skippedheader
  <2>1. 1 \in 1 .. Len(sent) + 1
    BY <1>3
  <2>2. at[1] <= Len(stream)
    BY <1>3, <1>4, <2>1
  <2>3. QED BY <1>3, <1>4, <1>5, <1>6, <2>2
<1>8. Len(delivered) = Len(sent)
  <2> SUFFICES ASSUME Len(delivered) < Len(sent)
               PROVE  FALSE
    BY <1>3
  <2> DEFINE next == Len(delivered) + 1
  <2>1. Len(data) < Len(Text[sent[next]])
    BY <1>7 DEF StreamInv, Prompt
  <2>2. at[next] = Begun(at)
    BY <1>7 DEF Begun
  <2>3. next \in 1 .. Len(sent) /\ next \in 1 .. Len(sent) + 1 /\ next + 1 \in 1 .. Len(sent) + 1
    BY <1>3
  <2> HIDE DEF next
  <2>4. Len(Text[sent[next]]) \in Nat
    <3>1. sent[next] \in Messages
      BY <1>2, <2>3
    <3>2. QED BY <3>1, EventTexts
  <2>5. /\ at[next + 1] = at[next] + Len(Text[sent[next]])
        /\ at[next] \in 0 .. Len(stream) /\ at[next + 1] \in 0 .. Len(stream)
    BY <1>4, <2>3
  <2>6. QED BY <1>3, <1>6, <2>1, <2>2, <2>4, <2>5
<1>9. QED BY <1>2, <1>5, <1>8, SeqEqual

(* However the stream is cut, the JSON parser never fails and nothing is   *)
(* held back while the reader waits with nothing to be read, as long as no *)
(* string in an event has a brace.                                         *)
THEOREM NothingHeldBack == Spec => []NothingHeld
<1>1. StreamInv => NothingHeld
  BY AllHandled DEF StreamInv, Prompt, NothingHeld
<1>2. QED BY <1>1, StreamCorrect, PTL

(***************************************************************************)
(* The refinement of EventQueue                                            *)
(***************************************************************************)
LEMMA QueueNext ==
    ASSUME StreamInv, [Next]_vars
    PROVE  [Queue!Next]_Queue!vars
<1>1. ASSUME UNCHANGED <<sent, delivered>>, pc \in Ended <=> pc' \in Ended
      PROVE  UNCHANGED Queue!vars
  <2>1. (pc' \in Ended) = (pc \in Ended)
    BY <1>1
  <2>2. QED BY <1>1, <2>1, SMT DEF Queue!vars
<1>2. ASSUME UNCHANGED <<sent, delivered>>, pc \notin Ended, pc' \in Ended
      PROVE  Queue!Next
  BY <1>2, Zenon DEF Queue!Next, Queue!End
<1>3. ASSUME NEW m \in Messages, Send(m)
      PROVE  Queue!Next
  <2>1. sent' = Append(sent, m) /\ delivered' = delivered /\ pc' = pc
    BY <1>3 DEF Send, parser
  <2>2. QED BY <2>1, Zenon DEF Queue!Next, Queue!Send
<1>4. CASE Arrive \/ Close \/ RequestStop \/ UNCHANGED vars
  BY <1>1, <1>4 DEF Arrive, Close, RequestStop, vars, parser
<1>5. CASE ReadChannel \/ ReadSocket \/ ReadRest
  <2>1. UNCHANGED <<sent, delivered>> /\ pc = "select" /\ pc' = "parse"
    BY <1>5 DEF ReadChannel, ReadSocket, ReadRest, parser
  <2>2. QED BY <1>1, <2>1 DEF Ended
<1>6. CASE Stop \/ ReadPart \/ ReadEnd \/ Break
  <2>1. UNCHANGED <<sent, delivered>> /\ pc = "select" /\ pc' \in {"exited", "raised"}
    BY <1>6 DEF Stop, ReadPart, ReadEnd, Break, parser
  <2>2. QED BY <1>2, <2>1 DEF Ended
<1>7. CASE Parse
  <2>1. pc = "parse" /\ UNCHANGED sent /\ pc \notin Ended
    BY <1>7 DEF Parse, Ended
  <2>2. Looked => pc' \notin Ended
    BY DEF Looked, Ended
  <2>3. CASE SkipHeader(Looking) \/ Collect(Looking)
    BY <1>1, <2>1, <2>2, <2>3 DEF SkipHeader, Collect
  <2>4. CASE YieldEvent(Looking)
    <3>1. PICK stream, at, cut, p : Located(stream, at, cut, p)
      BY DEF StreamInv
    <3>2. /\ Len(delivered) < Len(sent)
          /\ delivered' = Append(delivered, sent[Len(delivered) + 1])
      BY <2>1, <2>4, <3>1, YieldEventDelivers
    <3>3. pc' \notin Ended
      BY <2>2, <2>4 DEF YieldEvent
    <3>4. (pc' \in Ended) = (pc \in Ended)
      BY <2>1, <3>3
    <3>5. QED BY <2>1, <3>2, <3>4, SMT DEF Queue!Next, Queue!Deliver
  <2>5. CASE NotJson(Looking)
    BY <1>2, <2>1, <2>5 DEF NotJson, parser, Ended
  <2>6. QED BY <1>7, <2>3, <2>4, <2>5 DEF Parse, Looking
<1>8. QED BY <1>3, <1>4, <1>5, <1>6, <1>7, Zenon DEF Next, Listen

(* However the stream is cut into records and chunks, and whatever braces  *)
(* there are in strings, the events that are handled are those Docker      *)
(* sent, in their order: the reader implements EventQueue.                 *)
THEOREM EventsInOrder == Spec => InOrder
<1>1. Init => Queue!Init
  <2>1. Init => sent = <<>> /\ delivered = <<>> /\ pc \notin Ended
    BY DEF Init, Ended
  <2>2. QED BY <2>1, SMT DEF Queue!Init
<1>2. StreamInv /\ [Next]_vars => [Queue!Next]_Queue!vars
  BY QueueNext
<1>3. QED BY <1>1, <1>2, StreamCorrect, PTL DEF Spec, InOrder, Queue!Spec

=============================================================================
