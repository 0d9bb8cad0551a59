---------------------------- MODULE EventStream ----------------------------
(***************************************************************************)
(* The stream of Docker's events on its way from the VM to the thread that *)
(* monitors it: execute_docker_data_listen of the two connectors, which    *)
(* waits for data with select and reads it in chunks, and                  *)
(* execute_docker_event_listen, which cuts what was read into JSON objects *)
(* by counting braces.                                                     *)
(*                                                                         *)
(* A character is what the parser can tell from another: "{", "}", the     *)
(* newline that ends the header, or any other; and "q{" and "q}" are       *)
(* braces inside a JSON string, which only JSON tells from the others.     *)
(***************************************************************************)
EXTENDS Integers, Sequences, FiniteSets, SequencesExt

CONSTANTS
    Messages,    \* events Docker may send
    Text,        \* [Messages -> sequences of characters]
    MaxSent,     \* how many it sends (a bound)
    ChunkSize    \* what recv of a TLS socket returns at most: 1024

Characters == {"text", "{", "}", "q{", "q}", "end of header"}

ASSUME StreamAssumption ==
    /\ Text \in [Messages -> Seq(Characters)]
    /\ \A m \in Messages : Text[m] # <<>>
    /\ MaxSent \in Nat /\ ChunkSize \in Nat \ {0}

Count(text, characters) == Cardinality({n \in 1 .. Len(text) : text[n] \in characters})

(* An object of JSON is complete with the brace that closes the first one. *)
Complete(text) == Last(text) = "}" /\ Count(text, {"{"}) = Count(text, {"}"})

(* An event is one object of JSON, and known by its text. *)
ASSUME EventsAssumption ==
    /\ \A m \in Messages :
          /\ Complete(Text[m])
          /\ \A n \in 1 .. Len(Text[m]) - 1 : ~Complete(SubSeq(Text[m], 1, n))
    /\ \A m, n \in Messages : Text[m] = Text[n] => m = n

VARIABLES
    mode,       \* "ssh" or "tls"
    sent,       \* history: the events Docker has sent
    wire,       \* records that wait in the socket, or in the SSH channel
    arriving,   \* the last of them has not arrived completely
    closed,     \* the other side has closed the connection
    decrypted,  \* the rest of a record that was not read as a whole
    chunk,      \* characters that were read and not looked at
    skippedheader, data, openbrackets,
    delivered,  \* the events that were yielded
    stop,       \* stop_monitoring_request
    pc

transport == <<wire, arriving, closed, decrypted>>
parser == <<skippedheader, data, openbrackets, delivered>>
vars == <<mode, sent, transport, chunk, parser, stop, pc>>

Header == <<"text", "end of header">>

(* "exited": the generator ends; "raised": it lets an exception of the     *)
(* connector through; "ValueError": one of the JSON parser.                *)
Ended == {"exited", "raised", "ValueError"}

(***************************************************************************)
(* Docker and the network                                                  *)
(***************************************************************************)
(* What is written at once may be cut into two records.                    *)
Records(text) ==
    {<<text>>} \cup {<<SubSeq(text, 1, n), SubSeq(text, n + 1, Len(text))>> :
                       n \in 1 .. Len(text) - 1}

Send(m) ==
    /\ ~closed /\ Len(sent) < MaxSent
    /\ sent' = Append(sent, m)
    /\ \E r \in Records(Text[m]) : wire' = wire \o r
    /\ arriving' \in (IF mode = "tls" THEN BOOLEAN ELSE {FALSE})
    /\ UNCHANGED <<mode, closed, decrypted, chunk, parser, stop, pc>>

Arrive ==
    /\ arriving /\ arriving' = FALSE
    /\ UNCHANGED <<mode, sent, wire, closed, decrypted, chunk, parser, stop, pc>>

Close ==
    /\ ~closed /\ ~arriving /\ closed' = TRUE
    /\ UNCHANGED <<mode, sent, wire, arriving, decrypted, chunk, parser, stop, pc>>

RequestStop ==
    /\ ~stop /\ stop' = TRUE
    /\ UNCHANGED <<mode, sent, transport, chunk, parser, pc>>

(***************************************************************************)
(* execute_docker_data_listen                                              *)
(***************************************************************************)
(* Mutant: it waits for data without a limit. *)
Stop_with_data ==
    /\ pc = "select" /\ stop /\ wire # <<>>
    /\ pc' = "exited"
    /\ UNCHANGED <<mode, sent, transport, chunk, parser, stop>>

(* `while not stop_monitoring_request', which select comes back to every   *)
(* second.                                                                 *)
Stop ==
    /\ pc = "select" /\ stop
    /\ pc' = "exited"
    /\ UNCHANGED <<mode, sent, transport, chunk, parser, stop>>

(* The SSH channel gives one character, wherever records end. *)
ReadChannel ==
    /\ pc = "select" /\ ~stop /\ mode = "ssh" /\ wire # <<>>
    /\ chunk' = <<Head(Head(wire))>>
    /\ wire' = IF Len(Head(wire)) = 1 THEN Tail(wire)
                                      ELSE <<Tail(Head(wire))>> \o Tail(wire)
    /\ pc' = "parse"
    /\ UNCHANGED <<mode, sent, arriving, closed, decrypted, parser, stop>>

Min2(m, n) == IF m < n THEN m ELSE n
FirstChunk(s) == SubSeq(s, 1, Min2(ChunkSize, Len(s)))
AfterFirstChunk(s) == SubSeq(s, Min2(ChunkSize, Len(s)) + 1, Len(s))

(* Mutant: the parser begins anew with each chunk. *)
ReadSocket_forgets ==
    /\ pc = "select" /\ ~stop /\ mode = "tls" /\ wire # <<>>
    /\ decrypted = <<>> /\ (arriving => Len(wire) > 1)
    /\ chunk' = FirstChunk(Head(wire))
    /\ decrypted' = AfterFirstChunk(Head(wire))
    /\ wire' = Tail(wire)
    /\ data' = <<>> /\ openbrackets' = 0
    /\ pc' = "parse"
    /\ UNCHANGED <<mode, sent, arriving, closed, skippedheader, delivered, stop>>

(* select looks at the socket; recv returns what was decrypted before      *)
(* first, and never more than the rest of one record.                      *)
ReadSocket ==
    /\ pc = "select" /\ ~stop /\ mode = "tls" /\ wire # <<>>
    /\ \/ /\ decrypted = <<>> /\ (arriving => Len(wire) > 1)
          /\ chunk' = FirstChunk(Head(wire))
          /\ decrypted' = AfterFirstChunk(Head(wire))
          /\ wire' = Tail(wire)
       \/ /\ decrypted # <<>>
          /\ chunk' = FirstChunk(decrypted)
          /\ decrypted' = AfterFirstChunk(decrypted)
          /\ wire' = wire
    /\ pc' = "parse"
    /\ UNCHANGED <<mode, sent, arriving, closed, parser, stop>>

(* recv of the first part of a record raises SSL_ERROR_WANT_READ, which is *)
(* neither EAGAIN nor EINTR.                                               *)
ReadPart ==
    /\ pc = "select" /\ ~stop /\ mode = "tls" /\ Len(wire) = 1
    /\ decrypted = <<>> /\ arriving
    /\ pc' = "raised"
    /\ UNCHANGED <<mode, sent, transport, chunk, parser, stop>>

(* With the end of the connection select finds what was decrypted, too. *)
ReadRest ==
    /\ pc = "select" /\ ~stop /\ closed /\ wire = <<>> /\ decrypted # <<>>
    /\ chunk' = FirstChunk(decrypted)
    /\ decrypted' = AfterFirstChunk(decrypted)
    /\ pc' = "parse"
    /\ UNCHANGED <<mode, sent, wire, arriving, closed, parser, stop>>

ReadEnd ==
    /\ pc = "select" /\ ~stop /\ closed /\ wire = <<>> /\ decrypted = <<>>
    /\ pc' = "exited"
    /\ UNCHANGED <<mode, sent, transport, chunk, parser, stop>>

Break ==
    /\ pc = "select"
    /\ pc' = "raised"
    /\ UNCHANGED <<mode, sent, transport, chunk, parser, stop>>

(***************************************************************************)
(* execute_docker_event_listen                                             *)
(***************************************************************************)
(* json.loads: one object and nothing else.                                *)
Parsed(text) == {m \in Messages : Text[m] = text}

HeaderEnd(text) == ~skippedheader /\ Last(text) = "end of header"
Opens(character) == character \in {"{", "q{"}
Closes(character) == character \in {"}", "q}"}

(* Mutant: one character of a chunk is looked at. *)
Looked_first == chunk' = Tail(chunk) /\ pc' = "select"

(* Back to the connector when the chunk has been looked at.  Its length    *)
(* never reaches the 2048 that would raise.                                *)
Looked ==
    /\ chunk' = Tail(chunk)
    /\ pc' = IF Len(chunk) = 1 THEN "select" ELSE "parse"

(* Mutant: the header is taken for part of the first event. *)
SkipHeader_kept(text) ==
    /\ HeaderEnd(text)
    /\ skippedheader' = TRUE /\ data' = text
    /\ UNCHANGED <<openbrackets, delivered>>
    /\ Looked

SkipHeader(text) ==
    /\ HeaderEnd(text)
    /\ skippedheader' = TRUE /\ data' = <<>>
    /\ UNCHANGED <<openbrackets, delivered>>
    /\ Looked

(* Mutant: closing braces are not counted. *)
Collect_opening(text) ==
    /\ ~HeaderEnd(text)
    /\ Closes(Last(text)) => openbrackets # 1
    /\ openbrackets' = openbrackets + (IF Opens(Last(text)) THEN 1 ELSE 0)
    /\ data' = text
    /\ UNCHANGED <<skippedheader, delivered>>
    /\ Looked

Collect(text) ==
    /\ ~HeaderEnd(text)
    /\ Closes(Last(text)) => openbrackets # 1
    /\ openbrackets' = openbrackets + (IF Opens(Last(text)) THEN 1 ELSE 0)
                                    - (IF Closes(Last(text)) THEN 1 ELSE 0)
    /\ data' = text
    /\ UNCHANGED <<skippedheader, delivered>>
    /\ Looked

YieldEvent(text) ==
    /\ ~HeaderEnd(text) /\ Closes(Last(text)) /\ openbrackets = 1
    /\ \E m \in Parsed(text) : delivered' = Append(delivered, m)
    /\ openbrackets' = 0 /\ data' = <<>>
    /\ UNCHANGED skippedheader
    /\ Looked

NotJson(text) ==
    /\ ~HeaderEnd(text) /\ Closes(Last(text)) /\ openbrackets = 1
    /\ Parsed(text) = {}
    /\ pc' = "ValueError"
    /\ UNCHANGED <<chunk, parser>>

Parse ==
    /\ pc = "parse"
    /\ LET text == Append(data, Head(chunk))
       IN  SkipHeader(text) \/ Collect(text) \/ YieldEvent(text) \/ NotJson(text)
    /\ UNCHANGED <<mode, sent, transport, stop>>

-----------------------------------------------------------------------------
(* The request was sent and Docker answers. *)
Init ==
    /\ mode \in {"ssh", "tls"}
    /\ wire \in Records(Header) /\ arriving = FALSE
    /\ closed = FALSE /\ decrypted = <<>> /\ chunk = <<>>
    /\ skippedheader = FALSE /\ data = <<>> /\ openbrackets = 0
    /\ sent = <<>> /\ delivered = <<>>
    /\ stop = FALSE /\ pc = "select"

Listen == Stop \/ ReadChannel \/ ReadSocket \/ ReadPart \/ ReadRest \/ ReadEnd \/ Parse

Next ==
    \/ \E m \in Messages : Send(m)
    \/ Arrive \/ Close \/ RequestStop
    \/ Listen
    \/ Break

(* The thread goes on while there is something to do. *)
Spec == Init /\ [][Next]_vars /\ WF_vars(Listen) /\ WF_vars(Arrive)

-----------------------------------------------------------------------------
(***************************************************************************)
(* Properties                                                              *)
(***************************************************************************)
(* Events without braces in their strings. *)
Plain(m) == Range(Text[m]) \cap {"q{", "q}"} = {}
AllPlain == \A n \in 1 .. Len(sent) : Plain(sent[n])

(* Events Docker writes into records that recv returns as a whole.         *)
AllFit == mode = "tls" => \A n \in 1 .. Len(sent) : Len(Text[sent[n]]) <= ChunkSize

(* What the braces have been counted to is what is open in the data, and   *)
(* nothing waits in the TLS library over SSH.                              *)
Depth(text) == Count(text, {"{", "q{"}) - Count(text, {"}", "q}"})

TypeOK ==
    /\ sent \in Seq(Messages) /\ delivered \in Seq(Messages)
    /\ chunk \in Seq(Characters) /\ data \in Seq(Characters)
    /\ pc \in {"select", "parse"} \cup Ended
    /\ pc = "parse" <=> chunk # <<>> /\ pc # "ValueError"
    /\ pc # "ValueError" => openbrackets = Depth(data)
    /\ mode = "ssh" => decrypted = <<>> /\ ~arriving

(* However the stream is cut into records and chunks, and whatever braces  *)
(* there are in strings, the events that are handled are those Docker sent,*)
(* in their order, none left out and none twice.                           *)
(* (execute_docker_event_listen)                                           *)
Queue == INSTANCE EventQueue WITH ended <- pc \in Ended
InOrder == Queue!Spec

(* When the reader waits, with nothing in the socket nor in the TLS        *)
(* library, it has handled all there was; and the JSON parser never fails. *)
(* This is about events without braces in strings.                         *)
(* (execute_docker_event_listen, execute_docker_data_listen)               *)
NothingHeld ==
    AllPlain => /\ pc # "ValueError"
                /\ pc = "select" /\ wire = <<>> /\ decrypted = <<>> => delivered = sent

(* An event that was sent is handled, without waiting for another one,     *)
(* unless the connection ends.  This is about events without braces in     *)
(* strings that fit into one read: the rest of a larger one waits in the   *)
(* TLS library, where select does not see it, until more arrives.          *)
(* (execute_docker_data_listen)                                            *)
Handled ==
    \A n \in 1 .. MaxSent :
        Len(sent) >= n ~> \/ Len(delivered) >= n
                          \/ pc \in Ended \/ ~AllPlain \/ ~AllFit

(* A stop request ends the stream, silent or not.                          *)
(* (execute_docker_data_listen)                                            *)
Stops == stop ~> pc \in Ended

=============================================================================
