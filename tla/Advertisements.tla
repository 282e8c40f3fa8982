--------------------------- MODULE Advertisements ---------------------------
(***************************************************************************)
(* The consumer's choice of a peer: select_genesis reading Freddie's        *)
(* advertisement stream through AdvertisementStream::next, which puts the   *)
(* lines of the response together from chunks.                              *)
(*                                                                         *)
(* The body of the response is a sequence of symbols: a line break, a       *)
(* blank, "brace" for the first part of an envelope, and for its second     *)
(* part the envelope's content, a member of Envelopes.  Envelopes in        *)
(* Geneses are of type Genesis.                                            *)
(*                                                                         *)
(* External: the response.  It comes in chunks of any size, at any time,    *)
(* and ends, breaks or stays open.                                          *)
(***************************************************************************)
EXTENDS Naturals, FiniteSets, Sequences, FiniteSetsExt

CONSTANTS Bodies,    \* what Freddie may send
          Envelopes, Geneses

Errors == {"Transport", "ProtocolVersion", "Http", "NoGenesis", "Decode", "Cancelled"}

Symbols == {"nl", "sp", "brace"} \cup Envelopes

\* A content is neither another symbol nor another outcome.
ASSUME AdvertisementsAssumption ==
  /\ Geneses \subseteq Envelopes
  /\ Bodies \subseteq Seq(Symbols)
  /\ Envelopes \cap ({"nl", "sp", "brace", "end", "invalid", "none"} \cup Errors) = {}

VARIABLES
  at,         \* "open" (the request), "first", "collect", "done"
  result,     \* what select_genesis returns
  cancelled,  \* its token
  candidates, \* the Genesis messages found
  body,       \* what Freddie sends
  arrived,    \* how much of it has been read from the response
  response,   \* "open", "ended" or "broken"
  buffered,   \* AdvertisementStream.buffered
  yielded     \* what the calls of next have returned

vars == <<at, result, cancelled, candidates, body, arrived, response, buffered, yielded>>

Init ==
  /\ at = "open"
  /\ result = "none"
  /\ cancelled = FALSE
  /\ candidates = <<>>
  /\ body \in Bodies
  /\ arrived = 0
  /\ response = "open"
  /\ buffered = <<>>
  /\ yielded = <<>>

-----------------------------------------------------------------------------
(* AdvertisementStream::next.                                              *)

Blank(text) == \A i \in DOMAIN text : text[i] \in {"sp", "nl"}

\* serde_json::from_slice, which ignores the blanks around and in an envelope.
Decode(text) ==
  LET json == SelectSeq(text, LAMBDA c : c \notin {"sp", "nl"}) IN
  IF Len(json) = 2 /\ json[1] = "brace" /\ json[2] \in Envelopes THEN json[2] ELSE "invalid"

Newlines(text) == {i \in DOMAIN text : text[i] = "nl"}

HasLine == Newlines(buffered) # {}
Newline == Min(Newlines(buffered))

\* Mutant of Rest: the line is drained, but not its line break and what
\* follows it in the same chunk.
RestLost == <<>>

\* drain(..=newline)
Rest == SubSeq(buffered, Newline + 1, Len(buffered))
Line == SubSeq(buffered, 1, Newline - 1)

\* Mutant of LastLine: what follows the last line break is forgotten.
LastLineLost == "end"

\* The stream has ended: a rest that is not blank is a last line.
LastLine == IF Blank(buffered) THEN "end" ELSE Decode(buffered)

-----------------------------------------------------------------------------
(* select_genesis.                                                         *)

Return(r) == at' = "done" /\ result' = r

\* The select over advertisements(), whose request may fail or be refused.
OpenStream ==
  /\ at = "open"
  /\ ~cancelled
  /\ \/ at' = "first" /\ UNCHANGED result
     \/ \E error \in {"Transport", "ProtocolVersion", "Http"} : Return(error)
  /\ UNCHANGED <<cancelled, candidates, body, arrived, response, buffered, yielded>>

\* A poll looks at the token before it reads, and not again until it is over; a
\* token cancelled meanwhile is a token cancelled after the poll.
Reading == at \in {"first", "collect"} /\ ~cancelled

\* message.kind == SignalMessageType::Genesis
IsGenesis(m) == m \in Geneses

\* next returned None: there is no Genesis, or no more of them.
AfterEnd ==
  /\ \/ at = "first" /\ Return("NoGenesis")
     \/ at = "collect" /\ \E i \in DOMAIN candidates : Return(candidates[i])
  /\ UNCHANGED candidates

\* next returned m: an error ends the selection, whatever it has found.
Receive(m) ==
  /\ \/ m = "end" /\ AfterEnd
     \/ m = "invalid" /\ Return("Decode") /\ UNCHANGED candidates
     \/ IsGenesis(m) /\ at' = "collect" /\ candidates' = Append(candidates, m)
                     /\ UNCHANGED result
     \/ m \in Envelopes /\ ~IsGenesis(m) /\ UNCHANGED <<at, result, candidates>>
  /\ yielded' = IF m = "end" THEN yielded ELSE Append(yielded, m)

\* next has a whole line: a blank one is skipped, another one is returned.
TakeLine ==
  /\ Reading
  /\ HasLine
  /\ buffered' = Rest
  /\ IF Blank(Line) THEN UNCHANGED <<at, result, candidates, yielded>>
                    ELSE Receive(Decode(Line))
  /\ UNCHANGED <<cancelled, body, arrived, response>>

\* chunk() returns the next bytes.
ReadChunk ==
  /\ Reading
  /\ ~HasLine
  /\ \E n \in arrived + 1 .. Len(body) :
       /\ buffered' = buffered \o SubSeq(body, arrived + 1, n)
       /\ arrived' = n
  /\ UNCHANGED <<at, result, cancelled, candidates, body, response, yielded>>

\* chunk() returns None.
ReadEnd ==
  /\ Reading
  /\ ~HasLine
  /\ response = "ended" /\ arrived = Len(body)
  /\ Receive(LastLine)
  /\ buffered' = IF Blank(buffered) THEN buffered ELSE <<>>
  /\ UNCHANGED <<cancelled, body, arrived, response>>

\* chunk() fails.
ReadFails ==
  /\ Reading
  /\ ~HasLine
  /\ response = "broken"
  /\ Return("Transport")
  /\ UNCHANGED <<cancelled, candidates, body, arrived, response, buffered, yielded>>

\* Mutant of PatienceArm: the second loop has no timer.
PatienceForEver == FALSE

\* The timer's arm, before the one that reads.
PatienceArm == at = "collect"

\* The patience interval is over: any candidate may be chosen.
PatienceEnds ==
  /\ PatienceArm
  /\ ~cancelled
  /\ \E i \in DOMAIN candidates : Return(candidates[i])
  /\ UNCHANGED <<cancelled, candidates, body, arrived, response, buffered, yielded>>

\* The three selects watch the token, and look at it first.
Watched == {"open", "first", "collect"}

CancelSelection ==
  /\ cancelled
  /\ at \in Watched
  /\ Return("Cancelled")
  /\ UNCHANGED <<cancelled, candidates, body, arrived, response, buffered, yielded>>

-----------------------------------------------------------------------------
Cancel ==
  /\ at # "done" /\ ~cancelled
  /\ cancelled' = TRUE
  /\ UNCHANGED <<at, result, candidates, body, arrived, response, buffered, yielded>>

\* External: the response ends, or its connection breaks.
ResponseEnds ==
  /\ at \in {"first", "collect"} /\ response = "open"
  /\ response' \in {"ended", "broken"}
  /\ UNCHANGED <<at, result, cancelled, candidates, body, arrived, buffered, yielded>>

Selection ==
  \/ OpenStream \/ TakeLine \/ ReadChunk \/ ReadEnd \/ ReadFails
  \/ PatienceEnds \/ CancelSelection

Next == Selection \/ Cancel \/ ResponseEnds

\* The task is polled and its timer fires.  Freddie need not answer, nor send
\* anything more, nor end its response.
Spec ==
  /\ Init
  /\ [][Next]_vars
  /\ WF_vars(TakeLine) /\ WF_vars(PatienceEnds) /\ WF_vars(CancelSelection)

-----------------------------------------------------------------------------
\* Where the lines of a text end: at its line breaks, and where it ends.
Ends(text) == Newlines(text) \cup {Len(text) + 1}

\* The line that ends at e: what lies behind the end before it.
LineTo(text, e) == SubSeq(text, Max({0} \cup {d \in Ends(text) : d < e}) + 1, e - 1)

\* The messages of a text: its lines that are not blank, decoded, in order.
MessageEnds(text) == {e \in Ends(text) : ~Blank(LineTo(text, e))}
Before(text, e) == {d \in MessageEnds(text) : d < e}
Messages(text) ==
  [k \in 1 .. Cardinality(MessageEnds(text)) |->
     Decode(LineTo(text, CHOOSE e \in MessageEnds(text) : Cardinality(Before(text, e)) = k - 1))]

\* next returns the messages of the body, one by one and in order, however the
\* body was cut into chunks: also when a line comes in several, when a chunk
\* holds several lines, and when the last line has no line break.
ChunkingInvisible == \E n \in 0 .. Len(Messages(body)) : yielded = SubSeq(Messages(body), 1, n)

Advertised == {Decode(LineTo(body, e)) : e \in MessageEnds(body)} \cap Geneses

\* A selection succeeds only with a peer that was advertised in this stream,
\* and reports NoGenesis only for a stream that advertised none.
ChoiceIsAdvertised ==
  /\ result \in {"none"} \cup Errors \cup Advertised
  /\ result = "NoGenesis" => Advertised = {}

\* A selection that has a candidate, or that is cancelled wherever it waits,
\* ends, on a stream that stays open and silent as well (the patience timer and
\* the token).
SelectionEnds == (at = "collect" \/ cancelled) ~> at = "done"
=============================================================================
