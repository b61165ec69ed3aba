---------------------------- MODULE ProviderWire ----------------------------
(***************************************************************************)
(* What the provider clients say to a vendor and what they make of its     *)
(* answer, for the three wire shapes "openai" (every compatible preset,    *)
(* Azure and any unregistered vendor), "anthropic" and "gemini".           *)
(*                                                                         *)
(* A message is [role, content, calls, call_id]: its content None or       *)
(* [form, text] with form "text" or "parts", the tool calls it makes and   *)
(* the one it answers.  An answer is [form, blocks, finish]: form is "ok", *)
(* "garbage" (no JSON), "malformed" (not the vendor's shape), "partial"    *)
(* (a usage object lacks a count) or "empty" (no candidate); blocks are its*)
(* [type, value] parts in order.                                           *)
(*                                                                         *)
(* A stream is a sequence of tokens, cut anywhere between two of them by   *)
(* the network.  "u1" and "u2" are the bytes of one character, "r" and " " *)
(* white space, "?" the replacement character.  The first token of a data  *)
(* payload tells what it is, the others are its text.                      *)
(***************************************************************************)
EXTENDS Naturals, SequencesExt, ProviderRegistry

CONSTANTS MaxLine,           \* MAX_SSE_LINE_BYTES, in tokens
          PromptTokens,      \* what the vendor counts for a prompt
          CompletionTokens   \* and for its answer

ASSUME WireAssumption ==
  MaxLine \in Nat /\ PromptTokens \in Nat /\ CompletionTokens \in Nat

Counted(prompt, completion) ==
  [prompt |-> prompt, completion |-> completion, total |-> prompt + completion]

-----------------------------------------------------------------------------
(* The request body.                                                       *)

AsText(content) ==
  IF content # None /\ content.form = "text" THEN content.text ELSE None

FlatText(content) == IF content = None THEN None ELSE content.text

(* A message of the two native shapes: its tool calls are not part of it.  *)
Serialized(message, role, empty) ==
  [role |-> role,
   text |-> IF message.content = None THEN empty ELSE FlatText(message.content),
   calls |-> << >>, call_id |-> None]

AsItCame(message) ==
  [role |-> message.role, text |-> FlatText(message.content),
   calls |-> message.calls, call_id |-> message.call_id]

Map(seq, Op(_)) == [i \in DOMAIN seq |-> Op(seq[i])]

(* Mutant of OpenAiBody: the usage is not asked for.                       *)
OpenAiBodyUnmetered(ask) ==
  [system |-> None,
   messages |-> Map(ask.messages, AsItCame),
   tools |-> ask.tools, tool_choice |-> ask.tool_choice,
   include_usage |-> FALSE]

(* Serialized as it came; a stream asks for the usage in its last chunk.   *)
OpenAiBody(ask) ==
  [system |-> None,
   messages |-> Map(ask.messages, AsItCame),
   tools |-> ask.tools, tool_choice |-> ask.tool_choice,
   include_usage |-> ask.kind = "stream"]

(* Anthropic's tool_choice object, None where it has no translation.       *)
AnthropicToolChoice(choice) ==
  CASE choice = "auto" -> "auto"
    [] choice = "required" -> "any"
    [] choice = "none" -> "none"
    [] choice = "named" -> "tool"
    [] OTHER -> None

GeminiToolChoice(choice) ==
  CASE choice = "auto" -> "auto"
    [] choice \in {"required", "named", "object"} -> "any"
    [] choice = "none" -> "none"
    [] OTHER -> None

NotSystem(m) == m.role # "system"
Systems(ask) == SelectSeq(ask.messages, LAMBDA m : m.role = "system")

(* Mutant of AnthropicBody: tool results are left out.                     *)
AnthropicBodyNoTools(ask) ==
  [system |-> None,
   messages |-> Map(SelectSeq(ask.messages, LAMBDA m : m.role \in {"user", "assistant"}),
                    LAMBDA m : Serialized(m, m.role, "")),
   tools |-> ask.tools, tool_choice |-> None, include_usage |-> FALSE]

(* Every system message with content replaces the one before it, a list of *)
(* parts by nothing; a message without content becomes an empty one.       *)
AnthropicBody(ask) ==
  LET systems == SelectSeq(Systems(ask), LAMBDA m : m.content # None) IN
  [system |-> IF systems = << >> THEN None ELSE AsText(Last(systems).content),
   messages |-> Map(SelectSeq(ask.messages, NotSystem), LAMBDA m :
                  Serialized(m, IF m.role = "assistant" THEN m.role ELSE "user", "")),
   tools |-> ask.tools,
   tool_choice |-> IF ask.tools = None THEN None
                   ELSE AnthropicToolChoice(ask.tool_choice),
   include_usage |-> FALSE]

(* The first system message only; a message without content is left out.   *)
GeminiBody(ask) ==
  [system |-> IF Systems(ask) = << >> THEN None
              ELSE AsText(Head(Systems(ask)).content),
   messages |-> Map(SelectSeq(ask.messages, LAMBDA m : NotSystem(m) /\ m.content # None),
                  LAMBDA m : Serialized(m, IF m.role = "assistant" THEN "model"
                                           ELSE "user", None)),
   tools |-> ask.tools,
   tool_choice |-> IF ask.tools = None THEN None
                   ELSE GeminiToolChoice(ask.tool_choice),
   include_usage |-> FALSE]

RequestBody(ask) ==
  CASE ShapeOf(ask) = "anthropic" -> AnthropicBody(ask)
    [] ShapeOf(ask) = "gemini" -> GeminiBody(ask)
    [] OTHER -> OpenAiBody(ask)

-----------------------------------------------------------------------------
(* A complete answer.                                                      *)

(* Mutant of AnthropicFinish: an answer cut at the limit looks whole.      *)
AnthropicFinishCutHidden(reason) ==
  CASE reason \in {"end_turn", "max_tokens"} -> "stop"
    [] reason = "tool_use" -> "tool_calls"
    [] OTHER -> reason

AnthropicFinish(reason) ==
  CASE reason = "end_turn" -> "stop"
    [] reason = "max_tokens" -> "length"
    [] reason = "tool_use" -> "tool_calls"
    [] OTHER -> reason

GeminiFinish(reason) ==
  CASE reason = "STOP" -> "stop"
    [] reason = "MAX_TOKENS" -> "length"
    [] OTHER -> reason

Failed(error) ==
  [error |-> error, text |-> << >>, tools |-> << >>, finish |-> None, usage |-> None]

ValuesOf(blocks, type) ==
  Map(SelectSeq(blocks, LAMBDA b : b.type = type), LAMBDA b : b.value)

(* Mutant of Parsed: blocks other than text are dropped.                   *)
ParsedTextOnly(answer, finish) ==
  [error |-> None, text |-> ValuesOf(answer.blocks, "text"), tools |-> << >>,
   finish |-> finish, usage |-> Counted(PromptTokens, CompletionTokens)]

Parsed(answer, finish) ==
  [error |-> None, text |-> ValuesOf(answer.blocks, "text"),
   tools |-> ValuesOf(answer.blocks, "tool"), finish |-> finish,
   usage |-> Counted(PromptTokens, CompletionTokens)]

(* A typed structure: whatever does not fit it is a parse error.           *)
OpenAiParse(answer) ==
  IF answer.form \in {"ok", "empty"} THEN Parsed(answer, answer.finish)
  ELSE Failed("parse")

(* Field by field: what is missing is absent, but a count missing from the *)
(* usage object panics (Map's Index).                                      *)
AnthropicParse(answer) ==
  CASE answer.form = "partial" -> Failed("panic")
    [] answer.form = "malformed" -> Failed(None)
    [] OTHER -> Parsed(answer, AnthropicFinish(answer.finish))

GeminiParse(answer) ==
  CASE answer.form = "partial" -> Failed("panic")
    [] answer.form \in {"malformed", "empty"} -> Failed("internal")
    [] OTHER -> Parsed(answer, GeminiFinish(answer.finish))

(* A body that is no JSON is reqwest's error, so a network error, except   *)
(* where embed names it itself.                                            *)
ParseResponse(ask, answer) ==
  CASE ask.kind = "embed" ->
         IF answer.form = "ok" THEN Parsed(answer, None) ELSE Failed("parse")
    [] ask.kind # "embed" /\ answer.form = "garbage" -> Failed("network")
    [] OTHER -> CASE ShapeOf(ask) = "anthropic" -> AnthropicParse(answer)
                  [] ShapeOf(ask) = "gemini" -> GeminiParse(answer)
                  [] OTHER -> OpenAiParse(answer)

-----------------------------------------------------------------------------
(* Server-sent events.                                                     *)

White == {" ", "r"}

TrimStart(line) ==
  LET kept == {i \in DOMAIN line : line[i] \notin White} IN
  IF kept = {} THEN << >> ELSE SubSeq(line, Min(kept), Len(line))

Trim(line) ==
  LET kept == {i \in DOMAIN line : line[i] \notin White} IN
  IF kept = {} THEN << >> ELSE SubSeq(line, Min(kept), Max(kept))

(* from_utf8_lossy, applied to each chunk by itself: a character cut in two*)
(* is replaced in both chunks.                                             *)
Lossy(bytes) ==
  [i \in DOMAIN bytes |->
     IF \/ bytes[i] = "u1" /\ (i = Len(bytes) \/ bytes[i + 1] # "u2")
        \/ bytes[i] = "u2" /\ (i = 1 \/ bytes[i - 1] # "u1")
     THEN "?" ELSE bytes[i]]

(* A line that is no event: or data: line is ignored.  The event type is   *)
(* the empty sequence while none is set.                                   *)
TakeLine(s, line) ==
  LET l == Trim(line)
      rest == IF l = << >> THEN << >> ELSE TrimStart(Tail(l))
  IN CASE l = << >> -> [s EXCEPT !.event = << >>]
       [] l # << >> /\ Head(l) = "event:" -> [s EXCEPT !.event = rest]
       [] l # << >> /\ Head(l) = "data:" /\ rest = <<"[DONE]">> ->
            [s EXCEPT !.over = TRUE]
       [] l # << >> /\ Head(l) = "data:" /\ rest # <<"[DONE]">> ->
            [s EXCEPT !.events = Append(@, [event |-> s.event, data |-> rest])]
       [] OTHER -> s

(* Mutant of TakeToken: the event type does not survive the chunk.         *)
TakeTokenEventLost(s, token) ==
  IF s.over THEN s
  ELSE IF token = "\n" THEN [TakeLine(s, s.buf) EXCEPT !.buf = << >>, !.event = << >>]
  ELSE [s EXCEPT !.buf = Append(@, token)]

TakeToken(s, token) ==
  IF s.over THEN s
  ELSE IF token = "\n" THEN [TakeLine(s, s.buf) EXCEPT !.buf = << >>]
  ELSE [s EXCEPT !.buf = Append(@, token)]

(* Mutant of TooLong: the buffer is measured before lines are taken out.   *)
TooLongUndrained(buf, chunk, rest) == Len(buf) + Len(chunk) > MaxLine

(* Checked once per chunk, after the complete lines have been drained.     *)
TooLong(buf, chunk, rest) == Len(rest) > MaxLine

(* The state of the parser after each token of a text.                     *)
TakeTokens(buf, event, text) ==
  LET after[i \in 0..Len(text)] ==
        IF i = 0 THEN [buf |-> buf, event |-> event, events |-> << >>, over |-> FALSE]
        ELSE TakeToken(after[i - 1], text[i])
  IN after

(* One chunk of sse_events: the events it completes and what is left over. *)
TakeChunk(buf, event, chunk) ==
  LET s == TakeTokens(buf, event, Lossy(chunk))[Len(chunk)]
      long == ~s.over /\ TooLong(buf, chunk, s.buf)
  IN [buf |-> IF long THEN << >> ELSE s.buf, event |-> s.event, events |-> s.events,
      over |-> s.over \/ long, long |-> long]

-----------------------------------------------------------------------------
(* From events to the chunks of the gateway's own stream.                  *)

Item(text, tools, finish, usage, error) ==
  [text |-> text, tools |-> tools, finish |-> finish, usage |-> usage, error |-> error]

Text(text) == Item(text, << >>, None, None, None)
Ending(finish, usage) == Item(<< >>, << >>, finish, usage, None)
Problem(error) == Item(<< >>, << >>, None, None, error)

(* An empty payload is no JSON.                                            *)
KindOf(data) == IF data = << >> THEN "bad" ELSE Head(data)

(* The reason an "end" payload gives.                                      *)
ReasonIn(data) == IF Len(data) < 2 THEN None ELSE data[2]

(* Mutant of OpenAiChunk: the deltas of tool calls are dropped.            *)
OpenAiChunkNoTools(data) ==
  CASE KindOf(data) \in {"text", "tool"} ->
         Text(IF KindOf(data) = "text" THEN Tail(data) ELSE << >>)
    [] KindOf(data) = "end" -> Ending(ReasonIn(data), None)
    [] KindOf(data) = "usage" -> Ending(None, Counted(PromptTokens, CompletionTokens))
    [] OTHER -> Problem("parse")

(* OpenAI: one typed chunk per event.                                      *)
OpenAiChunk(data) ==
  CASE KindOf(data) = "text" -> Text(Tail(data))
    [] KindOf(data) = "tool" -> Item(<< >>, Tail(data), None, None, None)
    [] KindOf(data) = "end" -> Ending(ReasonIn(data), None)
    [] KindOf(data) = "usage" -> Ending(None, Counted(PromptTokens, CompletionTokens))
    [] OTHER -> Problem("parse")

(* Anthropic: the event type decides, malformed data and other types are   *)
(* skipped, the start of a tool call among them; a delta of its arguments  *)
(* becomes an empty chunk.  The prompt's count comes first and is kept for *)
(* the end.                                                                *)
AnthropicEvent(event, data, input) ==
  LET Yields(i, items) == [input |-> i, items |-> items]
      type == IF event = << >> THEN "" ELSE Head(event)
      kind == KindOf(data)
  IN CASE kind = "bad" -> Yields(input, << >>)
       [] kind # "bad" /\ type = "message_start" ->
            Yields(IF kind = "start" THEN PromptTokens ELSE 0, <<Text(<< >>)>>)
       [] kind # "bad" /\ type = "content_block_delta" ->
            Yields(input, <<Text(IF kind = "text" THEN Tail(data) ELSE << >>)>>)
       [] kind # "bad" /\ type = "message_delta" ->
            Yields(input,
              <<CASE kind = "end" ->
                       Ending(AnthropicFinish(ReasonIn(data)),
                              Counted(input, CompletionTokens))
                  [] kind = "partial" -> Problem("panic")
                  [] OTHER -> Text(<< >>)>>)
       [] OTHER -> Yields(input, << >>)

(* Gemini: one chunk per candidate, the text of its first part; a function *)
(* call has none.                                                          *)
GeminiChunks(data) ==
  CASE KindOf(data) = "bad" -> <<Problem("parse")>>
    [] KindOf(data) = "none" -> << >>
    [] KindOf(data) = "text" -> <<Text(Tail(data))>>
    [] KindOf(data) = "two" -> Map(Tail(data), LAMBDA t : Text(<<t>>))
    [] KindOf(data) = "parts" -> <<Text(<<data[2]>>)>>
    [] KindOf(data) = "tool" -> <<Text(<< >>)>>
    [] KindOf(data) = "partial" -> <<Problem("panic")>>
    [] OTHER -> <<Ending(GeminiFinish(ReasonIn(data)),
                         Counted(PromptTokens, CompletionTokens))>>

ParseEvent(shape, ev, input) ==
  CASE shape = "anthropic" -> AnthropicEvent(ev.event, ev.data, input)
    [] shape = "gemini" -> [input |-> input, items |-> GeminiChunks(ev.data)]
    [] OTHER -> [input |-> input, items |-> <<OpenAiChunk(ev.data)>>]

(* The chunks a run of events becomes, one event after the other.          *)
EventLoop(shape, events, input) ==
  LET after[i \in 0..Len(events)] ==
        IF i = 0 THEN [input |-> input, items |-> << >>]
        ELSE LET before == after[i - 1]
                 p == ParseEvent(shape, events[i], before.input)
             IN [input |-> p.input, items |-> before.items \o p.items]
  IN after

ParseEvents(shape, events, input) == EventLoop(shape, events, input)[Len(events)]
=============================================================================
