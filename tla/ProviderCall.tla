---------------------------- MODULE ProviderCall ----------------------------
(***************************************************************************)
(* One call of a provider client, from the connection pool to the last byte*)
(* of the answer: complete, complete_stream and embed of the three vendors,*)
(* the pool of HTTP clients they share, reqwest's two timeouts, and the    *)
(* event stream sse_response makes of the chunks.                          *)
(*                                                                         *)
(* call[c].pc: "idle"; "lookup" and "insert" in for_provider; "sent" until *)
(* the response's head; "body" while a complete answer is read, "stream"   *)
(* while events are; "done".  Time is counted in ticks per call: elapsed   *)
(* since the request was sent, gap since the last byte.  torn, a history   *)
(* variable, holds the places where the network cut a character in two.    *)
(*                                                                         *)
(* A "panic" is the end of the task that runs the call.                    *)
(***************************************************************************)
EXTENDS ProviderWire, GatewayErrors

CONSTANTS Calls,          \* calls in progress
          Asks,           \* [type, base_url, kind, messages, tools, tool_choice]
          Wires,          \* per shape, the streams a vendor may send
          Answers,        \* per shape, the complete answers it may send
          Refusals,       \* [status, retry_after] it may refuse with
          Deadline,       \* request_timeout of a provider's client, in ticks
          ReadGap,        \* read_timeout of the default client
          AnthropicGap,   \* read_timeout of the Anthropic client
          StreamGap       \* read_timeout of the streaming client

ASSUME CallAssumption ==
  /\ {Deadline, ReadGap, AnthropicGap, StreamGap} \subseteq Nat \ {0}
  /\ Asks # {} /\ None \notin Asks
  /\ \A a \in Asks : a.kind \in {"complete", "stream", "embed"}
  /\ \A r \in Refusals : r.status \in Nat

ASSUME WiresAssumption ==
  /\ None \notin {"parse", "panic", "network", "line_too_long"}
  /\ \A shape \in {"openai", "anthropic", "gemini"} : \A w \in Wires[shape] :
       w.metered \in Seq(STRING) /\ w.plain \in Seq(STRING)

VARIABLES pool, call

vars == <<pool, call>>

(* Bound: the clock of a call stops counting one tick past every deadline. *)
MaxElapsed == Deadline + 1

Idle == [pc |-> "idle", ask |-> None, body |-> None, client |-> None,
         wire |-> << >>, at |-> 0, torn |-> {}, buf |-> << >>, event |-> << >>, input |-> 0,
         out |-> << >>, errored |-> FALSE, expired |-> FALSE, refused |-> None,
         retry |-> None, answer |-> None, result |-> None, elapsed |-> 0, gap |-> 0]

Init == pool = [t \in {a.type : a \in Asks} |-> None] /\ call = [c \in Calls |-> Idle]

-----------------------------------------------------------------------------
(* HTTP clients.  0 disables a bound.                                      *)

(* Mutant of StreamingConfig: a stalled stream is never given up.          *)
StreamingConfigUnbounded == [request |-> 0, read |-> 0]

StreamingConfig == [request |-> 0, read |-> StreamGap]

ProviderConfig(type) ==
  [request |-> Deadline, read |-> IF type = "anthropic" THEN AnthropicGap ELSE ReadGap]

ConfigOf(client) ==
  IF client.owner = "streaming" THEN StreamingConfig ELSE ProviderConfig(client.owner)

(* The client call c builds for its provider.                              *)
BuildClient(c, owner) == [owner |-> owner, by |-> c]

Due(s) ==
  LET config == ConfigOf(s.client) IN
  \/ config.request # 0 /\ s.elapsed >= config.request
  \/ config.read # 0 /\ s.gap >= config.read

-----------------------------------------------------------------------------
Streaming(s) == s.ask # None /\ s.ask.kind = "stream"

(* Bound: a call runs beside calls of its own provider only, and a stream  *)
(* by itself.  Calls share nothing but their provider's entry of the pool, *)
(* and streams do not use it.                                              *)
Alone(c, ask) ==
  \A d \in Calls \ {c} : call[d].pc # "idle" =>
    ask.kind # "stream" /\ ~Streaming(call[d]) /\ call[d].ask.type = ask.type

(* The age of a finished call is not kept.                                  *)
Finished(s, result) ==
  [s EXCEPT !.pc = "done", !.result = result, !.elapsed = 0]

Failing(s, error) == Finished(s, Failed(error))

(* Mutant of StreamClient: a stream uses its provider's client.            *)
StreamClientOfProvider(ask) == BuildClient("pool", ask.type)

StreamClient(ask) == BuildClient("pool", "streaming")

(* A call of a client that was built for a stored endpoint.                *)
Begin(c, ask) ==
  /\ call[c].pc = "idle" /\ Validated(ask) /\ Alone(c, ask)
  /\ LET s == [Idle EXCEPT !.ask = ask] IN
     call' = [call EXCEPT ![c] =
       CASE ask.kind = "stream" ->
              [s EXCEPT !.pc = "sent", !.body = RequestBody(ask),
                        !.client = StreamClient(ask)]
         [] ask.kind = "embed" /\ ShapeOf(ask) # "openai" -> Failing(s, "unsupported")
         [] OTHER -> [s EXCEPT !.pc = "lookup", !.body = RequestBody(ask)]]
  /\ UNCHANGED pool

(* for_provider's fast path, or the decision to build a client.            *)
PoolGet(c) ==
  LET s == call[c] IN
  /\ s.pc = "lookup"
  /\ call' = [call EXCEPT ![c] =
       IF pool[s.ask.type] # None
       THEN [s EXCEPT !.pc = "sent", !.client = pool[s.ask.type]]
       ELSE [s EXCEPT !.pc = "insert"]]
  /\ UNCHANGED pool

(* or_insert: the first to arrive wins.                                    *)
Entry(type, built) == IF pool[type] = None THEN built ELSE pool[type]

PoolInsert(c) ==
  LET s == call[c]
      client == Entry(s.ask.type, BuildClient(c, s.ask.type))
  IN /\ s.pc = "insert"
     /\ pool' = [pool EXCEPT ![s.ask.type] = client]
     /\ call' = [call EXCEPT ![c] = [s EXCEPT !.pc = "sent", !.client = client]]

-----------------------------------------------------------------------------
(* The response.                                                           *)

AuthStatuses(shape) == IF shape = "gemini" THEN {401, 403} ELSE {401}

RetryAfter(refusal) == IF refusal.retry_after = None THEN 60 ELSE refusal.retry_after

(* handle_error; a 429 without a usable Retry-After waits 60 seconds.      *)
Refuse(c, refusal) ==
  LET s == call[c]
      error == FromResponse(AuthStatuses(ShapeOf(s.ask)), refusal.status)
  IN /\ s.pc = "sent" /\ ~Due(s)
     /\ call' = [call EXCEPT ![c] =
          [Failing(s, error) EXCEPT !.refused = refusal,
             !.retry = IF error = "rate_limited" THEN RetryAfter(refusal) ELSE None]]
     /\ UNCHANGED pool

Accept(c) ==
  LET s == call[c] IN
  /\ s.pc = "sent" /\ ~Due(s)
  /\ IF Streaming(s)
     THEN \E w \in Wires[ShapeOf(s.ask)] :
            call' = [call EXCEPT ![c] = [s EXCEPT !.pc = "stream", !.gap = 0,
                       !.wire = IF s.body.include_usage THEN w.metered ELSE w.plain]]
     ELSE call' = [call EXCEPT ![c] = [s EXCEPT !.pc = "body", !.gap = 0]]
  /\ UNCHANGED pool

(* A piece of a complete answer.                                           *)
Read(c) ==
  /\ call[c].pc = "body" /\ ~Due(call[c]) /\ call[c].gap > 0
  /\ call' = [call EXCEPT ![c].gap = 0]
  /\ UNCHANGED pool

Answer(c, answer) ==
  LET s == call[c] IN
  /\ s.pc = "body" /\ ~Due(s) /\ answer \in Answers[ShapeOf(s.ask)]
  /\ call' = [call EXCEPT ![c] =
       [Finished(s, ParseResponse(s.ask, answer)) EXCEPT !.answer = answer]]
  /\ UNCHANGED pool

-----------------------------------------------------------------------------
(* The stream.                                                             *)

(* sse_response: an error is the last thing a client sees.                 *)
Forwarded(items) ==
  LET bad == {i \in DOMAIN items : items[i].error # None} IN
  IF bad = {} THEN items ELSE SubSeq(items, 1, Min(bad))

(* The items are sent on.  After an error the next item only ends the      *)
(* stream, and a panic ends it at once.                                    *)
Deliver(s, items, over) ==
  LET sent == IF s.errored THEN << >> ELSE Forwarded(items)
      failed == \E i \in DOMAIN sent : sent[i].error # None
      panics == \E i \in DOMAIN sent : sent[i].error = "panic"
      more == (s.errored /\ items # << >>) \/ Len(items) > Len(sent)
  IN [s EXCEPT !.out = @ \o sent, !.errored = @ \/ failed,
               !.pc = IF over \/ panics \/ more THEN "done" ELSE @]

(* Whether a chunk that ends here ends within a character.                 *)
CutsCharacter(w, end) == w[end] = "u1" /\ end < Len(w) /\ w[end + 1] = "u2"

TornBy(s, end) == s.torn \cup {i \in {end} : CutsCharacter(s.wire, i)}

(* One network chunk, however the vendor's bytes were cut.                 *)
Chunk(c, n) ==
  LET s == call[c]
      took == TakeChunk(s.buf, s.event, SubSeq(s.wire, s.at + 1, s.at + n))
      parsed == ParseEvents(ShapeOf(s.ask), took.events, s.input)
      items == IF took.long THEN Append(parsed.items, Problem("line_too_long"))
               ELSE parsed.items
  IN /\ s.pc = "stream" /\ ~Due(s) /\ s.at + n <= Len(s.wire)
     /\ call' = [call EXCEPT ![c] =
          Deliver([s EXCEPT !.at = @ + n, !.buf = took.buf, !.event = took.event,
                            !.input = parsed.input, !.gap = 0,
                            !.torn = TornBy(s, s.at + n)],
                  items, took.over)]
     /\ UNCHANGED pool

(* The vendor closes the connection; a line without its end is lost.       *)
Close(c) ==
  /\ call[c].pc = "stream" /\ call[c].at = Len(call[c].wire)
  /\ call' = [call EXCEPT ![c].pc = "done"]
  /\ UNCHANGED pool

(* The connection breaks, before the head, within an answer or a stream.   *)
Breaks(c) ==
  LET s == call[c] IN
  /\ s.pc \in {"sent", "body", "stream"}
  /\ call' = [call EXCEPT ![c] =
       IF s.pc = "stream"
       THEN Deliver([s EXCEPT !.at = Len(s.wire)], <<Problem("network")>>, FALSE)
       ELSE Failing(s, IF s.ask.kind = "embed" /\ s.pc = "body" THEN "parse"
                       ELSE "network")]
  /\ UNCHANGED pool

-----------------------------------------------------------------------------
(* Time.                                                                   *)

Tick(c) ==
  LET s == call[c] IN
  /\ s.pc \in {"sent", "body", "stream"} /\ ~Due(s)
  /\ call' = [call EXCEPT ![c].elapsed = IF @ < MaxElapsed THEN @ + 1 ELSE @,
                          ![c].gap = IF @ < MaxElapsed THEN @ + 1 ELSE @]
  /\ UNCHANGED pool

(* A timeout of reqwest: a network error, on a stream one of its items.    *)
Expire(c) ==
  LET s == [call[c] EXCEPT !.expired = TRUE] IN
  /\ s.pc \in {"sent", "body", "stream"} /\ Due(s)
  /\ call' = [call EXCEPT ![c] =
       IF s.pc = "stream" THEN Deliver(s, <<Problem("network")>>, FALSE)
       ELSE Failing(s, IF s.ask.kind = "embed" /\ s.pc = "body" THEN "parse"
                       ELSE "network")]
  /\ UNCHANGED pool

Next ==
  \E c \in Calls :
    \/ \E ask \in Asks : Begin(c, ask)
    \/ PoolGet(c) \/ PoolInsert(c)
    \/ \E r \in Refusals : Refuse(c, r)
    \/ Accept(c) \/ Read(c)
    \/ \E s \in DOMAIN Answers : \E a \in Answers[s] : Answer(c, a)
    \/ \E n \in 1..Len(call[c].wire) : Chunk(c, n)
    \/ Close(c) \/ Breaks(c)
    \/ Tick(c) \/ Expire(c)

(* The runtime polls what is ready and its clock runs on.  A vendor that   *)
(* stops sending is given none.                                            *)
Fairness == \A c \in Calls : WF_vars(PoolGet(c)) /\ WF_vars(PoolInsert(c))
                             /\ WF_vars(Tick(c)) /\ WF_vars(Expire(c))

Spec == Init /\ [][Next]_vars /\ Fairness

-----------------------------------------------------------------------------
(* What a stream says, independently of how sse_events reads it: the lines *)
(* of the whole text, the ones before [DONE], each data line under the last*)
(* event line that no blank line follows.                                  *)

LineEnds(w) == {i \in DOMAIN w : w[i] = "\n"}
LineAt(w, e) ==
  LET before == {d \in LineEnds(w) : d < e} IN
  Trim(SubSeq(w, (IF before = {} THEN 0 ELSE Max(before)) + 1, e - 1))
LinesOf(w, field) ==
  {e \in LineEnds(w) : LineAt(w, e) # << >> /\ Head(LineAt(w, e)) = field}
FieldAt(w, e) == TrimStart(Tail(LineAt(w, e)))

EventAt(w, e) ==
  LET named == {d \in LinesOf(w, "event:") : d < e
                  /\ \A b \in LineEnds(w) : d < b /\ b < e => LineAt(w, b) # << >>}
  IN IF named = {} THEN << >> ELSE FieldAt(w, Max(named))

EventsIn(w) ==
  LET done == {e \in LinesOf(w, "data:") : FieldAt(w, e) = <<"[DONE]">>}
      said == {e \in LinesOf(w, "data:") : \A d \in done : e < d}
  IN Map(SetToSortSeq(said, <),
         LAMBDA e : [event |-> EventAt(w, e), data |-> FieldAt(w, e)])

(* A stream as it arrived: a character that was cut in two is replaced.    *)
Received(w, torn) ==
  [i \in DOMAIN w |-> IF i \in torn \/ i - 1 \in torn THEN "?" ELSE w[i]]

(* The text and the tool calls an event speaks of, whatever a client makes *)
(* of it; of a Gemini candidate's parts, the first.                        *)
TextIn(shape, ev) ==
  CASE KindOf(ev.data) = "text" /\ shape = "anthropic" ->
         IF ev.event = <<"content_block_delta">> THEN Tail(ev.data) ELSE << >>
    [] KindOf(ev.data) = "text" /\ shape # "anthropic" -> Tail(ev.data)
    [] KindOf(ev.data) = "two" -> Tail(ev.data)
    [] KindOf(ev.data) = "parts" -> <<ev.data[2]>>
    [] OTHER -> << >>

ToolsIn(ev) == IF KindOf(ev.data) = "tool" THEN Tail(ev.data) ELSE << >>

(* What is to reach the client of a stream as it arrived: the chunks, and, *)
(* read without the clients' parsers, all the text and all the tool calls. *)
MeaningOf(shape, w) ==
  LET events == EventsIn(w) IN
  [chunks |-> Forwarded(ParseEvents(shape, events, 0).items),
   text |-> FlattenSeq(Map(events, LAMBDA ev : TextIn(shape, ev))),
   tools |-> FlattenSeq(Map(events, ToolsIn))]

(* Every stream of a vendor, in every way its characters can be cut.       *)
Arrivals(shape) ==
  UNION {{<<shape, w, torn>> : torn \in SUBSET {i \in DOMAIN w : CutsCharacter(w, i)}} :
         w \in UNION {{x.metered, x.plain} : x \in Wires[shape]}}

Meaning ==
  [a \in UNION {Arrivals(shape) : shape \in DOMAIN Wires} |->
     MeaningOf(a[1], Received(a[2], a[3]))]

TransportFault(s) ==
  s.out # << >> /\ Last(s.out).error \in {"network", "line_too_long"}

-----------------------------------------------------------------------------
(* Properties.                                                             *)

(* The records have the fields the clients keep, an idle call holds        *)
(* nothing, and only a finished call has a result.                         *)
TypeOK ==
  /\ \A t \in DOMAIN pool : pool[t] # None => pool[t].owner = t /\ pool[t].by \in Calls
  /\ \A c \in Calls : LET s == call[c] IN
       /\ s.pc \in {"idle", "lookup", "insert", "sent", "body", "stream", "done"}
       /\ s.pc = "idle" => s = Idle
       /\ s.pc # "idle" => s.ask \in Asks
       /\ s.pc \in {"sent", "body", "stream"} => s.client # None
       /\ s.at \in 0..Len(s.wire) /\ s.elapsed \in 0..MaxElapsed
       /\ s.gap \in 0..MaxElapsed
       /\ s.result # None => s.pc = "done" /\ s.out = << >>
       /\ s.expired => s.pc = "done" \/ s.errored

(* sse_events and parse_stream_event: however the network cuts the bytes, a*)
(* stream's chunks are the ones its whole text says, up to the first error,*)
(* which is the last thing sent; a stream that ended well has brought every*)
(* text.  A cut costs exactly the character it falls into, replaced in both*)
(* chunks (sse.rs:41), and nothing else.  Tool calls reach the client from *)
(* the OpenAI shape only: Anthropic's and Gemini's stream parsers lose them*)
(* all, where README.md:38-40 says "`tool_calls` are surfaced in both      *)
(* regular and streamed responses" for all providers.                      *)
CutsInvisible ==
  \A c \in Calls : LET s == call[c] IN s.wire # << >> =>
    LET got == IF TransportFault(s) THEN Front(s.out) ELSE s.out
        meant == Meaning[<<ShapeOf(s.ask), s.wire, s.torn>>]
    IN /\ IsPrefix(got, meant.chunks)
       /\ s.pc = "done" /\ ~TransportFault(s) => got = meant.chunks
       /\ s.pc = "done" /\ ~s.errored =>
            /\ FlattenSeq(Map(got, LAMBDA i : i.text)) = meant.text
            /\ FlattenSeq(Map(got, LAMBDA i : i.tools)) =
                 IF ShapeOf(s.ask) = "openai" THEN meant.tools ELSE << >>

(* sse_events' cap: what is buffered between two chunks never exceeds      *)
(* MAX_SSE_LINE_BYTES, and a vendor whose lines all fit is never refused,  *)
(* however many lines one chunk brings.  Counted in tokens: in bytes the   *)
(* replacement character is three where the byte it replaces is one, so a  *)
(* line with a cut character may be refused within a few bytes of the cap. *)
BufferBounded ==
  \A c \in Calls : LET s == call[c] IN
    /\ Len(s.buf) <= MaxLine
    /\ (\E i \in DOMAIN s.out : s.out[i].error = "line_too_long") =>
         \E i \in 0..(Len(s.wire) - MaxLine - 1) :
           \A j \in (i + 1)..(i + MaxLine + 1) : s.wire[j] # "\n"

(* build_request_body and parse_stream_event: a stream that reached its end*)
(* has told the gateway the vendor's counts, so it can be charged for.     *)
StreamMetered ==
  \A c \in Calls : LET s == call[c]
                      counted == SelectSeq(s.out, LAMBDA i : i.usage # None) IN
    (/\ Streaming(s) /\ s.pc = "done" /\ ~s.errored
     /\ \E i \in DOMAIN s.out : s.out[i].finish # None)
      => counted # << >> /\ Last(counted).usage = Counted(PromptTokens, CompletionTokens)

(* TransportConfig::streaming: a stream that keeps sending is never cut off*)
(* by a deadline, however long it runs.                                    *)
ActiveStreamLives ==
  \A c \in Calls : Streaming(call[c]) /\ call[c].expired => call[c].gap >= StreamGap

(* build_request_body: every vendor is told what was said, in order, and by*)
(* whom; a single system text is passed on; a call that was forbidden or   *)
(* forced is forbidden or forced.  Which tools were called, and which call *)
(* a result answers, is told to vendors of the OpenAI shape only: the two  *)
(* native bodies leave both out of every message, where README.md:38-40    *)
(* says tool calling is "forwarded and translated for all providers,       *)
(* including the Anthropic and Gemini native schemas".                     *)
ConversationKept ==
  \A c \in Calls : LET s == call[c] IN s.body # None =>
    LET Texts(seq) == SelectSeq(seq, LAMBDA t : t \notin {None, ""})
        heard == IF ShapeOf(s.ask) = "openai"
                 THEN SelectSeq(s.body.messages, NotSystem) ELSE s.body.messages
        said == SelectSeq(s.ask.messages, NotSystem)
        system == SelectSeq(Systems(s.ask), LAMBDA m : m.content # None)
        passed == IF ShapeOf(s.ask) = "openai"
                  THEN Texts(Map(SelectSeq(s.body.messages, LAMBDA m : m.role = "system"),
                                 LAMBDA m : m.text))
                  ELSE Texts(<<s.body.system>>)
        Assistants(seq) == Texts(Map(SelectSeq(seq, LAMBDA m : m.role \in {"assistant", "model"}),
                                     LAMBDA m : m.text))
        Tooled(seq) == Map(SelectSeq(seq, LAMBDA m : m.calls # << >> \/ m.call_id # None),
                           LAMBDA m : <<m.calls, m.call_id>>)
        Spoken(seq) == Map(seq, LAMBDA m : [role |-> m.role, text |-> FlatText(m.content)])
    IN /\ Texts(Map(heard, LAMBDA m : m.text)) =
            Texts(Map(said, LAMBDA m : FlatText(m.content)))
       /\ Assistants(heard) = Assistants(Spoken(said))
       /\ Tooled(heard) = IF ShapeOf(s.ask) = "openai" THEN Tooled(said) ELSE << >>
       /\ Len(Systems(s.ask)) = 1 /\ system # << >> /\ Head(system).content.form = "text"
            => passed = <<Head(system).content.text>>
       /\ s.ask.tools # None /\ s.ask.tool_choice = "none" => s.body.tool_choice = "none"
       /\ s.ask.tools # None /\ s.ask.tool_choice \in {"required", "named"} =>
            s.body.tool_choice \in {"required", "named", "any", "tool"}

(* The reasons map_finish_reason has an OpenAI word for.                   *)
KnownReasons ==
  [openai |-> {"stop", "length", "tool_calls", "content_filter"},
   anthropic |-> {"end_turn", "max_tokens", "tool_use"},
   gemini |-> {"STOP", "MAX_TOKENS"}]

(* A known reason is told in OpenAI's words, the limit on the answer's     *)
(* length and only that as "length"; any other as the vendor put it.       *)
ReasonTold(shape, reason, told) ==
  IF reason \in KnownReasons[shape]
  THEN /\ told \in KnownReasons["openai"]
       /\ told = "length" <=> reason \in {"length", "max_tokens", "MAX_TOKENS"}
  ELSE told = reason

(* parse_response: an answer that is passed on has every text and every    *)
(* tool call of the vendor's, in order (both used to be lost, says         *)
(* anthropic/provider.rs:166-168), and a client that was cut off at the    *)
(* limit is told so.  Anthropic's stop_sequence, refusal and pause_turn,   *)
(* Gemini's SAFETY and the others reach it untranslated, where             *)
(* map_finish_reason's comment (anthropic/provider.rs:16, gemini/          *)
(* provider.rs:16) promises "the OpenAI `finish_reason` vocabulary".       *)
AnswerKept ==
  \A c \in Calls : LET s == call[c] IN
    s.answer # None /\ s.answer.form = "ok" =>
      /\ s.result.error = None
      /\ s.result.text = ValuesOf(s.answer.blocks, "text")
      /\ s.result.tools = ValuesOf(s.answer.blocks, "tool")
      /\ s.ask.kind = "complete" =>
           ReasonTold(ShapeOf(s.ask), s.answer.finish, s.result.finish)

(* from_response and From<ProviderError>: the refusal of the gateway's own *)
(* key never looks like a refusal of the client's, a vendor's 429 stays one*)
(* with its waiting time, and what the client did wrong stays its error.   *)
RefusalsKeepMeaning ==
  \A c \in Calls : LET s == call[c] IN s.refused # None =>
    LET status == StatusCode(FromProvider(s.result.error)) IN
    /\ s.refused.status \in {401, 403} => status = 503
    /\ s.refused.status = 429 =>
         status = 429 /\ s.refused.retry_after \in {None, s.retry}
    /\ s.refused.status \in {400, 404, 422} => status \in {400, 404}
    /\ s.refused.status >= 500 => status = 503

(* What either side says reaches the other: the conversation in the request*)
(* body, a stream's chunks and the counts at its end; tool calls only in   *)
(* the OpenAI shape, against README.md:38-40.                              *)
TranslationKept == ConversationKept /\ CutsInvisible /\ StreamMetered

(* A vendor's complete answer and its refusal mean the same to the client; *)
(* a reason the client's map does not know keeps the vendor's word.        *)
RepliesKept == AnswerKept /\ RefusalsKeepMeaning

(* The two timeouts: every call comes to an end, though the vendor stops   *)
(* sending at any point.  Streams are finite: one that keeps trickling for *)
(* ever is kept alive on purpose (TransportConfig::streaming).             *)
CallsEnd == \A c \in Calls : call[c].pc # "idle" ~> call[c].pc = "done"
=============================================================================
