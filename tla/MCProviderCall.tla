--------------------------- MODULE MCProviderCall ---------------------------
(* Two calls.  Conversations with several, listed and missing system texts *)
(* and every kind of message; streams with each kind of payload, with and  *)
(* without [DONE], a last newline or an over-long line, and a character of *)
(* two bytes.                                                              *)
EXTENDS ProviderCall

MCMessage(role, form, text) ==
  [role |-> role, content |-> [form |-> form, text |-> text], calls |-> << >>,
   call_id |-> None]
MCSay(role, text) == MCMessage(role, "text", text)
MCParts(role, text) == MCMessage(role, "parts", text)
MCSilent(role) == [MCSay(role, "") EXCEPT !.content = None]
MCCalling(message, calls) == [message EXCEPT !.calls = calls]
MCResult(text, id) == [MCSay("tool", text) EXCEPT !.call_id = id]

MCTalk ==
  <<<<MCSay("system", "s"), MCSay("user", "a"), MCCalling(MCSilent("assistant"), <<"f", "g">>),
      MCResult("b", "g"), MCCalling(MCSay("assistant", "c"), <<"f">>), MCParts("user", "d")>>,
    <<MCSay("system", "s"), MCSay("user", "a"), MCParts("system", "t")>>,
    <<MCSilent("system"), MCParts("user", "a")>>>>
MCShort == <<MCSay("user", "a")>>

MCAsk(type, base, kind, messages, tools, choice) ==
  [type |-> type, base_url |-> base, kind |-> kind, messages |-> messages,
   tools |-> tools, tool_choice |-> choice]

MCAsks ==
  {MCAsk(t, None, "stream", MCShort, None, None) : t \in {"openai", "anthropic", "gemini"}}
  \cup {MCAsk(t, None, "embed", MCShort, None, None) : t \in {"openai", "gemini"}}
  \cup {MCAsk("openai", None, "complete", MCTalk[1], {"f"}, "required"),
        MCAsk("openai", "own", "complete", MCTalk[2], None, None)}
  \cup {MCAsk("anthropic", None, "complete", MCTalk[1], {"f"}, x) :
          x \in {"auto", "required", "none"}}
  \cup {MCAsk("anthropic", "", "complete", MCTalk[2], {"f"}, "named"),
        MCAsk("anthropic", "own", "complete", MCTalk[3], {"f"}, "object")}
  \cup {MCAsk("gemini", "own", "complete", MCTalk[1], {"f"}, x) : x \in {"named", "none"}}
  \cup {MCAsk("gemini", None, "complete", MCTalk[2], {"f"}, "required"),
        MCAsk("gemini", None, "complete", MCTalk[3], None, "auto")}
  \cup {MCAsk("vendor", b, "complete", MCShort, None, None) : b \in {None, "", "own"}}

MCData(payload) == <<"data:", " ">> \o payload \o <<"r", "\n">>
MCEvent(type, payload) ==
  <<"event:", " ", type, "\n">> \o MCData(payload) \o <<"\n">>
MCBoth(w) == [metered |-> w, plain |-> w]

MCOpenAiHead == MCData(<<"text", "a", "u1", "u2">>) \o <<"\n">> \o MCData(<<"tool", "f">>)
MCAnthropicHead == MCEvent("message_start", <<"start">>)
                   \o MCEvent("content_block_delta", <<"text", "u1", "u2">>)

MCWires ==
  [openai |->
     {[metered |-> MCOpenAiHead \o MCData(<<"end", "stop">>) \o MCData(<<"usage">>) \o MCData(<<"[DONE]">>),
       plain |-> MCOpenAiHead \o MCData(<<"end", "stop">>) \o MCData(<<"[DONE]">>)],
      MCBoth(MCData(<<"text", "a">>) \o MCData(<<"[DONE]">>) \o MCData(<<"text", "b">>)),
      MCBoth(MCData(<<"text", "a">>) \o MCData(<<"bad">>) \o MCData(<<"text", "b">>) \o <<"data:", "text">>),
      MCBoth(MCData(<<"text", "a">>) \o MCData(<<"text", "a", "b", "a", "b", "a", "b">>))},
   anthropic |->
     {MCBoth(MCAnthropicHead \o MCEvent("ping", <<"text">>) \o MCEvent("message_delta", <<"end", "end_turn">>)
             \o MCEvent("message_stop", <<"text">>)),
      MCBoth(MCAnthropicHead \o MCEvent("content_block_delta", <<"bad">>)
             \o MCEvent("message_delta", <<"partial">>)),
      MCBoth(MCEvent("message_start", <<"start">>)
             \o MCEvent("content_block_start", <<"tool", "f">>)
             \o MCEvent("content_block_delta", <<"args">>)
             \o MCEvent("message_delta", <<"end", "tool_use">>)),
      MCBoth(MCAnthropicHead \o MCData(<<"text", "b">>) \o <<":", "\n">>)},
   gemini |->
     {MCBoth(MCData(<<"text", "u1", "u2">>) \o MCData(<<"two", "a", "b">>)
             \o MCData(<<"tool", "f">>) \o MCData(<<"none">>) \o MCData(<<"end", "STOP">>)),
      MCBoth(MCData(<<"parts", "a", "b">>) \o MCData(<<"bad">>) \o MCData(<<"end", "STOP">>)),
      MCBoth(MCData(<<"text", "a">>) \o MCData(<<"partial">>))}]

MCAnswer(form, blocks, finish) == [form |-> form, blocks |-> blocks, finish |-> finish]
MCBlocks == <<[type |-> "text", value |-> "a"], [type |-> "tool", value |-> "f"],
              [type |-> "text", value |-> "b"], [type |-> "tool", value |-> "g"]>>
MCBadAnswers == {MCAnswer(f, << >>, None) : f \in {"garbage", "malformed", "partial", "empty"}}

MCReasons ==
  [openai |-> {"tool_calls", "content_filter"},
   anthropic |-> {"end_turn", "max_tokens", "tool_use", "stop_sequence", "pause_turn",
                  "refusal"},
   gemini |-> {"STOP", "MAX_TOKENS", "SAFETY", "RECITATION"}]

MCAnswers == [shape \in DOMAIN MCReasons |->
  MCBadAnswers \cup {MCAnswer("ok", MCBlocks, f) : f \in MCReasons[shape]}]

MCRefusals == {[status |-> x, retry_after |-> None] : x \in {400, 401, 403, 404, 429, 500}}
              \cup {[status |-> 429, retry_after |-> 5]}
=============================================================================
