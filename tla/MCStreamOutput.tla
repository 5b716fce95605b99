--------------------------- MODULE MCStreamOutput ---------------------------
EXTENDS StreamOutput

Close == End("think")
Str(v) == <<"<", "arg", "str", ">">> \o v \o End("arg")
Raw(v) == <<"<", "arg", "raw", ">">> \o v \o End("arg")
Loose(v) == <<"<", "arg", ">">> \o v \o End("arg")
Call(args) == <<"<", "call", ">">> \o args \o End("call")
Block(calls) == Start("tools") \o calls \o End("tools")

MCScript == {
  \* plain text, with everything that is held
  <<"x", "w", "<", "x", "&", ";">> \o <<"u1", "u2", "x", "w", "w">>,
  <<"x", "s", "x", "s", "t", "x">>,
  <<"x", "<", "w", "x", "x", "x", "x", "x", "u1", "u2">>,
  \* thinking that is closed, opened again, never closed
  <<"x", "u1", "u2", "w">> \o Close \o <<"x", "s", "s", "t">>,
  Start("think") \o <<"x", "<", "/", "x">> \o Close \o <<"w">>,
  Start("think") \o <<"x", "s", "t">>,
  Start("think") \o Close,
  \* one call and two, behind text and thinking
  <<"x", "w">> \o Block(<<"w">> \o Call(Str(<<"u1", "u2", "&", ";", "<", "x">>) \o <<"w">>)),
  <<"x">> \o Close \o <<"w">> \o Block(Call(Str(<<"x", "<", "/", "&">>) \o Raw(<<"x">>)) \o <<"w">> \o Call(<<>>)) \o <<"x">>,
  <<"x">> \o Close \o <<"x", "w", "w">> \o Block(Call(Raw(<<"q", "esc", "q", "x", "q">>)) \o Call(Str(<<>>))),
  Block(Call(Str(<<"s", "t">>))),
  Block(<<>>),
  \* a block in the reasoning, and one that is only mentioned
  <<"x">> \o Block(Call(<<>>)) \o Close \o <<"x">>,
  <<"x">> \o Close \o <<"x">> \o Start("tools") \o <<"x">>,
  \* an argument without the string attribute, plain and nested
  <<"x">> \o Close \o Block(Call(Loose(<<"x">>)) \o Call(<<>>)),
  Block(Call(Str(<<"x">>) \o <<"<", "arg", ">", "w">> \o Str(<<"&", ";">>) \o Raw(<<"x">>) \o End("arg"))),
  \* malformed: text for a call, text for an argument, calls closed too early
  <<"x">> \o Close \o Block(<<"x">>),
  <<"x">> \o Close \o Block(Call(Str(<<"x">>) \o <<"x">>)),
  Block(<<"<", "call", ">">> \o Str(<<"x">>)),
  \* raw values the final parser rewrites: none, behind a newline, two in one
  Block(Call(Raw(<<>>))),
  <<"x">> \o Close \o Block(Call(Raw(<<"w", "x", "w">>) \o Raw(<<"w">>))),
  Block(Call(Raw(<<"q", "x", "esc", "esc", "q", "x">>))),
  \* a marker that is mentioned, and a block begun badly, before one behind a blank line
  <<"x">> \o Start("tools") \o <<"x", "w", "w">> \o Block(Call(Str(<<"x">>))),
  Start("tools") \o <<"<", "call", ">", "x", "w", "w">> \o Block(Call(<<>>)),
  <<"x">> \o Close \o Start("tools") \o Call(Str(<<"x">>)) \o <<"w", "w">> \o Block(Call(<<>>)),
  <<"x", "w", "w">> \o Start("tools") \o Call(<<>>) \o <<"x", "w", "w">> \o Block(Call(<<>>)),
  \* an end marker before the start marker
  End("tools") \o <<"w">> \o Block(Call(Str(<<"x">>)))}

MCRequest == [api : Api, think : BOOLEAN, tools : BOOLEAN, stop : BOOLEAN]
=============================================================================
