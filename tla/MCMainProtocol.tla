--------------------------- MODULE MCMainProtocol ---------------------------
(* Instances of MainProtocol for TLC. *)
EXTENDS MainProtocol

Line(words) == [line |-> words \o <<LF>>, job |-> NoJob]
LineCR(words) == [line |-> words \o <<CR, LF>>, job |-> NoJob]
Request(request, answer) ==
    [line |-> <<"REQUEST", LF>>, job |-> [request |-> request, answer |-> answer]]
TaggedRequest(request, answer) ==
    [line |-> <<"REQUEST", SP, "TAG", SP, "x", LF>>, job |-> [request |-> request, answer |-> answer]]

Login == <<Line(<<"AUTH">>), Line(<<"MECH", SP, "NONE">>)>>

MCScripts == {
    \* a request with a line behind it that may be read together with it, then another
    Login \o <<Request(<<"x", LF, DOT>>, <<LF, DOT>>), Line(<<"QUIT">>)>>,
    Login \o <<Request(<<"x">>, <<"y">>), LineCR(<<"CAPABILITIES">>), Request(<<LF, DOT>>, <<"y">>)>>,
    \* a request of no data, one that is refused, and one with a command and a tag whose data
    \* ends like the start of the marker
    Login \o <<Request(<<>>, <<"y">>), Line(<<"REQUEST", SP, "x", SP, "y">>), TaggedRequest(<<CR>>, <<DOT>>)>>,
    \* errors on every level of the line, and commands after QUIT
    <<Line(<<"BAD", SP, "x">>), LineCR(<<SP, "x">>), Line(<<"AUTH">>), Line(<<>>), Line(<<"AUTH", SP, "x">>),
      [line |-> <<"AUTH", CR, "x", CR, LF>>, job |-> NoJob], LineCR(<<"REQUEST">>), LineCR(<<"AUTH">>),
      Line(<<"MECH", SP, "MD5">>), Line(<<"MECH">>), Line(<<"AUTH">>), LineCR(<<"QUIT">>), Line(<<"QUIT">>)>> }
=============================================================================
