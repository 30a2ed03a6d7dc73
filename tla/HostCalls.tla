----------------------------- MODULE HostCalls -----------------------------
(***************************************************************************)
(* The builtin calls that reach the host, the data formats, and the        *)
(* channels, tasks and tokens (interpreter.rs), in the terms of            *)
(* CallEvaluator. Their blocking is the business of Channel and Task: here *)
(* a channel is what it holds and a task how it ended.                     *)
(***************************************************************************)
EXTENDS CallEvaluator

Done == Return(UnitValue)
NewToken == Return(TokenValue)
TokenLast(args, n) == Len(args) = n => args[n][1] = "token"

(* eval_string_argument, eval_int_argument and their kin: each argument is *)
(* asked for by its kind in turn.                                          *)
Text(args, n) == args[n][1] = "string"
Whole(args, n) == args[n][1] = "int"
(* eval_non_negative_duration_argument.                                    *)
Duration(args, n, outcomes) ==
  When(Whole(args, n), IF args[n][2] < 0 THEN RuntimeStop ELSE outcomes)
OneText(args, outcomes) == When(Given(args, <<"string">>), outcomes)
TwoTexts(args, outcomes) == When(Given(args, <<"string", "string">>), outcomes)
OneJson(args, outcomes) == When(Given(args, <<"json">>), outcomes)
NoArguments(args, outcomes) == When(args = <<>>, outcomes)

----------------------------------------------------------------------------
(* The program's surroundings.                                             *)

Argv(args) == NoArguments(args, Lines)
ReadStdin(args) == NoArguments(args, Either(AnyText))
ReadStdinLines(args) == NoArguments(args, Either(Lines))
Env(args) == OneText(args, Either(AnyText))
Cwd(args) == NoArguments(args, Either(AnyText))
Clock == Either(Return(IntValue(1)))
UnixSeconds(args) == NoArguments(args, Clock)
UnixMillis(args) == NoArguments(args, Clock)
RunProcess(args) ==
  When(Len(args) = 2 /\ Text(args, 1) /\ Strings(args[2]),
       Either(Return(JsonValue("object"))))
Exists(args) == OneText(args, AnyBool)
ReadDir(args) == OneText(args, Either(Lines))
Mkdir(args) == OneText(args, Either(Done))
RemoveFile(args) == OneText(args, Either(Done))
PathJoin(args) == TwoTexts(args, AnyText)
PathPart(args) == OneText(args, AnyText)
PathDir(args) == PathPart(args)
PathBase(args) == PathPart(args)
PathExt(args) == PathPart(args)
ReadFile(args) == OneText(args, Either(AnyText))
WriteFile(args) == TwoTexts(args, Either(Done))
ReadLines(args) == OneText(args, Either(Lines))
WriteLines(args) ==
  When(Len(args) = 2 /\ Text(args, 1) /\ Strings(args[2]), Either(Done))

----------------------------------------------------------------------------
(* Data formats.                                                           *)

JsonParse(args) == OneText(args, Either(AnyJson))
TomlParse(args) == OneText(args, Either(AnyJson))
YamlParse(args) == OneText(args, Either(AnyJson))
Base64Encode(args) == OneText(args, AnyText)
Base64Decode(args) == OneText(args, Either(AnyText))
JsonStringify(args) == OneJson(args, OkOf(AnyText))
JsonGet(args) ==
  When(Given(args, <<"json", "string">>),
       IF args[1][2] = "object" THEN Either(AnyJson) ELSE Failure)
JsonIndex(args) ==
  When(Given(args, <<"json", "int">>),
       IF args[1][2] = "array" /\ args[2][2] >= 0 THEN Either(AnyJson) ELSE Failure)
JsonLen(args) ==
  OneJson(args, IF args[1][2] \in {"array", "object"}
                THEN OkOf(Return(IntValue(1))) ELSE Failure)
JsonString(args) ==
  OneJson(args, IF args[1][2] = "string" THEN OkOf(AnyText) ELSE Failure)
JsonInt(args) ==
  OneJson(args, IF args[1][2] = "int" THEN OkOf(Return(IntValue(1))) ELSE Failure)
CsvParse(args) ==
  OneText(args, OkOf({Returns(ListValue(<<l[2]>>)) : l \in Lines}) \cup Failure)
CsvStringify(args) ==
  When(/\ Len(args) = 1 /\ args[1][1] = "list"
       /\ \A i \in 1..Len(args[1][2]) : Strings(args[1][2][i]),
       Either(AnyText))
(* A context of the wrong kind is an error the program can match on.       *)
TemplateRender(args) ==
  When(Len(args) = 2 /\ Text(args, 1),
       IF args[2][1] = "dict" \/ args[2] = JsonValue("object")
       THEN Either(AnyText) ELSE Failure)

----------------------------------------------------------------------------
(* HTTP.                                                                   *)

TextResponse == Either(AnyText)
HttpReport == Either(Return(JsonValue("object")))
Headers(v) == v[1] = "dict" /\ \A k \in DOMAIN v[2] : v[2][k][1] = "string"
HttpRequest(args) ==
  When(/\ Len(args) \in 2..5
       /\ \A i \in 1..3 : i <= Len(args) => Text(args, i)
       /\ Len(args) >= 4 => Headers(args[4]),
       IF Len(args) = 5 THEN Duration(args, 5, HttpReport) ELSE HttpReport)
HttpGet(args) == OneText(args, TextResponse)
HttpPost(args) ==
  When(Len(args) \in 2..3 /\ \A i \in 1..Len(args) : Text(args, i), TextResponse)

----------------------------------------------------------------------------
(* Time, tokens, channels and tasks.                                       *)

Sleep(args) == When(Len(args) = 1, Duration(args, 1, Done))
CancelToken(args) == NoArguments(args, NewToken)
Cancel_(args) == When(Given(args, <<"token">>), Done)
IsCancelled(args) == When(Given(args, <<"token">>), AnyBool)
TimeoutToken(args) == When(Len(args) = 1, Duration(args, 1, NewToken))
CancelAfter(args) ==
  When(Len(args) = 2 /\ args[1][1] = "token", Duration(args, 2, Done))
Channel_(args) ==
  IF args = <<>> THEN Return(<<"channel", <<>>>>)
  ELSE When(Given(args, <<"int">>),
            IF args[1][2] < 0 THEN RuntimeStop ELSE Return(<<"channel", <<>>>>))
Close_(args) == When(Given(args, <<"channel">>), Done)
Send(args) ==
  When(Len(args) \in 2..3 /\ args[1][1] = "channel" /\ TokenLast(args, 3), Either(Done))
(* What arrives is something the channel holds; it may be closed, or the   *)
(* wait cancelled.                                                         *)
Recv(args) ==
  When(Len(args) \in 1..2 /\ args[1][1] = "channel" /\ TokenLast(args, 2),
       Failure \cup OkOf({Returns(args[1][2][i]) : i \in 1..Len(args[1][2])}))
(* await_result_value: the value of a task that ended well is wrapped,     *)
(* also when it is a Result itself.                                        *)
AwaitResult(args) ==
  When(Len(args) \in 1..2 /\ args[1][1] = "task" /\ TokenLast(args, 2),
       (IF Len(args) = 2 THEN Failure ELSE {})
         \cup IF args[1][2] = "done" THEN OkOf(Return(args[1][3])) ELSE Failure)
=============================================================================
