----------------------------- MODULE MCLanguage -----------------------------
(* One instance for the checker and the evaluator: single calls with all   *)
(* kinds of arguments (part = "call"), and whole programs.                 *)
EXTENDS Calls, Checker, Evaluator, Inference

----------------------------------------------------------------------------
(* The calls: for every name the arguments it is meant for, and every list *)
(* that differs from them in one place.                                    *)

Bytes_ == OpaqueNamed("Bytes")
Context_ == OpaqueNamed("TestContext")
Limit_ == OpaqueNamed("NetDeadline")
RTask == TaskOf(TInt)

(* The arguments each name is meant for.                                   *)
Meant(f) ==
  CASE f \in {"len", "reverse", "sort", "min", "max", "first", "last"} -> {<<ListOf(TInt)>>}
    [] f \in {"print", "to_string"} -> {<<RuntimeResult(ListOf(TInt))>>}
    [] f = "append" -> {<<ListOf(TInt), TInt>>}
    [] f = "contains" -> {<<ListOf(TInt), TInt>>, <<DictOf(TInt), TString>>, <<TString, TString>>}
    [] f = "slice" -> {<<ListOf(TString), TInt, TInt>>}
    [] f \in {"split", "starts_with", "ends_with", "path_join", "write_file"} ->
         {<<TString, TString>>}
    [] f = "join" -> {<<ListOf(TString), TString>>}
    [] f = "range" -> {<<TInt>>, <<TInt, TInt>>, <<TInt, TInt, TInt>>}
    [] f = "assert" -> {<<TBool>>, <<TBool, TString>>}
    [] f \in {"sleep", "timeout_token", "deadline_after", "deadline_at_unix_millis"} -> {<<TInt>>}
    [] f \in {"argv", "read_stdin", "read_stdin_lines", "unix_seconds", "unix_millis",
              "cwd", "dict", "cancel_token"} -> {<<>>}
    [] f \in {"run_process", "write_lines"} -> {<<TString, ListOf(TString)>>}
    [] f = "insert" -> {<<DictOf(TInt), TString, TInt>>}
    [] f \in {"keys", "values"} -> {<<DictOf(TInt)>>}
    [] f = "channel" -> {<<>>, <<TInt>>}
    [] f = "close" -> {<<ChannelOf(TInt)>>}
    [] f = "send" -> {<<ChannelOf(TInt), TInt>>, <<ChannelOf(TInt), TInt, TToken>>}
    [] f = "recv" -> {<<ChannelOf(TInt)>>, <<ChannelOf(TInt), TToken>>}
    [] f = "await_result" -> {<<RTask>>, <<RTask, TToken>>}
    [] f \in {"cancel", "is_cancelled"} -> {<<TToken>>}
    [] f = "cancel_after" -> {<<TToken, TInt>>}
    [] f \in {"json_stringify", "json_len", "json_string", "json_int"} -> {<<TJson>>}
    [] f = "json_get" -> {<<TJson, TString>>}
    [] f = "json_index" -> {<<TJson, TInt>>}
    [] f = "csv_stringify" -> {<<ListOf(ListOf(TString))>>}
    [] f = "template_render" -> {<<TString, DictOf(TInt)>>, <<TString, TJson>>}
    [] f = "http_request" -> {<<TString, TString>>, <<TString, TString, TString, DictOf(TString), TInt>>}
    [] f = "http_post" -> {<<TString, TString>>, <<TString, TString, TString>>}
    [] f \in Builtins \cup Openings \cup {"bytes_from_string"} -> {<<TString>>}
    [] f \in {"test_fail", "test_skip", "test_todo", "test_case", "test_temp_file"} ->
         {<<Context_, TString>>}
    [] f \in {"test_equal", "test_not_equal"} -> {<<Context_, TInt, TInt, TString>>}
    [] f \in {"test_true", "test_false"} -> {<<Context_, TBool, TString>>}
    [] f \in {"test_ok", "test_err"} -> {<<Context_, RuntimeResult(TInt), TString>>}
    [] f = "test_match_snapshot" -> {<<Context_, TString, TInt>>}
    [] f = "test_env" -> {<<Context_, TString, TString>>}
    [] f = "bytes_slice" -> {<<Bytes_, TInt, TInt>>}
    [] f = "bytes_concat" -> {<<Bytes_, Bytes_>>}
    [] f \in SizedReads -> {<<OpaqueNamed(Receiver(f)), TInt>>}
    [] f \in Writings -> {<<OpaqueNamed(Receiver(f)), Bytes_>>}
    [] f \in WithDeadline -> {<<OpaqueNamed(Receiver(f)), Limit_>>}
    [] f \in WithCancel -> {<<OpaqueNamed(Receiver(f)), TToken>>}
    [] f = "connect_tcp_with_control" -> {<<TString, Limit_, TToken>>}
    [] OTHER -> {<<OpaqueNamed(Receiver(f))>>}

(* What may stand in the place of an argument.                             *)
Others == {Arg(t) : t \in {TUnknown, TInt, TString, TBool, TUnit, TJson, TToken,
    ListOf(TInt), ListOf(TString), ListOf(TUnknown), ListOf(ListOf(TInt)),
    ListOf(TaskOf(TInt)), ListOf(ListOf(TaskOf(TInt))), DictOf(TInt), DictOf(TString), ChannelOf(TString),
    TaskOf(RuntimeResult(TInt)), RuntimeResult(TInt), RuntimeResult(TUnit),
    StructNamed("Point"), EnumNamed("Shape"), Bytes_, Context_, Limit_,
    OpaqueNamed("ReadStream"), OpaqueNamed("TcpListener")}}
  \cup {Literal(TInt, "negative"), Literal(TInt, "zero"), Literal(TString, "empty")}

AsWritten(types) == [i \in 1..Len(types) |-> Arg(types[i])]
Variants(types) ==
  LET w == AsWritten(types)
  IN {w} \cup {[w EXCEPT ![i] = o] : i \in 1..Len(w), o \in Others}
       \cup {Append(w, Arg(TInt))} \cup {SubSeq(w, 1, i) : i \in 0..(Len(w) - 1)}
TheMenu == [f \in Builtins \cup Bridge |-> UNION {Variants(m) : m \in Meant(f)}]

TheStructs == [n \in {"Point"} |-> <<<<"x", TInt>>, <<"name", TString>>>>]
TheEnums ==
  [n \in {"Shape", "RuntimeError"} |->
     IF n = "Shape" THEN [v \in {"Dot", "Line"} |-> IF v = "Dot" THEN <<>> ELSE <<TInt>>]
     ELSE [v \in {"Io"} |-> <<TString>>]]

RECURSIVE Inhabitants(_)
Inhabitants(t) ==
  CASE t = TUnknown -> {IntValue(1), StringValue("a"), UnitValue,
                        ListValue(<<StringValue("a")>>), JsonValue("object")}
    [] t = TInt -> {IntValue(n) : n \in {-MaxInt - 1, -1, 0, 2, MaxInt}}
    [] t = TString -> {StringValue(s) : s \in Texts}
    [] t = TBool -> {BoolValue(b) : b \in BOOLEAN}
    [] t = TUnit -> {UnitValue}
    [] t = TJson -> {JsonValue(j) : j \in {"null", "int", "string", "array", "object"}}
    [] t = TToken -> {TokenValue}
    [] t[1] = "Opaque" -> {OpaqueValue(t[2])}
    [] t[1] = "List" ->
         LET vs == Inhabitants(t[2])
             v == CHOOSE v \in vs : TRUE
         IN {ListValue(<<>>)} \cup {ListValue(<<w, v>>) : w \in vs}
    [] t[1] = "Dict" ->
         {DictValue(<<>>)} \cup {DictValue([k \in {"a"} |-> v]) : v \in Inhabitants(t[2])}
    [] t[1] = "Channel" -> {<<"channel", <<>>>>} \cup {<<"channel", <<v>>>> : v \in Inhabitants(t[2])}
    [] t[1] = "Task" -> {<<"task", "failed">>} \cup {<<"task", "done", v>> : v \in Inhabitants(t[2])}
    [] t[1] = "Result" ->
         {OkValue(v) : v \in Inhabitants(t[2])} \cup {ErrValue(v) : v \in Inhabitants(t[3])}
    [] t[1] = "Struct" -> {<<"struct", t[2], <<IntValue(1), StringValue("a")>>>>}
    [] t[1] = "Enum" ->
         {EnumValue(t[2], v, [i \in 1..Len(Enums[t[2]][v]) |->
                                CHOOSE w \in Inhabitants(Enums[t[2]][v][i]) : TRUE]) :
            v \in DOMAIN Enums[t[2]]}

ValuesOf(a) ==
  CASE a.lit = "negative" -> {IntValue(-1)}
    [] a.lit = "zero" -> {IntValue(0)}
    [] a.lit = "empty" -> {StringValue("")}
    [] OTHER -> Inhabitants(a.ty)

----------------------------------------------------------------------------
(* The programs: a function for each way to put two operands together, one *)
(* for each two statements and an end, and modules of functions that call  *)
(* each other.                                                             *)

IntResult == RuntimeResult(TInt)
Fn(params, ret, body) == [params |-> params, ret |-> ret, body |-> body]
Single(name, f) == [n \in {name} |-> f]

(* One expression, of two operands.                                        *)
Operands == {Whole_(2), Text_("a"), Truth(TRUE), Local("n"), Local("u"), Local("nowhere"),
  List_(<<>>), List_(<<Whole_(0)>>), Entries(<<<<Text_("a"), Whole_(1)>>>>),
  Call("Point", <<Whole_(1), Text_("a")>>), Field(Local("Shape"), "Dot"),
  Method(Local("Result"), "Ok", <<Whole_(1)>>)}
Expressions ==
  {Binary(l, op, r) : l \in Operands, r \in Operands,
                      op \in {"+", "/", "-", "<", "==", "and", "or"}}
  \cup {Unary(op, e) : op \in {"-", "not"}, e \in Operands}
  \cup {Index(l, i) : l \in Operands, i \in Operands}
  \cup {List_(<<l, r>>) : l \in Operands, r \in Operands}
  \cup {Entries(<<<<l, r>>>>) : l \in Operands, r \in Operands}
  \cup {Call(f, <<l, r>>) : f \in {"Point", "append", "main", "missing"},
                            l \in Operands, r \in Operands}
  \cup {Call(f, <<l>>) : f \in {"len", "Point"}, l \in Operands}
  \cup {Field(e, name) : e \in Operands \cup {Local("Shape")}, name \in {"x", "y", "Dot", "Line"}}
  \cup {Method(l, name, <<r>>) : l \in Operands \cup {Local("Shape"), Local("Result")},
                                 name \in {"Line", "Err", "shift"}, r \in Operands}
Formulas ==
  {Single("main", Fn(<<<<"n", TInt>>, <<"u", TUnknown>>>>, NoType, <<Return_s(e)>>)) :
     e \in Expressions}

(* Two statements after a binding of x, and an end.                        *)
Plus == Binary(Local("x"), "+", Whole_(1))
Let1(name, e) == Let_s(name, FALSE, NoType, e)
On_(e, ok, err) ==
  Match(e, <<Arm("Result", "Ok", <<"v">>, ok), Arm("Result", "Err", <<"e">>, err)>>)
Recv_(name) == Case(name, Call("recv", <<Local("c")>>), <<Assign("x", Whole_(2))>>)
Statements == {
  Let1("x", Whole_(1)), Let1("y", Whole_(1)), Let_s("y", TRUE, TString, Local("u")),
  Let_s("y", FALSE, TInt, Text_("a")),
  Assign("x", Whole_(2)), Assign("x", Text_("a")), Assign("x", Local("u")),
  Assign("y", Whole_(1)), Assign("y", Text_("a")), Assign("b", Truth(TRUE)),
  If(Local("b"), <<Let1("y", Plus)>>, <<Assign("y", Text_("a"))>>),
  If(Local("b"), <<Return_s(Local("x"))>>, <<>>),
  If(Local("u"), <<Break>>, <<Assign("x", Plus)>>),
  While(Local("b"), <<Break>>),
  While(Binary(Local("x"), "<", Whole_(3)), <<Assign("x", Plus), Continue>>),
  For("i", List_(<<Whole_(1), Whole_(2)>>), <<Assign("x", Local("i"))>>),
  For("i", Text_("a"), <<Assign("i", Text_("a"))>>),
  For("i", Local("u"), <<Let1("x", Local("i"))>>),
  On_(Local("r"), <<Assign("x", Local("v"))>>, <<Assign("y", Local("e"))>>),
  On_(Local("r"), <<Return_s(Local("v"))>>, <<Return_s(Whole_(0))>>),
  On_(Local("r"), <<Assign("v", Whole_(1))>>, <<>>),
  On_(Local("u"), <<Assign("x", Local("v"))>>, <<>>),
  On_(Local("u"), <<Let1("v", Whole_(1))>>, <<Assign("e", Whole_(1))>>),
  Match(Local("r"), <<Arm("Result", "Ok", <<"v">>, <<>>)>>),
  Match(Local("s"), <<Arm("Shape", "Dot", <<>>, <<>>),
                      Arm("Shape", "Line", <<"v">>, <<Assign("x", Local("v"))>>)>>),
  Select(<<Recv_("v"), Case("", <<"Default">>, <<Assign("y", Whole_(1))>>)>>),
  Select(<<Case("v", Call("recv", <<Local("c")>>),
                <<On_(Local("v"), <<Assign("x", Local("v"))>>, <<>>)>>)>>),
  Select(<<Case("", Call("len", <<Text_("a")>>), <<>>)>>),
  Do(Try(Local("r"))), Let1("y", Try(Local("r"))), Let1("y", Go("help", <<Local("x")>>)),
  Let1("y", Await(Go("help", <<Local("x")>>))), Do(Await(Local("y"))),
  Assign("x", Call("help", <<Local("x")>>))}
Closings == {<<>>, <<Return_s(Local("x"))>>, <<Return_s(Local("y"))>>,
  <<Return_s(Try(Local("r")))>>, <<Return_s(Method(Local("Result"), "Ok", <<Local("x")>>))>>,
  <<Return_s(Method(Local("Result"), "Ok", <<Try(Local("r"))>>))>>}
Help == Fn(<<<<"n", TInt>>>>, NoType, <<Return_s(Binary(Local("n"), "+", Whole_(1)))>>)
MainParams == <<<<"b", TBool>>, <<"r", IntResult>>, <<"s", EnumNamed("Shape")>>,
                <<"c", ChannelOf(TInt)>>, <<"u", TUnknown>>>>
Begin == Let_s("x", TRUE, NoType, Whole_(1))
Two(f) == [n \in {"main", "help"} |-> IF n = "main" THEN f ELSE Help]
Bodies ==
  {Two(Fn(MainParams, ret, <<Begin, s, t>> \o e)) :
     ret \in {NoType, TInt, IntResult}, s \in Statements, t \in Statements, e \in Closings}

(* Three functions, each with one body that may call another.              *)
Names == {"f", "g", "h"}
Uses(e) == {
  <<Return_s(e)>>, <<Return_s(List_(<<e>>))>>, <<Return_s(Try(e))>>,
  <<Return_s(Method(Local("Result"), "Ok", <<e>>))>>,
  <<Return_s(Method(Local("Result"), "Err", <<e>>))>>,
  <<If(Truth(TRUE), <<Return_s(e)>>, <<>>), Return_s(Whole_(1))>>,
  <<If(Truth(TRUE), <<Return_s(e)>>, <<>>), Return_s(Text_("a"))>>,
  <<Return_s(Await(Go(e[2], <<>>)))>>, <<Do(e)>>}
Plain_ == {<<Return_s(Whole_(1))>>, <<>>, <<Return_s(Method(Local("Result"), "Ok", <<Whole_(1)>>))>>,
           <<Return_s(Try(Method(Local("Result"), "Err", <<Text_("a")>>)))>>,
           <<Return_s(Field(Call("Point", <<Whole_(1), Text_("a")>>), "x"))>>,
           <<Return_s(Method(Call("Point", <<Whole_(1), Text_("a")>>), "shift", <<Whole_(1)>>))>>}
Shift == Fn(<<<<"self", StructNamed("Point")>>, <<"n", TInt>>>>, NoType,
            <<Return_s(Binary(Field(Local("self"), "x"), "+", Local("n")))>>)
Module(body) ==
  [n \in Names \cup {"Point.shift"} |-> IF n = "Point.shift" THEN Shift
                                       ELSE Fn(<<>>, NoType, body[n])]
Chain(a, b, c) ==
  Module([n \in Names |-> IF n = "f" THEN a ELSE IF n = "g" THEN b ELSE c])
To(name) == Uses(Call(name, <<>>))
Chains == {Chain(a, b, c) : a \in To("g") \cup To("h"), b \in To("h"), c \in Plain_}
Circles == {Chain(a, b, c) : a \in To("g") \cup To("f"), b \in To("f") \cup To("h"), c \in To("g") \cup Plain_}

Everything == Formulas \cup Bodies \cup Chains \cup Circles

(* The functions of a program that a node of a body calls.                 *)
Each(s) == {s[i] : i \in 1..Len(s)}
Below(n) ==
  CASE n[1] \in {"Return", "Expr", "Await", "Propagate", "Field"} -> {n[2]}
    [] n[1] \in {"Unary", "Assign"} -> {n[3]}
    [] n[1] = "Index" -> {n[2], n[3]}
    [] n[1] = "Binary" -> {n[2], n[4]}
    [] n[1] = "Bind" -> {n[5]}
    [] n[1] = "List" -> Each(n[2])
    [] n[1] = "Dict" -> UNION {Each(pair) : pair \in Each(n[2])}
    [] n[1] \in {"Call", "Go"} -> Each(n[3])
    [] n[1] = "Method" -> {n[2]} \cup Each(n[4])
    [] n[1] = "If" -> {n[2]} \cup Each(n[3]) \cup Each(n[4])
    [] n[1] = "While" -> {n[2]} \cup Each(n[3])
    [] n[1] = "For" -> {n[3]} \cup Each(n[4])
    [] n[1] = "Match" -> {n[2]} \cup UNION {Each(arm.body) : arm \in Each(n[3])}
    [] n[1] = "Select" -> UNION {{arm.op} \cup Each(arm.body) : arm \in Each(n[2])}
    [] OTHER -> {}
NamesIn(n) ==
  CASE n[1] \in {"Call", "Go"} -> {n[2]}
    [] n[1] = "Method" -> {s \o "." \o n[3] : s \in DOMAIN Structs}
    [] OTHER -> {}
RECURSIVE Called(_)
Called(nodes) == UNION {NamesIn(n) \cup Called(Below(n)) : n \in nodes}
CalleesOf(p, f) == DOMAIN p \cap Called(Each(p[f].body))

Values(t) ==
  CASE t = TInt -> {IntValue(0), IntValue(MaxInt)}
    [] t = TBool -> {BoolValue(b) : b \in BOOLEAN}
    [] t = TUnknown -> {IntValue(1), OkValue(StringValue("a")), BoolValue(TRUE)}
    [] t = IntResult -> {OkValue(IntValue(2)), FailedValue}
    [] t[1] = "Enum" -> {EnumValue("Shape", "Line", <<IntValue(1)>>)}
    [] t[1] = "Channel" -> {<<"channel", <<>>>>}
    [] t[1] = "Struct" -> {<<"struct", "Point", <<IntValue(1), StringValue("a")>>>>}

----------------------------------------------------------------------------
(* The instance                                                            *)

CONSTANTS EndsOf(_, _, _, _)

VARIABLES part, start, end
programVars == <<inferenceVars, start, end>>

P == INSTANCE Programs WITH Sample <- Values, Fuel <- 4

(* Modules whose functions may have an unknown type, or an integer's.      *)
ASSUME CheckerLooksAtCallees == LooksAtCallees(Chains \cup Circles, {TUnknown, TInt})

(* No single calls: for the runs that are about programs.                  *)
NoMenu == <<>>

LanguageInit ==
  \/ part = "call" /\ Init
     /\ prog = <<>> /\ sigs = <<>> /\ round = 0 /\ stage = "" /\ start = "" /\ end = Stops
  \/ part = "program" /\ P!Init
     /\ call = <<>> /\ at = "" /\ vals = <<>> /\ out = Stops
LanguageNext ==
  \/ part = "call" /\ Next /\ UNCHANGED <<part, programVars>>
  \/ part = "program" /\ P!Next /\ UNCHANGED <<part, vars>>
LanguageSpec == LanguageInit /\ [][LanguageNext]_<<part, vars, programVars>>

(* See Programs.                                                           *)
TypesAreKept == P!TypesAreKept
NamesResolve == P!NamesResolve
AnnotationsHold == P!AnnotationsHold
=============================================================================
