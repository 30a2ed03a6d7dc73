----------------------------- MODULE Evaluator -----------------------------
(***************************************************************************)
(* The evaluator's walk over a program (interpreter.rs): the set of ways   *)
(* an expression, a statement or a call of a function can end. An          *)
(* expression may also propagate a Result.Err with ?, and a name that is   *)
(* not what the program takes it for ends it as misnamed. A task runs when *)
(* it is started: what two threads do to each other is the business of     *)
(* Task and Channel. Recursion and loops stop after fuel steps.            *)
(***************************************************************************)
EXTENDS CallTables, Syntax
LOCAL S == INSTANCE SequencesExt

Propagates(v) == <<"propagate", v>>
(* Goes on with the value of each outcome that has one.                    *)
Then(outcomes, Go_(_)) ==
  UNION {IF o[1] = "value" THEN Go_(o[2]) ELSE {o} : o \in outcomes}

----------------------------------------------------------------------------
(* Operators.                                                              *)

(* Division is towards zero; the one quotient that does not fit panics     *)
(* whether or not overflow is checked.                                     *)
Sign(n) == IF n < 0 THEN -1 ELSE 1
Quotient(a, b) == Sign(a) * Sign(b) * ((Sign(a) * a) \div (Sign(b) * b))
Division(a, op, b) ==
  IF b = 0 THEN RuntimeStop
  ELSE IF Quotient(a, b) \notin Ints THEN {Panics}
  ELSE Return(IntValue(IF op = "/" THEN Quotient(a, b) ELSE a - b * Quotient(a, b)))
Arithmetic(a, op, b) ==
  CASE op = "+" -> Number(a + b) [] op = "-" -> Number(a - b) [] op = "*" -> Number(a * b)
    [] OTHER -> Division(a, op, b)
Compare(a, op, b) ==
  CASE op = "<" -> a < b [] op = "<=" -> a <= b [] op = ">" -> a > b [] op = ">=" -> a >= b
Comparable == {"int", "string", "bool", "json", "opaque", "struct", "enum", "list", "dict",
               "unit"}

(* eval_binary. Two values of json or two opaque values of a kind are one  *)
(* here, and may or may not be equal in truth.                             *)
Operate(l, op, r) ==
  IF l[1] # r[1] THEN WrongKind
  ELSE CASE op \in EqualityOps /\ l[1] \in {"json", "opaque"} -> AnyBool
         [] op \in EqualityOps /\ l[1] \in Comparable ->
              Return(BoolValue((l = r) = (op = "==")))
         [] op \in ArithmeticOps /\ l[1] = "int" -> Arithmetic(l[2], op, r[2])
         [] op = "+" /\ l[1] = "string" -> Return(IF l[2] = "" THEN r ELSE l)
         [] op \in OrderingOps /\ l[1] \in {"int", "string"} ->
              Return(BoolValue(Compare(Rank(l), op, Rank(r))))
         [] OTHER -> WrongKind

Negate(op, v) ==
  CASE op = "not" /\ v[1] = "bool" -> Return(BoolValue(~v[2]))
    [] op = "-" /\ v[1] = "int" -> Number(-v[2])
    [] OTHER -> WrongKind

(* eval_index.                                                             *)
Element(v, i) ==
  CASE v[1] = "list" /\ i[1] = "int" ->
         IF i[2] \in 0..(Len(v[2]) - 1) THEN Return(v[2][i[2] + 1]) ELSE RuntimeStop
    [] v[1] = "dict" /\ i[1] = "string" ->
         IF i[2] \in DOMAIN v[2] THEN Return(v[2][i[2]]) ELSE RuntimeStop
    [] OTHER -> WrongKind

FieldOf(v, name) ==
  IF v[1] # "struct" THEN WrongKind
  ELSE LET at == {i \in 1..Len(Structs[v[2]]) : Structs[v[2]][i][1] = name}
       IN IF at = {} THEN WrongKind ELSE Return(v[3][CHOOSE i \in at : TRUE])

(* eval_struct_constructor, eval_result_variant and eval_enum_variant.     *)
NewStruct(n, vals) ==
  When(Len(vals) = Len(Structs[n]), Return(<<"struct", n, vals>>))
NewResult(variant, vals) ==
  When(variant \in {"Ok", "Err"} /\ Len(vals) = 1,
       Return(EnumValue("Result", variant, vals)))
NewEnum(n, variant, vals) ==
  When(variant \in DOMAIN Enums[n] /\ Len(vals) = Len(Enums[n][variant]),
       Return(EnumValue(n, variant, vals)))
NewVariant(n, variant, vals) ==
  IF n = "Result" THEN NewResult(variant, vals) ELSE NewEnum(n, variant, vals)
IsEnumName(scopes, e) ==
  e[1] = "Local" /\ ~Known(scopes, e[2]) /\ e[2] \in DOMAIN Enums \cup {"Result"}

----------------------------------------------------------------------------
(* Tasks and ?.                                                            *)

(* store_value, store_diagnostics and store_panic: a task of a function    *)
(* declared to return a Result of RuntimeError has its failure as a value. *)
TaskThatEnds(f, o) ==
  IF o[1] = "value" THEN <<"task", "done", o[2]>>
  ELSE IF f.ret[1] = "Result" /\ f.ret[3] = RuntimeError THEN <<"task", "done", FailedValue>>
  ELSE <<"task", "failed", o>>
Awaited(v) ==
  CASE v[1] # "task" -> WrongKind
    [] v[1] = "task" /\ v[2] = "done" -> Return(v[3])
    [] OTHER -> {v[3]}
Propagate(v) ==
  CASE v[1] # "enum" -> WrongKind
    [] v[1] = "enum" /\ v[2] # "Result" -> WrongKind
    [] OTHER -> IF v[3] = "Ok" THEN Return(v[4][1]) ELSE {Propagates(v)}

----------------------------------------------------------------------------
(* Expressions, from left to right.                                        *)

RECURSIVE Eval(_, _, _, _)
RECURSIVE EvalFunction(_, _, _, _)
EvalAll(funs, scopes, es, fuel) ==
  S!FoldLeft(LAMBDA os, e :
               Then(os, LAMBDA vs : Then(Eval(funs, scopes, e, fuel),
                                         LAMBDA v : Return(Append(vs, v)))),
             Return(<<>>), es)

EvalDict(funs, scopes, entries, fuel) ==
  S!FoldLeft(LAMBDA os, pair :
               Then(os, LAMBDA d : Then(EvalAll(funs, scopes, pair, fuel), LAMBDA kv :
                 When(kv[1][1] = "string", Insert(<<d, kv[1], kv[2]>>)))),
             Return(DictValue(<<>>)), entries)

EvalLocal(scopes, name) ==
  IF Known(scopes, name) THEN Return(Lookup(scopes, name).is) ELSE {Misnamed}

(* A function of the program goes before a builtin, that before a struct.  *)
EvalCall(funs, f, vals, fuel) ==
  CASE f \in DOMAIN funs -> EvalFunction(funs, f, vals, fuel)
    [] f \notin DOMAIN funs /\ f \in Builtins \cup Bridge -> Perform(f, vals)
    [] f \notin DOMAIN funs /\ f \in DOMAIN Structs -> NewStruct(f, vals)
    [] OTHER -> {Misnamed}
EvalMethod(funs, name, vals, fuel) ==
  IF vals[1][1] \notin {"struct", "opaque"} THEN WrongKind
  ELSE LET symbol == vals[1][2] \o "." \o name
       IN IF symbol \in DOMAIN funs THEN EvalFunction(funs, symbol, vals, fuel) ELSE WrongKind
Spawn(funs, f, vals, fuel) ==
  IF f \notin DOMAIN funs \/ f \in DOMAIN Structs THEN {Misnamed}
  ELSE {Returns(TaskThatEnds(funs[f], o)) : o \in EvalFunction(funs, f, vals, fuel)}

(* eval_logical: the right side is not evaluated if the left one decides.  *)
EvalLogical(funs, scopes, l, op, r, fuel) ==
  Then(Eval(funs, scopes, l, fuel), LAMBDA v :
    IF v[1] # "bool" THEN WrongKind
    ELSE IF v[2] = (op = "or") THEN Return(v)
    ELSE Then(Eval(funs, scopes, r, fuel), LAMBDA u : When(u[1] = "bool", Return(u))))

(* eval_expr.                                                              *)
Eval(funs, scopes, e, fuel) ==
  LET all(es, Go_(_)) == Then(EvalAll(funs, scopes, es, fuel), Go_)
  IN CASE e[1] = "Int" -> Return(IntValue(e[2]))
       [] e[1] = "String" -> Return(StringValue(e[2]))
       [] e[1] = "Bool" -> Return(BoolValue(e[2]))
       [] e[1] = "List" -> all(e[2], LAMBDA vs : Return(ListValue(vs)))
       [] e[1] = "Dict" -> EvalDict(funs, scopes, e[2], fuel)
       [] e[1] = "Local" -> EvalLocal(scopes, e[2])
       [] e[1] = "Call" -> all(e[3], LAMBDA vs : EvalCall(funs, e[2], vs, fuel))
       [] e[1] = "Field" ->
            IF IsEnumName(scopes, e[2]) THEN NewVariant(e[2][2], e[3], <<>>)
            ELSE all(<<e[2]>>, LAMBDA vs : FieldOf(vs[1], e[3]))
       [] e[1] = "Method" ->
            IF IsEnumName(scopes, e[2])
            THEN all(e[4], LAMBDA vs : NewVariant(e[2][2], e[3], vs))
            ELSE all(<<e[2]>> \o e[4], LAMBDA vs : EvalMethod(funs, e[3], vs, fuel))
       [] e[1] = "Index" -> all(<<e[2], e[3]>>, LAMBDA vs : Element(vs[1], vs[2]))
       [] e[1] = "Go" -> all(e[3], LAMBDA vs : Spawn(funs, e[2], vs, fuel))
       [] e[1] = "Await" -> all(<<e[2]>>, LAMBDA vs : Awaited(vs[1]))
       [] e[1] = "Propagate" -> all(<<e[2]>>, LAMBDA vs : Propagate(vs[1]))
       [] e[1] = "Unary" -> all(<<e[3]>>, LAMBDA vs : Negate(e[2], vs[1]))
       [] e[1] = "Binary" ->
            IF e[3] \in LogicalOps THEN EvalLogical(funs, scopes, e[2], e[3], e[4], fuel)
            ELSE all(<<e[2], e[4]>>, LAMBDA vs : Operate(vs[1], e[3], vs[2]))

----------------------------------------------------------------------------
(* Statements. One ends by going on with the scopes as they are now, by    *)
(* leaving the loop or the function, or as an expression in it failed.     *)

Leave(o) == IF o[1] = "propagate" THEN <<"return", o[2]>> ELSE o
On(outcomes, Go_(_)) ==
  UNION {IF o[1] = "value" THEN Go_(o[2]) ELSE {Leave(o)} : o \in outcomes}
Next_(scopes) == {<<"next", scopes>>}
Held(mutable, v) == Binding(mutable, v)

RECURSIVE EvalStatement(_, _, _, _, _)
(* eval_block.                                                             *)
EvalBlock(funs, scopes, body, depth, fuel) ==
  LET step(os, s) ==
        UNION {IF o[1] = "next" THEN EvalStatement(funs, o[2], s, depth, fuel) ELSE {o} :
                 o \in os}
  IN S!FoldLeft(step, Next_(scopes), body)
Within(funs, scopes, bindings, body, depth, fuel) ==
  {IF o[1] \in {"next", "break", "continue"} THEN <<o[1], Pop(o[2])>> ELSE o :
     o \in EvalBlock(funs, Append(scopes, bindings), body, depth, fuel)}

EvalBind(scopes, name, mutable, outcomes) ==
  IF InCurrent(scopes, name) THEN {Misnamed}
  ELSE On(outcomes, LAMBDA v : Next_(Define(scopes, name, Held(mutable, v))))
EvalAssign(scopes, name, outcomes) ==
  On(outcomes, LAMBDA v :
    IF ~Known(scopes, name) THEN Next_(Define(scopes, name, Held(FALSE, v)))
    ELSE IF ~Lookup(scopes, name).mutable THEN {Misnamed}
    ELSE Next_(Update(scopes, name, v)))

EvalIf(funs, scopes, c, yes, no, depth, fuel) ==
  On(Eval(funs, scopes, c, fuel), LAMBDA v :
    IF v[1] # "bool" THEN WrongKind
    ELSE Within(funs, scopes, <<>>, IF v[2] THEN yes ELSE no, depth, fuel))

RECURSIVE EvalWhile(_, _, _, _, _, _)
EvalWhile(funs, scopes, c, body, depth, fuel) ==
  IF fuel = 0 THEN {Endless}
  ELSE On(Eval(funs, scopes, c, fuel), LAMBDA v :
    IF v[1] # "bool" THEN WrongKind
    ELSE IF ~v[2] THEN Next_(scopes)
    ELSE UNION {CASE o[1] \in {"next", "continue"} ->
                       EvalWhile(funs, o[2], c, body, depth, fuel - 1)
                  [] o[1] = "break" -> Next_(o[2])
                  [] OTHER -> {o} :
                  o \in Within(funs, scopes, <<>>, body, depth + 1, fuel)})

(* iter_values_from_iterable, and a scope of its own for each item.        *)
ItemsOf(v) ==
  CASE v[1] = "list" -> v[2]
    [] v[1] = "string" -> IF v[2] = "" THEN <<>> ELSE <<v>>
    [] v[1] = "dict" -> LET s == Ordered(v[2]) IN [i \in 1..Len(s) |-> StringValue(s[i])]
EvalFor(funs, scopes, name, e, body, depth, fuel) ==
  LET round(os, item) ==
        UNION {IF o[1] \notin {"next", "continue"} THEN {o}
               ELSE Within(funs, o[2], [n \in {name} |-> Held(FALSE, item)], body,
                           depth + 1, fuel) : o \in os}
      over(o) == IF o[1] \in {"break", "continue"} THEN <<"next", o[2]>> ELSE o
  IN On(Eval(funs, scopes, e, fuel), LAMBDA v :
       IF v[1] \notin {"list", "string", "dict"} THEN WrongKind
       ELSE {over(o) : o \in S!FoldLeft(round, Next_(scopes), ItemsOf(v))})

(* Every pattern is resolved against the value's enum before an arm runs.  *)
FieldsOf(enum, variant) ==
  IF enum = "Result" THEN 1 ELSE Len(Enums[enum][variant])
Resolves(enum, arms) ==
  LET variants == IF enum = "Result" THEN {"Ok", "Err"} ELSE DOMAIN Enums[enum]
  IN /\ {arms[i].variant : i \in 1..Len(arms)} = variants
     /\ \A i \in 1..Len(arms) :
          /\ arms[i].enum = enum /\ Len(arms[i].names) = FieldsOf(enum, arms[i].variant)
          /\ \A j \in 1..Len(arms) : arms[j].variant = arms[i].variant => i = j
Payloads(arm, fields) ==
  [n \in {arm.names[i] : i \in 1..Len(arm.names)} |->
     Held(FALSE, fields[CHOOSE i \in 1..Len(arm.names) : arm.names[i] = n])]
EvalMatch(funs, scopes, e, arms, depth, fuel) ==
  On(Eval(funs, scopes, e, fuel), LAMBDA v :
    IF v[1] # "enum" THEN WrongKind
    ELSE IF ~Resolves(v[2], arms) THEN WrongKind
    ELSE LET arm == arms[CHOOSE i \in 1..Len(arms) : arms[i].variant = v[3]]
         IN Within(funs, scopes, Payloads(arm, v[4]), arm.body, depth, fuel))

(* Every operation is prepared before one is polled; which arm it is then, *)
(* is the business of Select.                                              *)
Prepared(funs, scopes, arm, fuel) ==
  IF \/ arm.op[1] # "Call"
     \/ ~(\/ arm.op[2] = "recv" /\ Len(arm.op[3]) \in 1..2
          \/ arm.op[2] = "send" /\ Len(arm.op[3]) \in 2..3) THEN WrongKind
  ELSE Then(EvalAll(funs, scopes, arm.op[3], fuel), LAMBDA vs : Perform(arm.op[2], vs))
EvalSelect(funs, scopes, arms, depth, fuel) ==
  LET body(arm, bound) ==
        Within(funs, scopes, IF arm.name = "" \/ bound = <<>> THEN <<>>
                             ELSE [n \in {arm.name} |-> Held(FALSE, bound[1])],
               arm.body, depth, fuel)
      run(arm) == IF arm.op = <<"Default">> THEN body(arm, <<>>)
                  ELSE On(Prepared(funs, scopes, arm, fuel), LAMBDA v : body(arm, <<v>>))
      defaults == {i \in 1..Len(arms) : arms[i].op = <<"Default">>}
  IN IF arms = <<>> \/ Cardinality(defaults) > 1 THEN WrongKind
     ELSE UNION {run(arms[i]) : i \in 1..Len(arms)}

(* eval_stmt.                                                              *)
EvalStatement(funs, scopes, s, depth, fuel) ==
  CASE s[1] = "Return" -> On(Eval(funs, scopes, s[2], fuel), LAMBDA v : {<<"return", v>>})
    [] s[1] = "Bind" -> EvalBind(scopes, s[2], s[3], Eval(funs, scopes, s[5], fuel))
    [] s[1] = "Assign" -> EvalAssign(scopes, s[2], Eval(funs, scopes, s[3], fuel))
    [] s[1] = "Break" -> IF depth = 0 THEN {Misnamed} ELSE {<<"break", scopes>>}
    [] s[1] = "Continue" -> IF depth = 0 THEN {Misnamed} ELSE {<<"continue", scopes>>}
    [] s[1] = "If" -> EvalIf(funs, scopes, s[2], s[3], s[4], depth, fuel)
    [] s[1] = "While" -> EvalWhile(funs, scopes, s[2], s[3], depth, fuel)
    [] s[1] = "For" -> EvalFor(funs, scopes, s[2], s[3], s[4], depth, fuel)
    [] s[1] = "Match" -> EvalMatch(funs, scopes, s[2], s[3], depth, fuel)
    [] s[1] = "Select" -> EvalSelect(funs, scopes, s[2], depth, fuel)
    [] s[1] = "Expr" -> On(Eval(funs, scopes, s[2], fuel), LAMBDA v : Next_(scopes))

(* eval_function.                                                          *)
Arguments(f, vals) ==
  [n \in {f.params[i][1] : i \in 1..Len(f.params)} |->
     Held(FALSE, vals[CHOOSE i \in 1..Len(f.params) : f.params[i][1] = n])]
EvalFunction(funs, name, vals, fuel) ==
  LET f == funs[name]
      end(o) == CASE o[1] = "next" -> Returns(UnitValue)
                  [] o[1] = "return" -> Returns(o[2])
                  [] o[1] \in {"break", "continue"} -> Misnamed
                  [] OTHER -> o
  IN IF fuel = 0 THEN {Endless}
     ELSE IF Len(vals) # Len(f.params) THEN WrongKind
     ELSE {end(o) : o \in EvalBlock(funs, NewScopes(Arguments(f, vals)), f.body, 0, fuel - 1)}
=============================================================================
