------------------------------ MODULE Checker ------------------------------
(***************************************************************************)
(* The checker's walk over a function (typed_hir.rs): the type of every    *)
(* expression and the scopes after every statement. m is what it knows of  *)
(* the module: the functions as written, the return type it takes each to  *)
(* have, and that of the function it is in. A method is a function named   *)
(* receiver and method.                                                    *)
(*                                                                         *)
(* What is known of an expression: its type; whether it is accepted; the   *)
(* error its ? may propagate, or none; whether the checker knew every type *)
(* it met; and the literal it is, if the builtins look at it.              *)
(***************************************************************************)
EXTENDS CallTables, Syntax
LOCAL S == INSTANCE SequencesExt

(* merge_optional_error_type.                                              *)
MergeErrors(e, f) ==
  IF e = NoType THEN f ELSE IF f = NoType THEN e
  ELSE LET m == Merge(e, f) IN IF m = NoType THEN TUnknown ELSE m
Errors(parts) == S!FoldLeft(LAMBDA e, p : MergeErrors(e, p.err), NoType, parts)

All(parts) == \A i \in 1..Len(parts) : parts[i].ok
Sure(parts) == \A i \in 1..Len(parts) : parts[i].sure
Typed(t, ok, parts) ==
  [ty |-> t, ok |-> ok /\ All(parts), err |-> Errors(parts),
   sure |-> Settled(t) /\ Sure(parts), lit |-> "none"]
(* A literal whose type is open until it is put to use.                    *)
OpenLiteral(t, ok, parts) == [Typed(t, ok, parts) EXCEPT !.sure = Sure(parts)]

(* infer_list_element_type and infer_dict_value_type.                      *)
ElementType(parts) ==
  S!FoldLeft(LAMBDA t, p : IF t = NoType THEN t ELSE Merge(t, p.ty), TUnknown, parts)
Elements(kind, parts) ==
  LET t == ElementType(parts)
  IN OpenLiteral(IF t = NoType THEN <<kind, TUnknown>> ELSE <<kind, t>>, t # NoType, parts)
DictEntries(keys, values) ==
  LET d == Elements("Dict", values)
  IN OpenLiteral(d.ty, d.ok /\ \A i \in 1..Len(keys) : Is(keys[i], {"String"}),
                 keys \o values)

LocalType(scopes, name) ==
  IF Known(scopes, name) THEN Typed(Lookup(scopes, name).is, TRUE, <<>>)
  ELSE Typed(TUnknown, FALSE, <<>>)

----------------------------------------------------------------------------
(* Calls.                                                                  *)

Fits(types, parts) ==
  Len(types) = Len(parts) /\ \A i \in 1..Len(types) : Compatible(types[i], parts[i].ty)
FieldTypes(n) == [i \in 1..Len(Structs[n]) |-> Structs[n][i][2]]

(* resolve_call_kind, validate_call and call_return_type: a function of    *)
(* the program goes before a builtin, and that before a struct.            *)
CallType(m, f, parts) ==
  IF f \in DOMAIN m.funs THEN Typed(m.sigs[f], Fits(ParamTypes(m.funs[f]), parts), parts)
  ELSE IF f \in {"dict", "channel"}
       THEN OpenLiteral(BuiltinType(f, parts), Accepts(f, parts), parts)
  ELSE IF f \in Builtins \cup Bridge
       THEN Typed(BuiltinType(f, parts), Accepts(f, parts), parts)
  ELSE IF f \in DOMAIN Structs THEN Typed(StructNamed(f), Fits(FieldTypes(f), parts), parts)
  ELSE Typed(TUnknown, FALSE, parts)

(* resolve_method_call: the receiver is not one of the arguments.          *)
MethodType(m, target, name, parts) ==
  IF target.ty[1] \notin {"Struct", "Opaque"}
  THEN Typed(TUnknown, target.ty = TUnknown, <<target>> \o parts)
  ELSE LET symbol == target.ty[2] \o "." \o name
       IN IF symbol \notin DOMAIN m.funs THEN Typed(TUnknown, FALSE, <<target>> \o parts)
          ELSE Typed(m.sigs[symbol], Fits(Tail(ParamTypes(m.funs[symbol])), parts),
                     <<target>> \o parts)

(* resolve_result_variant_call and resolve_enum_variant_call.              *)
ResultVariant(variant, parts) ==
  IF variant \notin {"Ok", "Err"} \/ Len(parts) # 1 THEN Typed(TUnknown, FALSE, parts)
  ELSE OpenLiteral(IF variant = "Ok" THEN ResultOf(parts[1].ty, TUnknown)
                   ELSE ResultOf(TUnknown, parts[1].ty), TRUE, parts)
EnumVariant(enum, variant, parts) ==
  IF variant \notin DOMAIN Enums[enum] THEN Typed(TUnknown, FALSE, parts)
  ELSE Typed(EnumNamed(enum), Fits(Enums[enum][variant], parts), parts)

(* A name that no scope knows may be an enum's.                            *)
NamesEnum(scopes, e) ==
  e[1] = "Local" /\ ~Known(scopes, e[2]) /\ e[2] \in DOMAIN Enums \cup {"Result"}
Variant(enum, variant, parts) ==
  IF enum = "Result" THEN ResultVariant(variant, parts) ELSE EnumVariant(enum, variant, parts)

(* Only a function of the program can be started as a task.                *)
SpawnType(m, f, parts) ==
  LET call == CallType(m, f, parts)
  IN Typed(TaskOf(call.ty), call.ok /\ f \in DOMAIN m.funs, parts)

----------------------------------------------------------------------------
(* The other operations.                                                   *)

FieldType(target, name) ==
  IF target.ty[1] # "Struct" THEN Typed(TUnknown, target.ty = TUnknown, <<target>>)
  ELSE LET fields == Structs[target.ty[2]]
           at == {i \in 1..Len(fields) : fields[i][1] = name}
       IN IF at = {} THEN Typed(TUnknown, FALSE, <<target>>)
          ELSE Typed(fields[CHOOSE i \in at : TRUE][2], TRUE, <<target>>)

IndexType(target, index) ==
  LET fits == CASE target.ty[1] = "List" -> Is(index, {"Int"})
                [] target.ty[1] = "Dict" -> Is(index, {"String"})
                [] OTHER -> target.ty = TUnknown
  IN Typed(IF fits /\ target.ty # TUnknown THEN target.ty[2] ELSE TUnknown, fits,
           <<target, index>>)

AwaitType(v) ==
  Typed(IF v.ty[1] = "Task" THEN v.ty[2] ELSE TUnknown, Is(v, {"Task"}), <<v>>)

(* validate_propagate_expr, and the error the ? itself propagates.         *)
PropagateType(m, v) ==
  LET result == v.ty[1] = "Result"
      contract == CASE m.ret[1] = "Result" -> result => Compatible(m.ret[3], v.ty[3])
                    [] OTHER -> result => m.ret = TUnknown
      t == Typed(IF result THEN v.ty[2] ELSE TUnknown, Is(v, {"Result"}) /\ contract, <<v>>)
  IN [t EXCEPT !.err = MergeErrors(IF result THEN v.ty[3] ELSE TUnknown, v.err)]

(* validate_unary_expr and infer_unary_type.                               *)
UnaryType(op, v) ==
  LET kind == IF op = "not" THEN "Bool" ELSE "Int"
      t == Typed(IF Is(v, {kind}) THEN v.ty ELSE TUnknown, Is(v, {kind}), <<v>>)
  IN [t EXCEPT !.lit = IF op = "-" /\ v.lit = "positive" THEN "negative" ELSE "none"]

(* validate_binary_expr and infer_binary_type.                             *)
BinaryChecks(l, op, r) ==
  CASE op \in LogicalOps -> Is(l, {"Bool"}) /\ Is(r, {"Bool"})
    [] op \in ArithmeticOps ->
         \/ Is(l, {"Int"}) /\ Is(r, {"Int"})
         \/ op = "+" /\ Is(l, {"String"}) /\ Is(r, {"String"})
    [] op \in EqualityOps -> SupportsEquality(l.ty, r.ty)
    [] op \in OrderingOps -> SupportsOrdering(l.ty, r.ty)
BinaryType(l, op, r) ==
  Typed(CASE op \in LogicalOps -> IF l.ty = TBool /\ r.ty = TBool THEN TBool ELSE TUnknown
          [] op \in ArithmeticOps ->
               IF l.ty = r.ty /\ (l.ty = TInt \/ (l.ty = TString /\ op = "+")) THEN l.ty
               ELSE TUnknown
          [] OTHER -> IF BinaryChecks(l, op, r) THEN TBool ELSE TUnknown,
        BinaryChecks(l, op, r), <<l, r>>)

LiteralType(e) ==
  LET t == Typed(<<e[1]>>, TRUE, <<>>)
  IN [t EXCEPT !.lit = CASE e = <<"Int", 0>> -> "zero"
                         [] e = <<"String", "">> -> "empty"
                         [] e[1] = "Int" -> "positive"
                         [] OTHER -> "none"]

(* lower_expr.                                                             *)
RECURSIVE TypeOf(_, _, _)
TypesOf(m, scopes, es) == [i \in 1..Len(es) |-> TypeOf(m, scopes, es[i])]
TypeOf(m, scopes, e) ==
  CASE e[1] \in {"Int", "String", "Bool"} -> LiteralType(e)
    [] e[1] = "List" -> Elements("List", TypesOf(m, scopes, e[2]))
    [] e[1] = "Dict" ->
         DictEntries([i \in 1..Len(e[2]) |-> TypeOf(m, scopes, e[2][i][1])],
                     [i \in 1..Len(e[2]) |-> TypeOf(m, scopes, e[2][i][2])])
    [] e[1] = "Local" -> LocalType(scopes, e[2])
    [] e[1] = "Call" -> CallType(m, e[2], TypesOf(m, scopes, e[3]))
    [] e[1] = "Field" ->
         IF NamesEnum(scopes, e[2]) THEN Variant(e[2][2], e[3], <<>>)
         ELSE FieldType(TypeOf(m, scopes, e[2]), e[3])
    [] e[1] = "Method" ->
         IF NamesEnum(scopes, e[2]) THEN Variant(e[2][2], e[3], TypesOf(m, scopes, e[4]))
         ELSE MethodType(m, TypeOf(m, scopes, e[2]), e[3], TypesOf(m, scopes, e[4]))
    [] e[1] = "Index" -> IndexType(TypeOf(m, scopes, e[2]), TypeOf(m, scopes, e[3]))
    [] e[1] = "Go" -> SpawnType(m, e[2], TypesOf(m, scopes, e[3]))
    [] e[1] = "Await" -> AwaitType(TypeOf(m, scopes, e[2]))
    [] e[1] = "Propagate" -> PropagateType(m, TypeOf(m, scopes, e[2]))
    [] e[1] = "Unary" -> UnaryType(e[2], TypeOf(m, scopes, e[3]))
    [] e[1] = "Binary" ->
         BinaryType(TypeOf(m, scopes, e[2]), e[3], TypeOf(m, scopes, e[4]))

----------------------------------------------------------------------------
(* The statements, and the return type that is inferred. The walk carries  *)
(* the scopes, whether all was accepted, whether every type was known,     *)
(* whether every match knew the type it is about, and what is known of     *)
(* every return so far.                                                    *)

Walk(scopes) ==
  [scopes |-> scopes, ok |-> TRUE, sure |-> TRUE, seen |-> TRUE, returns |-> <<>>]
(* The walk has met an expression, and demands something of it.            *)
Met(w, v, demand) ==
  [w EXCEPT !.ok = @ /\ v.ok /\ demand, !.sure = @ /\ v.sure]
Local_(mutable, t) == Binding(mutable, t)

CheckReturn(m, w, e) ==
  LET v == TypeOf(m, w.scopes, e)
  IN [Met(w, v, TRUE) EXCEPT !.returns = Append(@, v)]

CheckBind(m, w, name, mutable, declared, e) ==
  LET v == TypeOf(m, w.scopes, e)
      type == IF declared = NoType THEN TUnknown ELSE declared
      fresh == ~InCurrent(w.scopes, name)
  IN [Met(w, v, fresh /\ Compatible(type, v.ty)) EXCEPT
        !.scopes = Define(@, name, Local_(mutable, Combine(type, v.ty)))]

(* Mutant of CheckAssign: a mutable name may be given any value.           *)
AssignAnything(m, w, name, e) ==
  LET v == TypeOf(m, w.scopes, e)
  IN IF ~Known(w.scopes, name)
     THEN [Met(w, v, TRUE) EXCEPT !.scopes = Define(@, name, Local_(FALSE, v.ty))]
     ELSE Met(w, v, Lookup(w.scopes, name).mutable)

(* An assignment to a name that is not known binds it, for good.           *)
CheckAssign(m, w, name, e) ==
  LET v == TypeOf(m, w.scopes, e)
  IN IF ~Known(w.scopes, name)
     THEN [Met(w, v, TRUE) EXCEPT !.scopes = Define(@, name, Local_(FALSE, v.ty))]
     ELSE LET known == Lookup(w.scopes, name)
          IN IF ~known.mutable THEN Met(w, v, FALSE)
             ELSE [Met(w, v, Compatible(known.is, v.ty)) EXCEPT
                     !.scopes = Update(@, name, Combine(known.is, v.ty))]

----------------------------------------------------------------------------
(* Blocks: depth is that of the loops around.                              *)

RECURSIVE CheckStatement(_, _, _, _)
CheckAll(m, w, body, depth) ==
  S!FoldLeft(LAMBDA x, s : CheckStatement(m, x, s, depth), w, body)
(* Mutant of Inside: what a block binds stays bound after it.              *)
Leaky(m, w, bindings, body, depth) ==
  CheckAll(m, [w EXCEPT !.scopes = Append(@, bindings)], body, depth)
Inside(m, w, bindings, body, depth) ==
  LET opened == [w EXCEPT !.scopes = Append(@, bindings)]
      walked == CheckAll(m, opened, body, depth)
  IN [walked EXCEPT !.scopes = Pop(@)]
Nested(m, w, body, depth) == Inside(m, w, <<>>, body, depth)
One(name, b) == [n \in {name} |-> b]

Condition(m, w, e) ==
  LET v == TypeOf(m, w.scopes, e) IN Met(w, v, Is(v, {"Bool"}))

(* resolve_for_binding_type.                                               *)
ForBinding(t) ==
  CASE t[1] = "List" -> t[2] [] t[1] \in {"String", "Dict"} -> TString [] OTHER -> TUnknown
CheckFor(m, w, name, e, body, depth) ==
  LET v == TypeOf(m, w.scopes, e)
  IN Inside(m, Met(w, v, Is(v, {"List", "String", "Dict"})),
            One(name, Local_(FALSE, ForBinding(v.ty))), body, depth + 1)

(* lower_match_pattern and ensure_match_exhaustive. Where the type of the  *)
(* value is not known the patterns are not looked at, and bind nothing.    *)
VariantFields(t, variant) ==
  IF t[1] = "Result" THEN <<IF variant = "Ok" THEN t[2] ELSE t[3]>>
  ELSE Enums[t[2]][variant]
VariantsOf(t) == IF t[1] = "Result" THEN {"Ok", "Err"} ELSE DOMAIN Enums[t[2]]
PatternChecks(t, arm) ==
  /\ arm.enum = IF t[1] = "Result" THEN "Result" ELSE t[2]
  /\ arm.variant \in VariantsOf(t)
  /\ Len(arm.names) = Len(VariantFields(t, arm.variant))
PatternBindings(t, arm) ==
  [n \in {arm.names[i] : i \in 1..Len(arm.names)} |->
     Local_(FALSE, VariantFields(t, arm.variant)[
                     CHOOSE i \in 1..Len(arm.names) : arm.names[i] = n])]
Distinct(s) == \A i, j \in 1..Len(s) : s[i] = s[j] => i = j
CheckMatch(m, w, e, arms, depth) ==
  LET v == TypeOf(m, w.scopes, e)
      known == v.ty[1] \in {"Enum", "Result"}
      good(arm) == known /\ PatternChecks(v.ty, arm)
      exhaustive ==
        /\ \A i \in 1..Len(arms) : good(arms[i]) /\ Distinct(arms[i].names)
        /\ Distinct([i \in 1..Len(arms) |-> arms[i].variant])
        /\ {arms[i].variant : i \in 1..Len(arms)} = VariantsOf(v.ty)
      step(x, arm) ==
        Inside(m, x, IF good(arm) THEN PatternBindings(v.ty, arm) ELSE <<>>, arm.body, depth)
      met == Met(w, v, v.ty = TUnknown \/ (known /\ exhaustive))
  IN S!FoldLeft(step, [met EXCEPT !.seen = @ /\ known], arms)

(* lower_select_arms and validate_select_operation.                        *)
IsDefault(arm) == arm.op = <<"Default">>
IsOperation(op) ==
  op[1] = "Call" /\ (\/ op[2] = "recv" /\ Len(op[3]) \in 1..2
                     \/ op[2] = "send" /\ Len(op[3]) \in 2..3)
CheckSelect(m, w, arms, depth) ==
  LET step(x, arm) ==
        IF IsDefault(arm) THEN Nested(m, x, arm.body, depth)
        ELSE LET v == TypeOf(m, x.scopes, arm.op)
             IN Inside(m, Met(x, v, IsOperation(arm.op)),
                       IF arm.name = "" THEN <<>> ELSE One(arm.name, Local_(FALSE, v.ty)),
                       arm.body, depth)
      oneDefault == \A i, j \in 1..Len(arms) : IsDefault(arms[i]) /\ IsDefault(arms[j]) => i = j
  IN S!FoldLeft(step, [w EXCEPT !.ok = @ /\ arms # <<>> /\ oneDefault], arms)

(* lower_stmt.                                                             *)
CheckStatement(m, w, s, depth) ==
  CASE s[1] = "Return" -> CheckReturn(m, w, s[2])
    [] s[1] = "Bind" -> CheckBind(m, w, s[2], s[3], s[4], s[5])
    [] s[1] = "Assign" -> CheckAssign(m, w, s[2], s[3])
    [] s[1] \in {"Break", "Continue"} -> [w EXCEPT !.ok = @ /\ depth > 0]
    [] s[1] = "If" ->
         Nested(m, Nested(m, Condition(m, w, s[2]), s[3], depth), s[4], depth)
    [] s[1] = "While" -> Nested(m, Condition(m, w, s[2]), s[3], depth + 1)
    [] s[1] = "For" -> CheckFor(m, w, s[2], s[3], s[4], depth)
    [] s[1] = "Match" -> CheckMatch(m, w, s[2], s[3], depth)
    [] s[1] = "Select" -> CheckSelect(m, w, s[2], depth)
    [] s[1] = "Expr" -> Met(w, TypeOf(m, w.scopes, s[2]), TRUE)

----------------------------------------------------------------------------
(* wrap_type_with_propagation: a return whose expression holds a ? counts  *)
(* as a Result, whatever the expression is.                                *)
Wrap(v) ==
  IF v.err = NoType THEN v.ty
  ELSE IF v.ty[1] = "Result"
       THEN LET e == Merge(v.ty[3], v.err) IN ResultOf(v.ty[2], IF e = NoType THEN v.err ELSE e)
  ELSE ResultOf(v.ty, v.err)

(* collect_return_types, merge_return_candidate and infer_return_type: the *)
(* types of all returns merged, and unit without one. Returns that do not  *)
(* go together are an error, and their type is unknown.                    *)
Merged(returns) ==
  S!FoldLeft(LAMBDA t, v : IF t = NoType THEN t ELSE Merge(t, Wrap(v)), Wrap(Head(returns)),
             Tail(returns))
Inferred(returns) ==
  IF returns = <<>> THEN [ty |-> TUnit, ok |-> TRUE]
  ELSE LET t == Merged(returns)
       IN [ty |-> IF t = NoType THEN TUnknown ELSE t, ok |-> t # NoType]

(* lower_function: a declared return type stays, and the body has to fit.  *)
Parameters(f) ==
  [n \in {f.params[i][1] : i \in 1..Len(f.params)} |->
     Local_(FALSE, f.params[CHOOSE i \in 1..Len(f.params) : f.params[i][1] = n][2])]
CheckFunction(funs, sigs, name) ==
  LET f == funs[name]
      m == [funs |-> funs, sigs |-> sigs, ret |-> sigs[name]]
      w == CheckAll(m, Walk(NewScopes(Parameters(f))), f.body, 0)
      inferred == Inferred(w.returns)
      declared == f.ret # NoType
  IN [ty |-> IF declared THEN f.ret ELSE inferred.ty,
      ok |-> w.ok /\ inferred.ok /\ (declared => Compatible(f.ret, inferred.ty)),
      sure |-> w.sure, seen |-> w.seen, returns |-> w.returns]
=============================================================================
