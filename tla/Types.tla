------------------------------- MODULE Types -------------------------------
(***************************************************************************)
(* The types of gof's checker (typed_hir.rs) and the values of its         *)
(* evaluator (interpreter.rs), with the relations both are built on. A     *)
(* type or a value is a tuple that starts with its kind.                   *)
(***************************************************************************)
EXTENDS Integers, Sequences

CONSTANTS
  Structs,   \* for each struct, its fields in order: <<name, type>>
  Enums      \* for each enum, for each variant, the types of its fields

TUnknown == <<"Unknown">>
TInt == <<"Int">>
TString == <<"String">>
TBool == <<"Bool">>
TUnit == <<"Unit">>
TJson == <<"Json">>
TToken == <<"CancelToken">>
ListOf(t) == <<"List", t>>
DictOf(t) == <<"Dict", t>>
ChannelOf(t) == <<"Channel", t>>
TaskOf(t) == <<"Task", t>>
ResultOf(ok, err) == <<"Result", ok, err>>
StructNamed(n) == <<"Struct", n>>
EnumNamed(n) == <<"Enum", n>>
OpaqueNamed(n) == <<"Opaque", n>>
RuntimeError == EnumNamed("RuntimeError")
RuntimeResult(t) == ResultOf(t, RuntimeError)

Containers == {"List", "Dict", "Channel", "Task", "Result"}
NoType == <<"None">>

(* types_compatible.                                                       *)
RECURSIVE Compatible(_, _)
Compatible(expected, actual) ==
  \/ TUnknown \in {expected, actual}
  \/ expected = actual
  \/ /\ expected[1] = actual[1] /\ expected[1] \in Containers
     /\ \A i \in 2..Len(expected) : Compatible(expected[i], actual[i])

(* merge_return_types: the more precise of two types, or none.             *)
RECURSIVE Merge(_, _)
Merge(t, u) ==
  IF t = u \/ u = TUnknown THEN t
  ELSE IF t = TUnknown THEN u
  ELSE IF t[1] = u[1] /\ t[1] \in Containers
       THEN LET parts == [i \in 2..Len(t) |-> Merge(t[i], u[i])]
            IN IF \E i \in 2..Len(t) : parts[i] = NoType THEN NoType
               ELSE IF t[1] = "Result" THEN ResultOf(parts[2], parts[3])
               ELSE <<t[1], parts[2]>>
  ELSE NoType

(* combine_declared_and_actual_type.                                       *)
Combine(declared, actual) ==
  LET m == Merge(declared, actual) IN IF m = NoType THEN declared ELSE m

(* is_printable_type: a list or dict is judged by the kind of its items    *)
(* alone.                                                                  *)
RECURSIVE IsPrintable(_)
IsPrintable(t) ==
  CASE t[1] \in {"Int", "String", "Bool", "Json", "Struct", "Enum", "Unknown"} -> TRUE
    [] t[1] \in {"List", "Dict"} ->
         t[2][1] \notin {"Task", "Unit", "Channel", "CancelToken", "Opaque"}
    [] t[1] = "Result" -> IsPrintable(t[2]) /\ IsPrintable(t[3])
    [] OTHER -> FALSE

(* type_supports_self_equality: a type inside itself is taken for granted. *)
RECURSIVE SelfEquality(_, _)
SelfEquality(t, active) ==
  CASE t[1] \in {"Unknown", "Int", "String", "Bool", "Json", "Unit"} -> TRUE
    [] t[1] \in {"List", "Dict", "Result"} ->
         \A i \in 2..Len(t) : SelfEquality(t[i], active)
    [] t[1] = "Opaque" -> t[2] \in {"Bytes", "SocketAddr", "NetDeadline"}
    [] t[1] = "Struct" ->
         \/ t \in active
         \/ \A i \in 1..Len(Structs[t[2]]) :
              SelfEquality(Structs[t[2]][i][2], active \cup {t})
    [] t[1] = "Enum" ->
         \/ t \in active
         \/ \A v \in DOMAIN Enums[t[2]] : \A i \in 1..Len(Enums[t[2]][v]) :
              SelfEquality(Enums[t[2]][v][i], active \cup {t})
    [] OTHER -> FALSE

SupportsEquality(t, u) ==
  \/ TUnknown \in {t, u}
  \/ Compatible(t, u) /\ SelfEquality(t, {}) /\ SelfEquality(u, {})

SupportsOrdering(t, u) ==
  TUnknown \in {t, u} \/ (t = u /\ t \in {TInt, TString})

(* A type the checker has settled everywhere.                              *)
RECURSIVE Settled(_)
Settled(t) == /\ t # TUnknown
              /\ t[1] \in Containers => \A i \in 2..Len(t) : Settled(t[i])

----------------------------------------------------------------------------
(* Values.                                                                 *)

IntValue(n) == <<"int", n>>
StringValue(s) == <<"string", s>>
BoolValue(b) == <<"bool", b>>
JsonValue(shape) == <<"json", shape>>
OpaqueValue(n) == <<"opaque", n>>
ListValue(s) == <<"list", s>>
DictValue(f) == <<"dict", f>>
EnumValue(n, variant, fields) == <<"enum", n, variant, fields>>
UnitValue == <<"unit">>
TokenValue == <<"token">>
OkValue(v) == EnumValue("Result", "Ok", <<v>>)
ErrValue(v) == EnumValue("Result", "Err", <<v>>)
RuntimeFailure == EnumValue("RuntimeError", "Io", <<StringValue("a")>>)
FailedValue == ErrValue(RuntimeFailure)

(* The value is one the type promises.                                     *)
RECURSIVE Inhabits(_, _)
Inhabits(v, t) ==
  CASE t = TUnknown -> TRUE
    [] t = TInt -> v[1] = "int"
    [] t = TString -> v[1] = "string"
    [] t = TBool -> v[1] = "bool"
    [] t = TUnit -> v[1] = "unit"
    [] t = TJson -> v[1] = "json"
    [] t = TToken -> v[1] = "token"
    [] t[1] = "Opaque" -> v[1] = "opaque" /\ v[2] = t[2]
    [] t[1] = "List" -> v[1] = "list" /\ \A i \in DOMAIN v[2] : Inhabits(v[2][i], t[2])
    [] t[1] = "Dict" -> v[1] = "dict" /\ \A k \in DOMAIN v[2] : Inhabits(v[2][k], t[2])
    [] t[1] = "Channel" -> v[1] = "channel" /\ \A i \in DOMAIN v[2] : Inhabits(v[2][i], t[2])
    [] t[1] = "Task" -> v[1] = "task" /\ (v[2] # "failed" => Inhabits(v[3], t[2]))
    [] t[1] = "Result" ->
         /\ v[1] = "enum" /\ v[2] = "Result"
         /\ Inhabits(v[4][1], IF v[3] = "Ok" THEN t[2] ELSE t[3])
    [] t[1] = "Struct" ->
         /\ v[1] = "struct" /\ v[2] = t[2]
         /\ \A i \in DOMAIN v[3] : Inhabits(v[3][i], Structs[t[2]][i][2])
    [] t[1] = "Enum" ->
         /\ v[1] = "enum" /\ v[2] = t[2]
         /\ \A i \in DOMAIN v[4] : Inhabits(v[4][i], Enums[t[2]][v[3]][i])

(* Value::printable_text: only these kinds have no text.                   *)
HasText(v) == v[1] \notin {"opaque", "channel", "token", "task", "unit"}
=============================================================================
