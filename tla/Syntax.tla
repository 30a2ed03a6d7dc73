------------------------------- MODULE Syntax -------------------------------
(***************************************************************************)
(* The statements and expressions of gof as the parser leaves them         *)
(* (ast.rs), and the stack of scopes the checker and the evaluator each    *)
(* keep while they walk them. A node is a tuple that starts with its kind. *)
(***************************************************************************)
EXTENDS Sequences, Naturals

Whole_(n) == <<"Int", n>>
Text_(s) == <<"String", s>>
Truth(b) == <<"Bool", b>>
List_(items) == <<"List", items>>
Entries(pairs) == <<"Dict", pairs>>
Local(name) == <<"Local", name>>
Call(f, args) == <<"Call", f, args>>
Field(target, name) == <<"Field", target, name>>
Method(target, name, args) == <<"Method", target, name, args>>
Index(target, i) == <<"Index", target, i>>
Go(f, args) == <<"Go", f, args>>
Await(e) == <<"Await", e>>
Try(e) == <<"Propagate", e>>
Unary(op, e) == <<"Unary", op, e>>
Binary(l, op, r) == <<"Binary", l, op, r>>

(* A binding has no type where it is not annotated: <<"None">>.            *)
Return_s(e) == <<"Return", e>>
Let_s(name, mutable, type, e) == <<"Bind", name, mutable, type, e>>
Assign(name, e) == <<"Assign", name, e>>
If(c, yes, no) == <<"If", c, yes, no>>
While(c, body) == <<"While", c, body>>
For(name, e, body) == <<"For", name, e, body>>
Match(e, arms) == <<"Match", e, arms>>
Arm(enum, variant, names, body) ==
  [enum |-> enum, variant |-> variant, names |-> names, body |-> body]
Select(arms) == <<"Select", arms>>
(* The operation is a call, or <<"Default">>; the name may be "".          *)
Case(name, op, body) == [name |-> name, op |-> op, body |-> body]
Do(e) == <<"Expr", e>>
Break == <<"Break">>
Continue == <<"Continue">>

(* A function: its parameters (a name and a type each), the type it is     *)
(* declared to return, and its body.                                       *)
ParamTypes(f) == [i \in 1..Len(f.params) |-> f.params[i][2]]

EqualityOps == {"==", "!="}
OrderingOps == {"<", "<=", ">", ">="}
ArithmeticOps == {"+", "-", "*", "/", "%"}
LogicalOps == {"and", "or"}

----------------------------------------------------------------------------
(* ScopeStack: the innermost scope is the last. A binding is what is known *)
(* of it (a type, or a value) and whether it may be assigned to.           *)

Binding(mutable, is) == [mutable |-> mutable, is |-> is]
NewScopes(bindings) == <<bindings>>
Push(scopes) == Append(scopes, <<>>)
Pop(scopes) == SubSeq(scopes, 1, Len(scopes) - 1)
Depths(scopes, name) == {i \in 1..Len(scopes) : name \in DOMAIN scopes[i]}
Known(scopes, name) == Depths(scopes, name) # {}
DepthOf(scopes, name) ==
  CHOOSE i \in Depths(scopes, name) : \A j \in Depths(scopes, name) : j <= i
Lookup(scopes, name) == scopes[DepthOf(scopes, name)][name]
InCurrent(scopes, name) == name \in DOMAIN scopes[Len(scopes)]
PutAt(scopes, depth, name, b) ==
  [scopes EXCEPT ![depth] =
     [n \in DOMAIN scopes[depth] \cup {name} |-> IF n = name THEN b ELSE scopes[depth][n]]]
Define(scopes, name, b) == PutAt(scopes, Len(scopes), name, b)
(* get_mut: the innermost binding of the name gets what it is now.         *)
Update(scopes, name, is) ==
  PutAt(scopes, DepthOf(scopes, name), name, [Lookup(scopes, name) EXCEPT !.is = is])
=============================================================================
