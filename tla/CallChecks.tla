----------------------------- MODULE CallChecks -----------------------------
(***************************************************************************)
(* What the checker (typed_hir.rs) accepts as the arguments of a builtin   *)
(* or bridge call, and the type it gives the call. An argument is its type *)
(* and, where the checker looks at a literal, the literal: a negative or a *)
(* zero integer, the empty string. An argument of unknown type always fits.*)
(***************************************************************************)
EXTENDS Types

Arg(t) == [ty |-> t, lit |-> "none"]
Literal(t, l) == [ty |-> t, lit |-> l]

Is(a, kinds) == a.ty[1] \in kinds \cup {"Unknown"}
IsOpaque(a, n) == a.ty \in {TUnknown, OpaqueNamed(n)}

(* Exactly these kinds, in order.                                          *)
Takes(args, kinds) ==
  Len(args) = Len(kinds) /\ \A i \in 1..Len(kinds) : Is(args[i], {kinds[i]})

(* The container of this kind holds items that the other argument fits, as *)
(* far as the checker knows.                                               *)
Holds(container, kind, a) ==
  Is(container, {kind})
    /\ (container.ty[1] = kind => Compatible(container.ty[2], a.ty))

ListOfStrings(a) ==
  Is(a, {"List"}) /\ (a.ty[1] = "List" => a.ty[2] \in {TString, TUnknown})

(* validate_non_negative_duration_argument.                                *)
NonNegative(a) == a.lit # "negative"

(* An optional last argument that has to be a token.                       *)
TokenAt(args, n) == Len(args) = n => Is(args[n], {"CancelToken"})

----------------------------------------------------------------------------
(* One definition for each validate_ function.                             *)

LenChecks(args) == Len(args) = 1 /\ Is(args[1], {"List", "Dict", "String"})
PrintChecks(args) == Len(args) = 1 /\ IsPrintable(args[1].ty)
AppendChecks(args) == Len(args) = 2 /\ Holds(args[1], "List", args[2])
ContainsChecks(args) ==
  /\ Len(args) = 2 /\ Is(args[1], {"String", "List", "Dict"})
  /\ args[1].ty[1] = "List" => Holds(args[1], "List", args[2])
  /\ args[1].ty[1] \in {"String", "Dict"} => Is(args[2], {"String"})
FirstOrLastChecks(args) == Takes(args, <<"List">>)
SliceChecks(args) == Takes(args, <<"List", "Int", "Int">>)
ReverseChecks(args) == Takes(args, <<"List">>)
OrderableChecks(args) ==
  /\ Takes(args, <<"List">>)
  /\ args[1].ty[1] = "List" => args[1].ty[2] \in {TInt, TString, TUnknown}
SortChecks(args) == OrderableChecks(args)
MinOrMaxChecks(args) == OrderableChecks(args)
TrimChecks(args) == Takes(args, <<"String">>)
SplitChecks(args) == Takes(args, <<"String", "String">>) /\ args[2].lit # "empty"
(* Mutant of JoinChecks: the items of the list are not looked at.          *)
JoinAnyList(args) == Takes(args, <<"List", "String">>)
JoinChecks(args) ==
  Len(args) = 2 /\ ListOfStrings(args[1]) /\ Is(args[2], {"String"})
StringPairChecks(args) == Takes(args, <<"String", "String">>)
StartsWithChecks(args) == StringPairChecks(args)
EndsWithChecks(args) == StringPairChecks(args)
ParseIntChecks(args) == Takes(args, <<"String">>)
ToStringChecks(args) == Len(args) = 1 /\ IsPrintable(args[1].ty)
RangeChecks(args) ==
  /\ Len(args) \in 1..3 /\ \A i \in 1..Len(args) : Is(args[i], {"Int"})
  /\ Len(args) = 3 => args[3].lit # "zero"
AssertChecks(args) ==
  /\ Len(args) \in 1..2 /\ Is(args[1], {"Bool"})
  /\ Len(args) = 2 => Is(args[2], {"String"})
NoArgumentChecks(args) == args = <<>>
OneStringChecks(args) == Takes(args, <<"String">>)
TwoStringsChecks(args) == Takes(args, <<"String", "String">>)
OneIntChecks(args) == Takes(args, <<"Int">>)
EnvChecks(args) == OneStringChecks(args)
DurationChecks(args) == OneIntChecks(args) /\ NonNegative(args[1])
SleepChecks(args) == DurationChecks(args)
TimeoutTokenChecks(args) == DurationChecks(args)
CloseChecks(args) == Takes(args, <<"Channel">>)
CancelChecks(args) == Takes(args, <<"CancelToken">>)
IsCancelledChecks(args) == Takes(args, <<"CancelToken">>)
CancelAfterChecks(args) ==
  Takes(args, <<"CancelToken", "Int">>) /\ NonNegative(args[2])
AwaitResultChecks(args) ==
  Len(args) \in 1..2 /\ Is(args[1], {"Task"}) /\ TokenAt(args, 2)
JsonStringifyChecks(args) == Takes(args, <<"Json">>)
JsonGetChecks(args) == Takes(args, <<"Json", "String">>)
JsonIndexChecks(args) == Takes(args, <<"Json", "Int">>)
JsonLenChecks(args) == Takes(args, <<"Json">>)
JsonStringChecks(args) == Takes(args, <<"Json">>)
JsonIntChecks(args) == Takes(args, <<"Json">>)
TomlParseChecks(args) == Takes(args, <<"String">>)
YamlParseChecks(args) == Takes(args, <<"String">>)
Base64EncodeChecks(args) == Takes(args, <<"String">>)
Base64DecodeChecks(args) == Takes(args, <<"String">>)
CsvParseChecks(args) == Takes(args, <<"String">>)
CsvStringifyChecks(args) ==
  /\ Len(args) = 1
  /\ args[1].ty \in {TUnknown} \cup {ListOf(ListOf(t)) : t \in {TString, TUnknown}}
TemplateRenderChecks(args) ==
  Len(args) = 2 /\ Is(args[1], {"String"}) /\ Is(args[2], {"Dict", "Json"})
HttpPostChecks(args) ==
  Len(args) \in 2..3 /\ \A i \in 1..Len(args) : Is(args[i], {"String"})
HttpRequestChecks(args) ==
  /\ Len(args) \in 2..5
  /\ \A i \in 1..Len(args) : i <= 3 => Is(args[i], {"String"})
  /\ Len(args) >= 4 =>
       args[4].ty \in {TUnknown, DictOf(TString), DictOf(TUnknown)}
  /\ Len(args) = 5 => Is(args[5], {"Int"}) /\ NonNegative(args[5])
ReadFileChecks(args) == Takes(args, <<"String">>)
RunProcessChecks(args) ==
  Len(args) = 2 /\ Is(args[1], {"String"}) /\ ListOfStrings(args[2])
WriteFileChecks(args) == Takes(args, <<"String", "String">>)
ReadLinesChecks(args) == Takes(args, <<"String">>)
WriteLinesChecks(args) ==
  Len(args) = 2 /\ Is(args[1], {"String"}) /\ ListOfStrings(args[2])
DictChecks(args) == args = <<>>
InsertChecks(args) ==
  Len(args) = 3 /\ Holds(args[1], "Dict", args[3]) /\ Is(args[2], {"String"})
KeysChecks(args) == Takes(args, <<"Dict">>)
ValuesChecks(args) == Takes(args, <<"Dict">>)
ChannelChecks(args) ==
  args = <<>> \/ (OneIntChecks(args) /\ args[1].lit # "negative")
SendChecks(args) ==
  Len(args) \in 2..3 /\ Holds(args[1], "Channel", args[2]) /\ TokenAt(args, 3)
RecvChecks(args) ==
  Len(args) \in 1..2 /\ Is(args[1], {"Channel"}) /\ TokenAt(args, 2)
=============================================================================
