--------------------------- MODULE CallEvaluator ---------------------------
(***************************************************************************)
(* What the evaluator (interpreter.rs) does with the values of a builtin   *)
(* call: the set of ways the call can end. It may return a value, refuse a *)
(* value of the wrong kind, stop the program with a runtime diagnostic, or *)
(* panic on an integer that does not fit. Text is one of a few strings,    *)
(* and what the host answers is every answer it can give.                  *)
(***************************************************************************)
EXTENDS Types, FiniteSets

CONSTANTS
  Texts,    \* the strings
  MaxInt    \* integers are of two's complement, up to this one
ASSUME WidthAssumption == MaxInt \in Nat

Returns(v) == <<"value", v>>
Wrong == <<"wrong">>
Stops == <<"stops">>
Panics == <<"panics">>
Endless == <<"endless">>
Misnamed == <<"misnamed">>

WrongKind == {Wrong}
RuntimeStop == {Stops}
Return(v) == {Returns(v)}
AnyText == {Returns(StringValue(s)) : s \in Texts}
AnyBool == {Returns(BoolValue(b)) : b \in BOOLEAN}
Failure == {Returns(FailedValue)}
(* The host, or a decoder, answers with any of these values or an error.   *)
OkOf(outcomes) == {Returns(OkValue(o[2])) : o \in outcomes}
Either(outcomes) == OkOf(outcomes) \cup Failure
Lines == {Returns(ListValue(s)) : s \in {<<>>} \cup {<<StringValue(t)>> : t \in Texts}}
AnyJson == {Returns(JsonValue(j)) : j \in {"null", "object"}}

(* The number, or what becomes of one that does not fit: a panic where     *)
(* overflow is checked, the wrapped number where it is not.                *)
Ints == (-MaxInt - 1)..MaxInt
Wrapped(n) == ((n + MaxInt + 1) % (2 * MaxInt + 2)) - MaxInt - 1
Number(n) == IF n \in Ints THEN Return(IntValue(n))
             ELSE {Panics, Returns(IntValue(Wrapped(n)))}

(* The arguments are as many and of these kinds.                           *)
Given(args, kinds) ==
  Len(args) = Len(kinds) /\ \A i \in 1..Len(args) : args[i][1] = kinds[i]
Strings(v) == v[1] = "list" /\ \A i \in 1..Len(v[2]) : v[2][i][1] = "string"
When(good, outcomes) == IF good THEN outcomes ELSE WrongKind

----------------------------------------------------------------------------
(* Collections and text.                                                   *)

Len_(args) ==
  IF Len(args) # 1 THEN WrongKind
  ELSE CASE args[1][1] = "list" -> Return(IntValue(Len(args[1][2])))
         [] args[1][1] = "dict" -> Return(IntValue(Cardinality(DOMAIN args[1][2])))
         [] args[1][1] = "string" ->
              Return(IntValue(IF args[1][2] = "" THEN 0 ELSE 1))
         [] OTHER -> WrongKind

PrintLine(args) == When(Len(args) = 1 /\ HasText(args[1]), Return(UnitValue))

Append_(args) ==
  When(Len(args) = 2 /\ args[1][1] = "list",
       Return(ListValue(Append(args[1][2], args[2]))))

Contains_(args) ==
  IF Len(args) # 2 THEN WrongKind
  ELSE CASE args[1][1] = "string" -> When(args[2][1] = "string", AnyBool)
         [] args[1][1] = "list" ->
              Return(BoolValue(\E i \in 1..Len(args[1][2]) : args[1][2][i] = args[2]))
         [] args[1][1] = "dict" ->
              When(args[2][1] = "string", Return(BoolValue(args[2][2] \in DOMAIN args[1][2])))
         [] OTHER -> WrongKind

First(args) ==
  When(Given(args, <<"list">>),
       IF args[1][2] = <<>> THEN Failure ELSE OkOf(Return(args[1][2][1])))
Last(args) ==
  When(Given(args, <<"list">>),
       IF args[1][2] = <<>> THEN Failure
       ELSE OkOf(Return(args[1][2][Len(args[1][2])])))

Slice(args) ==
  When(Given(args, <<"list", "int", "int">>),
       LET items == args[1][2]
           from == args[2][2]
           to == args[3][2]
       IN IF 0 <= from /\ from <= to /\ to <= Len(items)
          THEN OkOf(Return(ListValue(SubSeq(items, from + 1, to))))
          ELSE Failure)

Reverse_(args) ==
  When(Given(args, <<"list">>),
       LET s == args[1][2] IN Return(ListValue([i \in 1..Len(s) |-> s[Len(s) + 1 - i]])))

(* eval_orderable_list_builtin: all integers or all strings.               *)
Orderable(args) ==
  /\ Given(args, <<"list">>)
  /\ \E k \in {"int", "string"} : \A i \in 1..Len(args[1][2]) : args[1][2][i][1] = k
Rank(v) == IF v[1] = "int" THEN v[2] ELSE IF v[2] = "" THEN 0 ELSE 1
Sorted(s) == CHOOSE t \in [1..Len(s) -> {s[i] : i \in 1..Len(s)}] :
  /\ \A i \in 2..Len(s) : Rank(t[i - 1]) <= Rank(t[i])
  /\ \A v \in {s[i] : i \in 1..Len(s)} :
       Cardinality({i \in 1..Len(s) : t[i] = v}) = Cardinality({i \in 1..Len(s) : s[i] = v})
Sort(args) == When(Orderable(args), Return(ListValue(Sorted(args[1][2]))))
Smallest(args) ==
  When(Orderable(args), IF args[1][2] = <<>> THEN Failure
                        ELSE OkOf(Return(Sorted(args[1][2])[1])))
Largest(args) ==
  When(Orderable(args), IF args[1][2] = <<>> THEN Failure
                        ELSE OkOf(Return(Sorted(args[1][2])[Len(args[1][2])])))

Trim(args) == When(Given(args, <<"string">>), AnyText)
Split(args) ==
  When(Given(args, <<"string", "string">>),
       IF args[2][2] = "" THEN RuntimeStop ELSE Lines)
Join(args) ==
  When(Len(args) = 2 /\ Strings(args[1]) /\ args[2][1] = "string", AnyText)
StringPair(args) == When(Given(args, <<"string", "string">>), AnyBool)
StartsWith(args) == StringPair(args)
EndsWith(args) == StringPair(args)
ParseInt(args) == When(Given(args, <<"string">>), Either(Return(IntValue(0))))
ToString(args) == When(Len(args) = 1 /\ HasText(args[1]), AnyText)

(* eval_range_builtin: the step is added before it is known to fit. A loop *)
(* that has come back to a number it had never ends.                       *)
RECURSIVE Progression(_, _, _, _)
Progression(items, current, stop, step) ==
  IF IF step > 0 THEN current >= stop ELSE current <= stop
  THEN Return(ListValue(items))
  ELSE IF \E i \in 1..Len(items) : items[i] = IntValue(current) THEN {Endless}
  ELSE LET more == Append(items, IntValue(current))
       IN IF current + step \in Ints THEN Progression(more, current + step, stop, step)
          ELSE {Panics} \cup Progression(more, Wrapped(current + step), stop, step)
(* Mutant of Range_: a single argument counts from one.                    *)
RangeFromOne(args) ==
  IF Len(args) \notin 1..3 \/ \E i \in 1..Len(args) : args[i][1] # "int" THEN WrongKind
  ELSE LET n(i) == args[i][2]
       IN IF Len(args) = 1 THEN Progression(<<>>, 1, n(1), 1)
          ELSE IF Len(args) = 2 THEN Progression(<<>>, n(1), n(2), 1)
          ELSE IF n(3) = 0 THEN RuntimeStop ELSE Progression(<<>>, n(1), n(2), n(3))
Range_(args) ==
  IF Len(args) \notin 1..3 \/ \E i \in 1..Len(args) : args[i][1] # "int" THEN WrongKind
  ELSE LET n(i) == args[i][2]
       IN IF Len(args) = 1 THEN Progression(<<>>, 0, n(1), 1)
          ELSE IF Len(args) = 2 THEN Progression(<<>>, n(1), n(2), 1)
          ELSE IF n(3) = 0 THEN RuntimeStop ELSE Progression(<<>>, n(1), n(2), n(3))

Assert_(args) ==
  When(/\ Len(args) \in 1..2 /\ args[1][1] = "bool"
       /\ Len(args) = 2 => args[2][1] = "string",
       IF args[1][2] THEN Return(UnitValue) ELSE RuntimeStop)

Dict(args) == When(args = <<>>, Return(DictValue(<<>>)))
Insert(args) ==
  When(Len(args) = 3 /\ args[1][1] = "dict" /\ args[2][1] = "string",
       LET d == args[1][2]
       IN Return(DictValue([k \in DOMAIN d \cup {args[2][2]} |->
                              IF k = args[2][2] THEN args[3] ELSE d[k]])))
(* keys and values go through the dictionary in the order of its keys.     *)
Ordered(d) == IF DOMAIN d = {} THEN <<>>
              ELSE IF "" \in DOMAIN d /\ Cardinality(DOMAIN d) > 1
              THEN <<"", CHOOSE k \in DOMAIN d : k # "">>
              ELSE <<CHOOSE k \in DOMAIN d : TRUE>>
Keys(args) ==
  When(Given(args, <<"dict">>),
       LET s == Ordered(args[1][2])
       IN Return(ListValue([i \in 1..Len(s) |-> StringValue(s[i])])))
Values_(args) ==
  When(Given(args, <<"dict">>),
       LET s == Ordered(args[1][2])
       IN Return(ListValue([i \in 1..Len(s) |-> args[1][2][s[i]]])))
=============================================================================
