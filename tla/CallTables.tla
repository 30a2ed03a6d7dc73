----------------------------- MODULE CallTables -----------------------------
(***************************************************************************)
(* The two tables of the builtins: the checker's (which validation a name  *)
(* stands for, and the type of the call) and the evaluator's (which        *)
(* function runs it). They are written twice in the code, and nothing but  *)
(* their agreement keeps an accepted program from being refused by the     *)
(* evaluator halfway.                                                      *)
(***************************************************************************)
EXTENDS BridgeChecks, BridgeCalls

CollectionNames == {"len", "print", "append", "contains", "first", "last", "slice",
  "reverse", "sort", "min", "max"}
TextNames == {"trim", "split", "join", "starts_with", "ends_with", "parse_int",
  "to_string", "range", "assert", "sleep"}
HostNames == {"argv", "read_stdin", "read_stdin_lines", "unix_seconds", "unix_millis",
  "env", "cwd", "run_process", "exists", "read_dir", "mkdir", "remove_file",
  "path_join", "path_dir", "path_base", "path_ext", "read_file", "write_file",
  "read_lines", "write_lines"}
SharedNames == {"dict", "insert", "keys", "values", "channel", "close", "send", "recv",
  "cancel_token", "cancel", "is_cancelled", "timeout_token", "cancel_after",
  "await_result"}
FormatNames == {"json_parse", "toml_parse", "yaml_parse", "base64_encode",
  "base64_decode", "json_stringify", "json_get", "json_index", "json_len",
  "json_string", "json_int", "csv_parse", "csv_stringify", "template_render",
  "http_request", "http_get", "http_post"}
Builtins == CollectionNames \cup TextNames \cup HostNames \cup SharedNames \cup FormatNames

----------------------------------------------------------------------------
(* validate_call.                                                          *)

CollectionChecks(f, args) ==
  CASE f = "len" -> LenChecks(args)
    [] f = "print" -> PrintChecks(args)
    [] f = "append" -> AppendChecks(args)
    [] f = "contains" -> ContainsChecks(args)
    [] f \in {"first", "last"} -> FirstOrLastChecks(args)
    [] f = "slice" -> SliceChecks(args)
    [] f = "reverse" -> ReverseChecks(args)
    [] f = "sort" -> SortChecks(args)
    [] f \in {"min", "max"} -> MinOrMaxChecks(args)

TextChecks(f, args) ==
  CASE f = "trim" -> TrimChecks(args)
    [] f = "split" -> SplitChecks(args)
    [] f = "join" -> JoinChecks(args)
    [] f = "starts_with" -> StartsWithChecks(args)
    [] f = "ends_with" -> EndsWithChecks(args)
    [] f = "parse_int" -> ParseIntChecks(args)
    [] f = "to_string" -> ToStringChecks(args)
    [] f = "range" -> RangeChecks(args)
    [] f = "assert" -> AssertChecks(args)
    [] f = "sleep" -> SleepChecks(args)

HostChecks(f, args) ==
  CASE f \in {"argv", "read_stdin", "read_stdin_lines", "unix_seconds",
              "unix_millis", "cwd"} -> NoArgumentChecks(args)
    [] f = "env" -> EnvChecks(args)
    [] f = "run_process" -> RunProcessChecks(args)
    [] f \in {"exists", "read_dir", "mkdir", "remove_file", "path_dir",
              "path_base", "path_ext"} -> OneStringChecks(args)
    [] f = "path_join" -> TwoStringsChecks(args)
    [] f = "read_file" -> ReadFileChecks(args)
    [] f = "write_file" -> WriteFileChecks(args)
    [] f = "read_lines" -> ReadLinesChecks(args)
    [] f = "write_lines" -> WriteLinesChecks(args)

SharedChecks(f, args) ==
  CASE f = "dict" -> DictChecks(args)
    [] f = "insert" -> InsertChecks(args)
    [] f = "keys" -> KeysChecks(args)
    [] f = "values" -> ValuesChecks(args)
    [] f = "channel" -> ChannelChecks(args)
    [] f = "close" -> CloseChecks(args)
    [] f = "send" -> SendChecks(args)
    [] f = "recv" -> RecvChecks(args)
    [] f = "await_result" -> AwaitResultChecks(args)
    [] f = "cancel_token" -> NoArgumentChecks(args)
    [] f = "cancel" -> CancelChecks(args)
    [] f = "is_cancelled" -> IsCancelledChecks(args)
    [] f = "timeout_token" -> TimeoutTokenChecks(args)
    [] f = "cancel_after" -> CancelAfterChecks(args)

FormatChecks(f, args) ==
  CASE f \in {"json_parse", "http_get"} -> OneStringChecks(args)
    [] f = "json_stringify" -> JsonStringifyChecks(args)
    [] f = "json_get" -> JsonGetChecks(args)
    [] f = "json_index" -> JsonIndexChecks(args)
    [] f = "json_len" -> JsonLenChecks(args)
    [] f = "json_string" -> JsonStringChecks(args)
    [] f = "json_int" -> JsonIntChecks(args)
    [] f = "toml_parse" -> TomlParseChecks(args)
    [] f = "yaml_parse" -> YamlParseChecks(args)
    [] f = "base64_encode" -> Base64EncodeChecks(args)
    [] f = "base64_decode" -> Base64DecodeChecks(args)
    [] f = "csv_parse" -> CsvParseChecks(args)
    [] f = "csv_stringify" -> CsvStringifyChecks(args)
    [] f = "template_render" -> TemplateRenderChecks(args)
    [] f = "http_request" -> HttpRequestChecks(args)
    [] f = "http_post" -> HttpPostChecks(args)

Accepts(f, args) ==
  CASE f \in CollectionNames -> CollectionChecks(f, args)
    [] f \in TextNames -> TextChecks(f, args)
    [] f \in HostNames -> HostChecks(f, args)
    [] f \in SharedNames -> SharedChecks(f, args)
    [] f \in FormatNames -> FormatChecks(f, args)
    [] OTHER -> BridgeAccepts(f, args)

----------------------------------------------------------------------------
(* call_return_type and the infer_ functions it calls for an accepted call.*)

(* The items of the first argument, unknown if it is; and nothing is known *)
(* of a call that does not have so many arguments, or has another first.   *)
Items(args) == IF args[1].ty = TUnknown THEN TUnknown ELSE args[1].ty[2]
Shaped(args, sizes, kind, t) ==
  IF Len(args) \in sizes /\ Is(args[1], {kind}) THEN t ELSE TUnknown
AppendType(args) ==
  IF Len(args) # 2 \/ args[1].ty[1] # "List" THEN TUnknown
  ELSE ListOf(Combine(Items(args), args[2].ty))
FirstOrLastType(args) == Shaped(args, {1}, "List", RuntimeResult(Items(args)))
SliceType(args) == Shaped(args, {3}, "List", RuntimeResult(ListOf(Items(args))))
ReverseType(args) == Shaped(args, {1}, "List", ListOf(Items(args)))
SortType(args) == IF OrderableChecks(args) THEN ListOf(Items(args)) ELSE TUnknown
MinOrMaxType(args) ==
  IF OrderableChecks(args) THEN RuntimeResult(Items(args)) ELSE TUnknown
SplitType(args) == Shaped(args, {2}, "String", ListOf(TString))
InsertType(args) ==
  Shaped(args, {3}, "Dict",
         DictOf(IF args[1].ty = TUnknown THEN args[3].ty
                ELSE Combine(Items(args), args[3].ty)))
KeysType(args) == Shaped(args, {1}, "Dict", ListOf(TString))
ValuesType(args) == Shaped(args, {1}, "Dict", ListOf(Items(args)))
RecvType(args) == RuntimeResult(Shaped(args, {1, 2}, "Channel", Items(args)))
AwaitResultType(args) == RuntimeResult(Shaped(args, {1, 2}, "Task", Items(args)))

BuiltinType(f, args) ==
  CASE f = "append" -> AppendType(args)
    [] f \in {"first", "last"} -> FirstOrLastType(args)
    [] f = "slice" -> SliceType(args)
    [] f = "reverse" -> ReverseType(args)
    [] f = "sort" -> SortType(args)
    [] f \in {"min", "max"} -> MinOrMaxType(args)
    [] f = "split" -> SplitType(args)
    [] f = "insert" -> InsertType(args)
    [] f = "keys" -> KeysType(args)
    [] f = "values" -> ValuesType(args)
    [] f = "recv" -> RecvType(args)
    [] f = "await_result" -> AwaitResultType(args)
    [] f = "dict" -> DictOf(TUnknown)
    [] f = "channel" -> ChannelOf(TUnknown)
    [] f = "range" -> ListOf(TInt)
    [] f = "argv" -> ListOf(TString)
    [] f = "len" -> TInt
    [] f \in {"contains", "starts_with", "ends_with", "exists", "is_cancelled"} -> TBool
    [] f \in {"trim", "join", "to_string", "path_join", "path_dir", "path_base",
              "path_ext", "base64_encode"} -> TString
    [] f \in {"print", "sleep", "assert", "close", "cancel", "cancel_after"} -> TUnit
    [] f \in {"cancel_token", "timeout_token"} -> TToken
    [] f \in {"parse_int", "unix_seconds", "unix_millis", "json_len", "json_int"} ->
         RuntimeResult(TInt)
    [] f \in {"read_stdin", "env", "cwd", "read_file", "json_stringify", "json_string",
              "base64_decode", "csv_stringify", "template_render", "http_get",
              "http_post"} -> RuntimeResult(TString)
    [] f \in {"read_stdin_lines", "read_dir", "read_lines"} -> RuntimeResult(ListOf(TString))
    [] f \in {"mkdir", "remove_file", "write_file", "write_lines", "send"} ->
         RuntimeResult(TUnit)
    [] f = "csv_parse" -> RuntimeResult(ListOf(ListOf(TString)))
    [] f \in {"run_process", "json_parse", "json_get", "json_index", "toml_parse",
              "yaml_parse", "http_request"} -> RuntimeResult(TJson)
    [] OTHER -> BridgeType(f)

----------------------------------------------------------------------------
(* eval_expr, for a call that no function of the program takes.            *)

PerformCollection(f, args) ==
  CASE f = "len" -> Len_(args)
    [] f = "print" -> PrintLine(args)
    [] f = "append" -> Append_(args)
    [] f = "contains" -> Contains_(args)
    [] f = "first" -> First(args)
    [] f = "last" -> Last(args)
    [] f = "slice" -> Slice(args)
    [] f = "reverse" -> Reverse_(args)
    [] f = "sort" -> Sort(args)
    [] f = "min" -> Smallest(args)
    [] f = "max" -> Largest(args)

PerformText(f, args) ==
  CASE f = "trim" -> Trim(args)
    [] f = "split" -> Split(args)
    [] f = "join" -> Join(args)
    [] f = "starts_with" -> StartsWith(args)
    [] f = "ends_with" -> EndsWith(args)
    [] f = "parse_int" -> ParseInt(args)
    [] f = "to_string" -> ToString(args)
    [] f = "range" -> Range_(args)
    [] f = "assert" -> Assert_(args)
    [] f = "sleep" -> Sleep(args)

PerformFile(f, args) ==
  CASE f = "path_dir" -> PathDir(args)
    [] f = "path_base" -> PathBase(args)
    [] f = "path_ext" -> PathExt(args)
    [] f = "read_file" -> ReadFile(args)
    [] f = "write_file" -> WriteFile(args)
    [] f = "read_lines" -> ReadLines(args)
    [] f = "write_lines" -> WriteLines(args)
PerformHost(f, args) ==
  CASE f = "argv" -> Argv(args)
    [] f = "read_stdin" -> ReadStdin(args)
    [] f = "read_stdin_lines" -> ReadStdinLines(args)
    [] f = "unix_seconds" -> UnixSeconds(args)
    [] f = "unix_millis" -> UnixMillis(args)
    [] f = "env" -> Env(args)
    [] f = "cwd" -> Cwd(args)
    [] f = "run_process" -> RunProcess(args)
    [] f = "exists" -> Exists(args)
    [] f = "read_dir" -> ReadDir(args)
    [] f = "mkdir" -> Mkdir(args)
    [] f = "remove_file" -> RemoveFile(args)
    [] f = "path_join" -> PathJoin(args)
    [] OTHER -> PerformFile(f, args)

PerformShared(f, args) ==
  CASE f = "dict" -> Dict(args)
    [] f = "insert" -> Insert(args)
    [] f = "keys" -> Keys(args)
    [] f = "values" -> Values_(args)
    [] f = "channel" -> Channel_(args)
    [] f = "close" -> Close_(args)
    [] f = "send" -> Send(args)
    [] f = "recv" -> Recv(args)
    [] f = "cancel_token" -> CancelToken(args)
    [] f = "cancel" -> Cancel_(args)
    [] f = "is_cancelled" -> IsCancelled(args)
    [] f = "timeout_token" -> TimeoutToken(args)
    [] f = "cancel_after" -> CancelAfter(args)
    [] f = "await_result" -> AwaitResult(args)

PerformExchange(f, args) ==
  CASE f = "csv_parse" -> CsvParse(args)
    [] f = "csv_stringify" -> CsvStringify(args)
    [] f = "template_render" -> TemplateRender(args)
    [] f = "http_request" -> HttpRequest(args)
    [] f = "http_get" -> HttpGet(args)
    [] f = "http_post" -> HttpPost(args)
PerformFormat(f, args) ==
  CASE f = "json_parse" -> JsonParse(args)
    [] f = "toml_parse" -> TomlParse(args)
    [] f = "yaml_parse" -> YamlParse(args)
    [] f = "base64_encode" -> Base64Encode(args)
    [] f = "base64_decode" -> Base64Decode(args)
    [] f = "json_stringify" -> JsonStringify(args)
    [] f = "json_get" -> JsonGet(args)
    [] f = "json_index" -> JsonIndex(args)
    [] f = "json_len" -> JsonLen(args)
    [] f = "json_string" -> JsonString(args)
    [] f = "json_int" -> JsonInt(args)
    [] OTHER -> PerformExchange(f, args)

(* eval_stdlib_bridge_builtin.                                             *)
PerformBridge(f, args) ==
  CASE f \in TestBridge -> TestCalls(f, args)
    [] f \in DataBridge -> DataCalls(f, args)
    [] f \in StreamBridge /\ Receiver(f) \in {"ReadStream", "WriteStream"} ->
         FileCalls(f, args)
    [] f \in {"open_read_stream", "open_write_stream"} -> FileCalls(f, args)
    [] OTHER -> NetCalls(f, args)

Perform(f, args) ==
  CASE f \in CollectionNames -> PerformCollection(f, args)
    [] f \in TextNames -> PerformText(f, args)
    [] f \in HostNames -> PerformHost(f, args)
    [] f \in SharedNames -> PerformShared(f, args)
    [] f \in FormatNames -> PerformFormat(f, args)
    [] OTHER -> PerformBridge(f, args)
=============================================================================
