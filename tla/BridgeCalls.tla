---------------------------- MODULE BridgeCalls ----------------------------
(***************************************************************************)
(* What the evaluator does with a call of the standard library bridge      *)
(* (interpreter.rs), in the terms of CallEvaluator. What streams do while  *)
(* they block is the business of Streams and Connect.                      *)
(***************************************************************************)
EXTENDS HostCalls

Opaque(v, n) == v[1] = "opaque" /\ v[2] = n
Return_(n) == Return(OpaqueValue(n))

(* eval_opaque_argument and its kin, and the shapes built from them. Two   *)
(* opaque values of a kind are one here. (A list that is too short, which  *)
(* the checker never lets through, panics in the code; it counts as wrong.)*)
OpaqueGiven(args, n, outcomes) == When(Len(args) = 1 /\ Opaque(args[1], n), outcomes)
PairGiven(args, n, m, outcomes) ==
  When(Len(args) = 2 /\ Opaque(args[1], n) /\ Opaque(args[2], m), outcomes)
SizeGiven(args, n, outcomes) ==
  When(Len(args) = 2 /\ Opaque(args[1], n) /\ Whole(args, 2),
       IF args[2][2] < 0 THEN Failure ELSE outcomes)
TokenGiven(args, n, outcomes) ==
  When(Len(args) = 2 /\ Opaque(args[1], n) /\ args[2][1] = "token", outcomes)

Bytes == Return_("Bytes")
SomeBytes == Either(Bytes)

----------------------------------------------------------------------------
(* The test context: a failed expectation is a runtime diagnostic.         *)

Context(args) == Opaque(args[1], "TestContext")
Expect(holds) == IF holds THEN Done ELSE RuntimeStop

ContextAndMessage(args, outcomes) ==
  When(Len(args) = 2 /\ Context(args) /\ Text(args, 2), outcomes)
TestFail(args) == ContextAndMessage(args, RuntimeStop)
TestSkipOrTodo(args) == ContextAndMessage(args, RuntimeStop)
TestEqual(args, differ) ==
  When(Len(args) = 4 /\ Context(args) /\ Text(args, 4),
       Expect((args[2] = args[3]) # differ))
TestBool(args, expected) ==
  When(Len(args) = 3 /\ Context(args) /\ Text(args, 3) /\ args[2][1] = "bool",
       Expect(args[2][2] = expected))
TestResult(args, variant) ==
  When(Len(args) = 3 /\ Context(args) /\ Text(args, 3) /\ args[2][1] = "enum",
       Expect(args[2][2] = "Result" /\ args[2][3] = variant))
TestMatchSnapshot(args) ==
  When(Len(args) = 3 /\ Context(args) /\ Text(args, 2), Done \cup RuntimeStop)
TestCase(args) == ContextAndMessage(args, Return_("TestContext"))
TestTempDir(args) == OpaqueGiven(args, "TestContext", Return_("TempDir") \cup RuntimeStop)
TestTempFile(args) == ContextAndMessage(args, Return_("TempFile") \cup RuntimeStop)
TestEnv(args) ==
  When(Len(args) = 3 /\ Context(args) /\ Text(args, 2) /\ Text(args, 3), Done)
TempDirPath(args) == OpaqueGiven(args, "TempDir", AnyText)
TempFilePath(args) == OpaqueGiven(args, "TempFile", AnyText)

(* eval_testing_bridge_builtin.                                            *)
TestCalls(f, args) ==
  CASE f = "test_fail" -> TestFail(args)
    [] f = "test_equal" -> TestEqual(args, FALSE)
    [] f = "test_not_equal" -> TestEqual(args, TRUE)
    [] f = "test_true" -> TestBool(args, TRUE)
    [] f = "test_false" -> TestBool(args, FALSE)
    [] f = "test_ok" -> TestResult(args, "Ok")
    [] f = "test_err" -> TestResult(args, "Err")
    [] f = "test_match_snapshot" -> TestMatchSnapshot(args)
    [] f = "test_case" -> TestCase(args)
    [] f = "test_temp_dir" -> TestTempDir(args)
    [] f = "test_temp_file" -> TestTempFile(args)
    [] f = "test_env" -> TestEnv(args)
    [] f \in {"test_skip", "test_todo"} -> TestSkipOrTodo(args)
    [] f = "temp_dir_path" -> TempDirPath(args)
    [] f = "temp_file_path" -> TempFilePath(args)

----------------------------------------------------------------------------
(* eval_bytes_deadline_bridge_builtin.                                     *)
DeadlineCalls(f, args) ==
  CASE f = "deadline_after" ->
         When(Given(args, <<"int">>), Either(Return_("NetDeadline")))
    [] f = "deadline_at_unix_millis" ->
         When(Given(args, <<"int">>), OkOf(Return_("NetDeadline")))
    [] f \in {"deadline_unix_millis", "deadline_remaining_millis"} ->
         OpaqueGiven(args, "NetDeadline", Return(IntValue(1)))
DataCalls(f, args) ==
  CASE f = "bytes_from_string" -> OneText(args, Bytes)
    [] f = "bytes_to_string" -> OpaqueGiven(args, "Bytes", Either(AnyText))
    [] f = "bytes_len" -> OpaqueGiven(args, "Bytes", Return(IntValue(1)))
    [] f = "bytes_slice" ->
         When(/\ Len(args) = 3 /\ Opaque(args[1], "Bytes")
              /\ Whole(args, 2) /\ Whole(args, 3),
              IF 0 <= args[2][2] /\ args[2][2] <= args[3][2] THEN SomeBytes ELSE Failure)
    [] f = "bytes_concat" -> PairGiven(args, "Bytes", "Bytes", Bytes)
    [] OTHER -> DeadlineCalls(f, args)

(* eval_file_stream_bridge_builtin: writing, then reading.                 *)
FileWrites(f, args) ==
  CASE f = "write_stream_write" ->
         PairGiven(args, "WriteStream", "Bytes", Either(Return(IntValue(1))))
    [] f = "write_stream_write_all" -> PairGiven(args, "WriteStream", "Bytes", Either(Done))
    [] f \in {"write_stream_flush", "write_stream_close"} ->
         OpaqueGiven(args, "WriteStream", Either(Done))
    [] f = "write_stream_with_deadline" ->
         PairGiven(args, "WriteStream", "NetDeadline", Return_("WriteStream"))
    [] f = "write_stream_with_cancel" ->
         TokenGiven(args, "WriteStream", Return_("WriteStream"))
FileCalls(f, args) ==
  CASE f = "open_read_stream" -> OneText(args, Either(Return_("ReadStream")))
    [] f = "open_write_stream" -> OneText(args, Either(Return_("WriteStream")))
    [] f \in {"read_stream_read", "read_stream_read_exact"} ->
         SizeGiven(args, "ReadStream", SomeBytes)
    [] f = "read_stream_read_all" -> OpaqueGiven(args, "ReadStream", SomeBytes)
    [] f = "read_stream_close" -> OpaqueGiven(args, "ReadStream", Either(Done))
    [] f = "read_stream_with_deadline" ->
         PairGiven(args, "ReadStream", "NetDeadline", Return_("ReadStream"))
    [] f = "read_stream_with_cancel" ->
         TokenGiven(args, "ReadStream", Return_("ReadStream"))
    [] OTHER -> FileWrites(f, args)

(* eval_net_bridge_builtin, by what it does it to.                         *)
DuplexControls(f, args) ==
  CASE f \in {"duplex_stream_flush", "duplex_stream_close"} ->
         OpaqueGiven(args, "DuplexStream", Either(Done))
    [] f = "duplex_stream_with_deadline" ->
         PairGiven(args, "DuplexStream", "NetDeadline", Return_("DuplexStream"))
    [] f = "duplex_stream_with_cancel" ->
         TokenGiven(args, "DuplexStream", Return_("DuplexStream"))
    [] f \in {"duplex_stream_peer_addr", "duplex_stream_local_addr"} ->
         OpaqueGiven(args, "DuplexStream", Either(Return_("SocketAddr")))
DuplexCalls(f, args) ==
  CASE f \in {"duplex_stream_read", "duplex_stream_read_exact"} ->
         SizeGiven(args, "DuplexStream", SomeBytes)
    [] f = "duplex_stream_read_all" -> OpaqueGiven(args, "DuplexStream", SomeBytes)
    [] f = "duplex_stream_write" ->
         PairGiven(args, "DuplexStream", "Bytes", Either(Return(IntValue(1))))
    [] f = "duplex_stream_write_all" ->
         PairGiven(args, "DuplexStream", "Bytes", Either(Done))
    [] OTHER -> DuplexControls(f, args)
ListenerCalls(f, args) ==
  CASE f = "tcp_listener_accept" ->
         OpaqueGiven(args, "TcpListener", Either(Return_("DuplexStream")))
    [] f = "tcp_listener_close" -> OpaqueGiven(args, "TcpListener", Either(Done))
    [] f = "tcp_listener_with_deadline" ->
         PairGiven(args, "TcpListener", "NetDeadline", Return_("TcpListener"))
    [] f = "tcp_listener_with_cancel" ->
         TokenGiven(args, "TcpListener", Return_("TcpListener"))
    [] f = "tcp_listener_local_addr" ->
         OpaqueGiven(args, "TcpListener", Either(Return_("SocketAddr")))
    [] f = "socket_addr_text" -> OpaqueGiven(args, "SocketAddr", AnyText)
    [] f = "socket_addr_port" -> OpaqueGiven(args, "SocketAddr", Return(IntValue(1)))
NetCalls(f, args) ==
  CASE f = "connect_tcp" -> OneText(args, Either(Return_("DuplexStream")))
    [] f = "connect_tcp_with_control" ->
         When(/\ Len(args) = 3 /\ Text(args, 1) /\ Opaque(args[2], "NetDeadline")
              /\ args[3][1] = "token", Either(Return_("DuplexStream")))
    [] f = "listen_tcp" -> OneText(args, Either(Return_("TcpListener")))
    [] f \in {"tcp_listener_accept", "tcp_listener_close", "tcp_listener_with_deadline",
              "tcp_listener_with_cancel", "tcp_listener_local_addr", "socket_addr_text",
              "socket_addr_port"} -> ListenerCalls(f, args)
    [] OTHER -> DuplexCalls(f, args)
=============================================================================
