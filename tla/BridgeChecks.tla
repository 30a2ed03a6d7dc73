---------------------------- MODULE BridgeChecks ----------------------------
(***************************************************************************)
(* What the checker accepts as the arguments of a call of the standard     *)
(* library bridge, and the type it gives the call. The names are those of  *)
(* the code without their prefix __gof_internal_.                          *)
(***************************************************************************)
EXTENDS CallChecks

Receiver(f) ==
  CASE f \in {"read_stream_read", "read_stream_read_exact", "read_stream_read_all",
              "read_stream_close", "read_stream_with_deadline",
              "read_stream_with_cancel"} -> "ReadStream"
    [] f \in {"write_stream_write", "write_stream_write_all", "write_stream_flush",
              "write_stream_close", "write_stream_with_deadline",
              "write_stream_with_cancel"} -> "WriteStream"
    [] f \in {"duplex_stream_read", "duplex_stream_read_exact",
              "duplex_stream_read_all", "duplex_stream_write",
              "duplex_stream_write_all", "duplex_stream_flush",
              "duplex_stream_close", "duplex_stream_with_deadline",
              "duplex_stream_with_cancel", "duplex_stream_peer_addr",
              "duplex_stream_local_addr"} -> "DuplexStream"
    [] f \in {"tcp_listener_accept", "tcp_listener_close", "tcp_listener_with_deadline",
              "tcp_listener_with_cancel", "tcp_listener_local_addr"} -> "TcpListener"
    [] f \in {"socket_addr_text", "socket_addr_port"} -> "SocketAddr"
    [] f \in {"bytes_to_string", "bytes_len", "bytes_slice", "bytes_concat"} -> "Bytes"
    [] f \in {"deadline_unix_millis", "deadline_remaining_millis"} -> "NetDeadline"
    [] f = "temp_dir_path" -> "TempDir"
    [] f = "temp_file_path" -> "TempFile"
    [] OTHER -> "TestContext"

----------------------------------------------------------------------------
(* The helpers, by the shape of the arguments.                             *)

OneOpaque(args, n) == Len(args) = 1 /\ IsOpaque(args[1], n)
TwoOpaque(args, n, m) == Len(args) = 2 /\ IsOpaque(args[1], n) /\ IsOpaque(args[2], m)
TwoAlike(args, n) == Len(args) = 2 /\ \A i \in 1..2 : IsOpaque(args[i], n)
OpaqueAndToken(args, n) ==
  Len(args) = 2 /\ IsOpaque(args[1], n) /\ Is(args[2], {"CancelToken"})
OpaqueAndInt(args, n) ==
  Len(args) = 2 /\ IsOpaque(args[1], n) /\ Is(args[2], {"Int"})
OpaqueAndTwoInts(args, n) ==
  Len(args) = 3 /\ IsOpaque(args[1], n) /\ \A i \in 2..3 : Is(args[i], {"Int"})
ContextAndText(args) ==
  Len(args) = 2 /\ IsOpaque(args[1], "TestContext") /\ Is(args[2], {"String"})
ContextAndTwoTexts(args) ==
  /\ Len(args) = 3 /\ IsOpaque(args[1], "TestContext")
  /\ \A i \in 2..3 : Is(args[i], {"String"})
ContextBoolText(args) ==
  /\ Len(args) = 3 /\ IsOpaque(args[1], "TestContext")
  /\ Is(args[2], {"Bool"}) /\ Is(args[3], {"String"})
ContextResultText(args) ==
  /\ Len(args) = 3 /\ IsOpaque(args[1], "TestContext")
  /\ Is(args[2], {"Result"}) /\ Is(args[3], {"String"})
ContextTextValue(args) ==
  Len(args) = 3 /\ IsOpaque(args[1], "TestContext") /\ Is(args[2], {"String"})
ContextTwoValuesText(args) ==
  Len(args) = 4 /\ IsOpaque(args[1], "TestContext") /\ Is(args[4], {"String"})

----------------------------------------------------------------------------
(* validate_stdlib_bridge_call, by the families of the library.            *)

TestBridge == {"test_fail", "test_skip", "test_todo", "test_equal", "test_not_equal",
  "test_true", "test_false", "test_ok", "test_err", "test_match_snapshot",
  "test_case", "test_temp_file", "test_temp_dir", "test_env", "temp_dir_path",
  "temp_file_path"}
TestBridgeChecks(f, args) ==
  CASE f \in {"test_fail", "test_skip", "test_todo", "test_case",
              "test_temp_file"} -> ContextAndText(args)
    [] f \in {"test_equal", "test_not_equal"} -> ContextTwoValuesText(args)
    [] f \in {"test_true", "test_false"} -> ContextBoolText(args)
    [] f \in {"test_ok", "test_err"} -> ContextResultText(args)
    [] f = "test_match_snapshot" -> ContextTextValue(args)
    [] f = "test_env" -> ContextAndTwoTexts(args)
    [] OTHER -> OneOpaque(args, Receiver(f))

DataBridge == {"bytes_from_string", "bytes_to_string", "bytes_len", "bytes_slice",
  "bytes_concat", "deadline_after", "deadline_at_unix_millis",
  "deadline_unix_millis", "deadline_remaining_millis"}
DataBridgeChecks(f, args) ==
  CASE f = "bytes_from_string" -> OneStringChecks(args)
    [] f = "bytes_slice" -> OpaqueAndTwoInts(args, "Bytes")
    [] f = "bytes_concat" -> TwoAlike(args, "Bytes")
    [] f = "deadline_after" -> DurationChecks(args)
    [] f = "deadline_at_unix_millis" -> OneIntChecks(args)
    [] OTHER -> OneOpaque(args, Receiver(f))

Openings == {"open_read_stream", "open_write_stream", "connect_tcp", "listen_tcp"}
SizedReads == {"read_stream_read", "read_stream_read_exact", "duplex_stream_read",
               "duplex_stream_read_exact"}
Writings == {"write_stream_write", "write_stream_write_all", "duplex_stream_write",
             "duplex_stream_write_all"}
WithDeadline == {"read_stream_with_deadline", "write_stream_with_deadline",
                 "duplex_stream_with_deadline", "tcp_listener_with_deadline"}
WithCancel == {"read_stream_with_cancel", "write_stream_with_cancel",
               "duplex_stream_with_cancel", "tcp_listener_with_cancel"}
OneHandle == {"read_stream_read_all", "read_stream_close", "write_stream_flush",
  "write_stream_close", "duplex_stream_read_all", "duplex_stream_flush",
  "duplex_stream_close", "duplex_stream_peer_addr", "duplex_stream_local_addr",
  "tcp_listener_accept", "tcp_listener_close", "tcp_listener_local_addr",
  "socket_addr_text", "socket_addr_port"}
StreamBridge == Openings \cup SizedReads \cup Writings \cup WithDeadline
                  \cup WithCancel \cup OneHandle \cup {"connect_tcp_with_control"}
StreamBridgeChecks(f, args) ==
  CASE f \in Openings -> OneStringChecks(args)
    [] f \in SizedReads -> OpaqueAndInt(args, Receiver(f)) /\ NonNegative(args[2])
    [] f \in Writings -> TwoOpaque(args, Receiver(f), "Bytes")
    [] OTHER -> OneOpaque(args, Receiver(f))
ControlBridgeChecks(f, args) ==
  CASE f \in WithDeadline -> TwoOpaque(args, Receiver(f), "NetDeadline")
    [] f \in WithCancel -> OpaqueAndToken(args, Receiver(f))
    [] f = "connect_tcp_with_control" ->
         /\ Len(args) = 3 /\ Is(args[1], {"String"})
         /\ IsOpaque(args[2], "NetDeadline") /\ Is(args[3], {"CancelToken"})
    [] OTHER -> StreamBridgeChecks(f, args)

Bridge == TestBridge \cup DataBridge \cup StreamBridge
BridgeAccepts(f, args) ==
  CASE f \in TestBridge -> TestBridgeChecks(f, args)
    [] f \in DataBridge -> DataBridgeChecks(f, args)
    [] f \in StreamBridge -> ControlBridgeChecks(f, args)
    [] OTHER -> FALSE

(* stdlib_bridge_return_type.                                              *)
BridgeType(f) ==
  CASE f = "test_case" -> OpaqueNamed("TestContext")
    [] f = "test_temp_dir" -> OpaqueNamed("TempDir")
    [] f = "test_temp_file" -> OpaqueNamed("TempFile")
    [] f \in {"temp_dir_path", "temp_file_path", "socket_addr_text"} -> TString
    [] f \in TestBridge -> TUnit
    [] f \in {"bytes_from_string", "bytes_concat"} -> OpaqueNamed("Bytes")
    [] f = "bytes_to_string" -> RuntimeResult(TString)
    [] f \in {"bytes_len", "deadline_unix_millis", "deadline_remaining_millis",
              "socket_addr_port"} -> TInt
    [] f \in SizedReads \cup {"bytes_slice", "read_stream_read_all",
                              "duplex_stream_read_all"} ->
         RuntimeResult(OpaqueNamed("Bytes"))
    [] f \in {"deadline_after", "deadline_at_unix_millis"} ->
         RuntimeResult(OpaqueNamed("NetDeadline"))
    [] f = "open_read_stream" -> RuntimeResult(OpaqueNamed("ReadStream"))
    [] f = "open_write_stream" -> RuntimeResult(OpaqueNamed("WriteStream"))
    [] f = "listen_tcp" -> RuntimeResult(OpaqueNamed("TcpListener"))
    [] f \in {"connect_tcp", "connect_tcp_with_control", "tcp_listener_accept"} ->
         RuntimeResult(OpaqueNamed("DuplexStream"))
    [] f \in {"write_stream_write", "duplex_stream_write"} -> RuntimeResult(TInt)
    [] f \in {"duplex_stream_peer_addr", "duplex_stream_local_addr",
              "tcp_listener_local_addr"} -> RuntimeResult(OpaqueNamed("SocketAddr"))
    [] f \in WithDeadline \cup WithCancel -> OpaqueNamed(Receiver(f))
    [] f \in StreamBridge -> RuntimeResult(TUnit)
    [] OTHER -> TUnknown
=============================================================================
