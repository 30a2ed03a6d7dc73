----------------------------- MODULE MCSockets ------------------------------
(* One instance for the two halves of a stream's life.                     *)
EXTENDS JoinedSockets

(* Two tasks share one end of the connection (and the listener or a file), *)
(* a third has the other end.                                              *)
Ask(op, h, ctl, size) == [op |-> op, on |-> h, ctl |-> ctl, size |-> size]

(* One task reads, one writes and closes the same end; the peer sends and  *)
(* hangs up.                                                               *)
OneConnection ==
  [t \in Tasks |->
    IF t = "peer"
    THEN {Ask("write", "right", {}, 2), Ask("close", "right", {}, 0)}
    ELSE {Ask("read_exact", "left", {}, 2),
          Ask("read_exact", "left", {"deadline", "token"}, 2),
          Ask("read_all", "left", {"deadline"}, 0),
          Ask("write_all", "left", {"deadline"}, 2),
          Ask("close", "left", {}, 0)}]

(* Two tasks share a listener, and one of them has a file.                 *)
ListenerAndFile ==
  [t \in Tasks |->
    IF t = "one"
    THEN {Ask("accept", "listener", {}, 0), Ask("close", "listener", {}, 0),
          Ask("read", "file", {"token"}, 1), Ask("close", "file", {}, 0)}
    ELSE {Ask("accept", "listener", {"deadline", "token"}, 0),
          Ask("flush", "file", {"deadline"}, 0)}]

Everything == [t \in Tasks |-> IF t = "peer" THEN OneConnection[t]
                               ELSE OneConnection[t] \cup ListenerAndFile[t]]
PeerTwice == [t \in Tasks |-> IF t = "peer" THEN 2 ELSE 1]

(* Names with up to two addresses.                                         *)
SomePeers == {[how |-> h, after |-> a] : h \in {"answers", "refuses"}, a \in 1..3}
               \cup {[how |-> "silent", after |-> 0]}
Names == UNION {[1..n -> SomePeers] : n \in 0..2}
=============================================================================
