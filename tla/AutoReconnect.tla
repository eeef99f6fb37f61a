---------------------------- MODULE AutoReconnect ----------------------------
(***************************************************************************)
(* quinn_auto_reconnect.rs, of the services and of the forward proxy: a    *)
(* connection that is made when it is first needed and again when it was   *)
(* closed, until it could not be made too often in a row.                  *)
(***************************************************************************)
EXTENDS Integers

CONSTANT MaxAttempts \* MAX_RETRY_ATTEMPTS, 10

State(is, attempts) == [is |-> is, attempts |-> attempts]

NotConnected == State("unconnected", 0)
Open == State("open", 0)      \* Connection without a close reason
Closed == State("closed", 0)  \* Connection with one
FailedAttempt(n) == State("failed", n)
PermanentError == State("permanent", 0)
ShuttingDown == State("shutdown", 0)

(* Who needs the connection makes it in these states.                       *)
MustConnect(conn) == conn.is \in {"unconnected", "closed", "failed"}

(* refresh, under the write lock.  The first failure is attempt number 1.   *)
Refreshed(conn, success) ==
  IF ~MustConnect(conn) THEN conn
  ELSE IF success THEN Open
  ELSE IF conn.attempts < MaxAttempts THEN FailedAttempt(conn.attempts + 1)
  ELSE PermanentError
==============================================================================
