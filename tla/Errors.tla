-------------------------------- MODULE Errors --------------------------------
(***************************************************************************)
(* error.rs: the codes an operation may end with, and the code each error  *)
(* of the SSH library becomes.                                             *)
(***************************************************************************)

ErrorCode ==
    {"Ok", "InvalidArgument", "NotFound", "Connect", "Timeout", "HostKeyRejected",
     "AuthFailed", "Key", "Closed", "Protocol", "Io", "Cancelled", "Internal",
     "QueueFull", "TooLarge"}

\* From<russh::Error> for SshError.
CodeOf(e) ==
    CASE e = "IO" -> "Io"
      [] e \in {"ConnectionTimeout", "KeepaliveTimeout", "InactivityTimeout"} -> "Timeout"
      [] e \in {"UnknownKey", "WrongServerSig"} -> "HostKeyRejected"
      [] e \in {"NotAuthenticated", "NoAuthMethod"} -> "AuthFailed"
      [] e = "CouldNotReadKey" -> "Key"
      [] e \in {"Disconnect", "SendError", "RecvError", "HUP"} -> "Closed"
      [] OTHER -> "Protocol"
=============================================================================
