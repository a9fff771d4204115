--------------------------- MODULE MCConnectInner ---------------------------
(***************************************************************************)
(* ConnectInner for TLC: up to two names, of every kind of key, repeated,  *)
(* unknown or with the suffix of a certificate.                            *)
(***************************************************************************)
EXTENDS ConnectInner

Bases == {"ssh-rsa", "rsa-sha2-256", "ecdsa-sha2-nistp384", "ssh-ed25519", "ssh-dss"}

MCFirsts ==
    {<<>>} \union
    {<<[base |-> b, cert |-> FALSE]>> : b \in Bases} \union
    {<<[base |-> a, cert |-> FALSE], [base |-> b, cert |-> TRUE]>> : a, b \in Bases}

\* The lists offered are the policy's, reordered (proved for every list of names).
ASSUME PolicyReordered == \A first \in MCFirsts : PolicyKept(first)

\* Every generated key is read back under its passphrase.
ASSUME KeysRoundTrip == RoundTrip({"", "work"})
=============================================================================
