-------------------------------- MODULE Keys --------------------------------
(***************************************************************************)
(* keys.rs and hostkey.rs: the smallest RSA key accepted anywhere, and     *)
(* private keys as documents that are generated, encrypted and read again. *)
(* A passphrase is a value; the empty one stands for none, as in the code. *)
(***************************************************************************)
EXTENDS Integers

CONSTANTS Passphrases, NoPassphrase

ASSUME PassphraseAssumption == NoPassphrase \in Passphrases

MinRsaBits == 2048

WeakRsa(key) == key.algorithm = "ssh-rsa" /\ key.bits < MinRsaBits

\* The key types of the C ABI, by number, and the keys they generate.
KeyTypes ==
    <<[algorithm |-> "ssh-ed25519", bits |-> 256],
      [algorithm |-> "ecdsa-sha2-nistp256", bits |-> 256],
      [algorithm |-> "ecdsa-sha2-nistp384", bits |-> 384],
      [algorithm |-> "ssh-rsa", bits |-> 3072],
      [algorithm |-> "ssh-rsa", bits |-> 4096]>>

KeyFromU32(v) == IF v \in 0..4 THEN KeyTypes[v + 1] ELSE [algorithm |-> "none", bits |-> 0]

InvalidArgument == [code |-> "InvalidArgument"]
KeyError == [code |-> "Key"]

\* A document is garbled or holds a key, a comment and the passphrase that locks it.
Garbled == [garbled |-> TRUE]
Document(key, comment, lock) ==
    [garbled |-> FALSE, key |-> key, comment |-> comment, lock |-> lock]

LooksEncrypted(pem) == ~pem.garbled /\ pem.lock # NoPassphrase

\* rnssh_generate_key_pair
Generate(v, comment, passphrase) ==
    IF v \notin 0..4 THEN InvalidArgument
    ELSE [code |-> "Ok", pem |-> Document(KeyFromU32(v), comment, passphrase),
          public |-> KeyFromU32(v), encrypted |-> passphrase # NoPassphrase]

\* A locked document opens with its passphrase only; an open one ignores it.
Decodes(pem, passphrase) ==
    ~pem.garbled /\ (pem.lock # NoPassphrase => passphrase = pem.lock)

ParsePrivateKey(pem, passphrase) ==
    IF Decodes(pem, passphrase) /\ ~WeakRsa(pem.key)
    THEN [code |-> "Ok", key |-> pem.key] ELSE KeyError

\* rnssh_inspect_private_key
Inspect(pem, passphrase) ==
    IF ParsePrivateKey(pem, passphrase).code = "Ok"
    THEN [code |-> "Ok", public |-> pem.key, comment |-> pem.comment,
          encrypted |-> LooksEncrypted(pem)]
    ELSE KeyError

----------------------------------------------------------------------------
\* What was generated is accepted again, whatever its type, under its passphrase
\* and no other, with the public key, the comment and the flag it was made with.
RoundTrip(comments) ==
    \A v \in 0..4, c \in comments, p, q \in Passphrases :
        LET made == Generate(v, c, p)
            read == Inspect(made.pem, q)
        IN IF p \in {NoPassphrase, q}
           THEN read = [code |-> "Ok", public |-> made.public, comment |-> c,
                        encrypted |-> made.encrypted]
           ELSE read = KeyError
=============================================================================
