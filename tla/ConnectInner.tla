---------------------------- MODULE ConnectInner ----------------------------
(***************************************************************************)
(* Connection::connect from its arguments to its result: the checks, the   *)
(* dial, the key exchange with the algorithms of the policy, the host key  *)
(* and then Auth, whose steps run once the handshake is over.              *)
(*                                                                         *)
(* A name the app prefers is a record: its base, and whether it carries    *)
(* the suffix of a certificate.  The algorithms the client prefers and the *)
(* server's choice are dropped when nothing reads them any more.           *)
(***************************************************************************)
EXTENDS Auth, Sequences, SequencesExt, Errors, Keys

CONSTANTS
    Firsts,     \* what options.host_key_algorithms may be
    HostBits    \* sizes of the RSA host key of a server

ASSUME FirstsAssumption ==
    Firsts \subseteq Seq([base : STRING, cert : BOOLEAN])

VARIABLES
    phase,     \* of connect_inner, before authenticate()
    kex,       \* the names and the list the client prefers, the server's keys
    weak,      \* the slot that says why the policy refused a key
    decision,  \* of the app about the host key
    fault      \* the error client::connect failed with, or "arguments"

innerVars == <<phase, kex, weak, decision, fault>>
allVars == <<vars, innerVars>>

Phases == {"idle", "kex", "presented", "shown", "up", "failed"}

RsaAlgorithms == {"rsa-sha2-512", "rsa-sha2-256"}
DefaultKeys ==
    <<"ssh-ed25519", "ecdsa-sha2-nistp256", "ecdsa-sha2-nistp384",
      "ecdsa-sha2-nistp521", "rsa-sha2-512", "rsa-sha2-256">>

NoKex == [first |-> <<>>, list |-> <<>>, offered |-> {}, bits |-> 0, presented |-> "none"]

InnerInit ==
    /\ Init
    /\ phase = "idle" /\ kex = NoKex
    /\ weak = FALSE /\ decision = "none" /\ fault = "none"

----------------------------------------------------------------------------
(* preferred_algorithms_with_host_keys *)

\* The suffix of a certificate is stripped; any name of RSA means both hashes.
Matches(alg, name) ==
    IF alg \in RsaAlgorithms
    THEN name.base \in {"ssh-rsa"} \union RsaAlgorithms
    ELSE name.base = alg

\* Each algorithm of the policy that is wanted and not yet in the list joins it.
AddNew(list, wanted) ==
    FoldLeft(LAMBDA ordered, alg :
               IF alg \in wanted \ ToSet(ordered) THEN Append(ordered, alg) ELSE ordered,
             list, DefaultKeys)

Named(name) == {alg \in ToSet(DefaultKeys) : Matches(alg, name)}

\* The algorithms named come first, in the order they are named; then the rest.
Preferred(first) ==
    LET named == FoldLeft(LAMBDA list, name : AddNew(list, Named(name)), <<>>, first)
    IN AddNew(named, ToSet(DefaultKeys))

\* The first algorithm of the client that the server has a key for.
Negotiated(list, offered) ==
    LET common == {i \in DOMAIN list : list[i] \in offered}
    IN IF common = {} THEN "none" ELSE list[Min(common)]

\* HostKey::algorithm: the key of RSA signatures is an ssh-rsa key.
KeyName(alg) == IF alg \in RsaAlgorithms THEN "ssh-rsa" ELSE alg

----------------------------------------------------------------------------
(* The handshake *)

\* connect_result.map_err; a key refused by policy is looked at before it.
HandshakeCode(e) ==
    CASE e = "UnknownKey" -> "HostKeyRejected"
      [] e = "IO" -> "Connect"
      [] e = "NoCommonAlgo" -> "Protocol"
      [] OTHER -> IF CodeOf(e) \in {"Protocol", "Io"} THEN "Connect" ELSE CodeOf(e)

Ends(from, e) ==
    /\ phase \in from
    /\ phase' = "failed"
    /\ fault' = e
    /\ UNCHANGED <<vars, kex>>

\* Mutant of Code: the slot of weak keys is not looked at.
CodeOfFault ==
    CASE fault = "none" -> "none"
      [] fault = "arguments" -> "InvalidArgument"
      [] OTHER -> HandshakeCode(fault)

\* How the attempt ended before authenticate(): the slot is read before the error.
Code ==
    CASE fault = "none" -> "none"
      [] fault = "arguments" -> "InvalidArgument"
      [] weak -> "Protocol"
      [] OTHER -> HandshakeCode(fault)

\* connect() has accepted its arguments and authenticate() has not begun.
Entered == pc \notin {"checks", "done"}

\* An empty host or user name.
ArgumentsRefused ==
    /\ pc = "checks"
    /\ Ends({"idle"}, "arguments")
    /\ UNCHANGED <<weak, decision>>

DialFails ==
    /\ Entered
    /\ Ends({"idle"}, "IO")
    /\ UNCHANGED <<weak, decision>>

\* Mutant of Dials: the config keeps the default algorithms.
DialsByDefault ==
    /\ Entered /\ phase = "idle"
    /\ phase' = "kex"
    /\ \E first \in Firsts, offered \in SUBSET ToSet(DefaultKeys), bits \in HostBits :
         kex' = [first |-> first, list |-> DefaultKeys, offered |-> offered, bits |-> bits,
                 presented |-> Negotiated(DefaultKeys, offered)]
    /\ UNCHANGED <<vars, weak, decision, fault>>

\* Connected; both sides have sent their lists.
Dials ==
    /\ Entered /\ phase = "idle"
    /\ phase' = "kex"
    /\ \E first \in Firsts :
         LET list == Preferred(first)
         IN \E offered \in SUBSET ToSet(DefaultKeys), bits \in HostBits :
              kex' = [first |-> first, list |-> list, offered |-> offered, bits |-> bits,
                      presented |-> Negotiated(list, offered)]
    /\ UNCHANGED <<vars, weak, decision, fault>>

NothingInCommon ==
    /\ kex.presented = "none"
    /\ Ends({"kex"}, "NoCommonAlgo")
    /\ UNCHANGED <<weak, decision>>

Presents ==
    /\ phase = "kex" /\ kex.presented # "none"
    /\ phase' = "presented"
    /\ UNCHANGED <<vars, kex, weak, decision, fault>>

\* The transport fails, the server goes away or signs wrongly, a keepalive is lost.
HandshakeFails ==
    /\ \E e \in {"IO", "Disconnect", "HUP", "KeepaliveTimeout", "WrongServerSig", "Kex"} :
         Ends({"kex", "presented", "shown"}, e)
    /\ UNCHANGED <<weak, decision>>

HostKey == [algorithm |-> KeyName(kex.presented), bits |-> kex.bits]

\* check_server_key notes the reason and says no without asking.
RefusesWeakKey ==
    /\ WeakRsa(HostKey)
    /\ weak' = TRUE
    /\ Ends({"presented"}, "UnknownKey")
    /\ UNCHANGED decision

ShowsKey ==
    /\ phase = "presented"
    /\ ~WeakRsa(HostKey)
    /\ phase' = "shown"
    /\ UNCHANGED <<vars, kex, weak, decision, fault>>

\* The app says no, or drops the responder.
KeyRefused ==
    /\ decision' = "no"
    /\ Ends({"shown"}, "UnknownKey")
    /\ UNCHANGED weak

KeyAccepted ==
    /\ phase = "shown"
    /\ phase' = "up"
    /\ decision' = "yes"
    /\ kex' = NoKex
    /\ UNCHANGED <<vars, weak, fault>>

Handshake ==
    \/ ArgumentsRefused \/ DialFails \/ Dials \/ NothingInCommon \/ Presents
    \/ HandshakeFails \/ RefusesWeakKey \/ ShowsKey \/ KeyRefused \/ KeyAccepted

\* The checks come before the handshake, the rest of Auth after it.
AuthStep ==
    /\ (pc = "checks" /\ phase = "idle") \/ phase = "up"
    /\ Next
    /\ UNCHANGED innerVars

InnerNext == Handshake \/ AuthStep

(***************************************************************************)
(* As for Auth, what connect() awaits comes: the deadline is modelled in   *)
(* ConnectDeadline.                                                        *)
(***************************************************************************)
InnerSpec == InnerInit /\ [][InnerNext]_allVars /\ WF_allVars(InnerNext)

----------------------------------------------------------------------------
(* Properties *)

\* Every variable has its type.
InnerTypeOK ==
    /\ TypeOK
    /\ phase \in Phases
    /\ kex.offered \subseteq ToSet(DefaultKeys)
    /\ kex.presented \in kex.offered \union {"none"}
    /\ weak \in BOOLEAN
    /\ decision \in {"none", "yes", "no"}
    /\ Code \in ErrorCode \union {"none"}

\* Where the policy has an algorithm.
Place(alg) == CHOOSE i \in DOMAIN DefaultKeys : DefaultKeys[i] = alg

\* The algorithms a name stands for, spelled out.
Pinned(name) ==
    CASE name.base \in {"ssh-rsa", "rsa-sha2-256", "rsa-sha2-512"} ->
           {"rsa-sha2-256", "rsa-sha2-512"}
      [] OTHER -> {name.base} \intersect ToSet(DefaultKeys)

\* Whatever names the app gives, in whatever order and however often, the policy
\* stays what it is: no algorithm is added, lost or offered twice, and those that
\* are not named keep their order behind the others.
PolicyKept(first) ==
    LET list == Preferred(first)
        named == UNION {Pinned(first[i]) : i \in DOMAIN first}
        others == SubSeq(list, Cardinality(named) + 1, Len(list))
    IN /\ ToSet(list) = ToSet(DefaultKeys) /\ Len(list) = Len(DefaultKeys)
       /\ ToSet(others) = ToSet(DefaultKeys) \ named
       /\ \A i \in 2..Len(others) : Place(others[i - 1]) < Place(others[i])

\* A server that still has the key an app pinned presents it, not another of its
\* keys, which would look like a changed host key: with several names, the first
\* of them that the server has.
PinnedPresented ==
    phase \in {"presented", "shown"} =>
        \A i \in DOMAIN kex.first :
            /\ Pinned(kex.first[i]) \intersect kex.offered # {}
            /\ \A j \in 1..(i - 1) : Pinned(kex.first[j]) \intersect kex.offered = {}
            => KeyName(kex.presented) \in {KeyName(alg) : alg \in Pinned(kex.first[i])}

\* HOST_KEY_REJECTED means that the app was asked and said no, or that the server
\* signed with another key; a key below the policy is never shown, and its refusal
\* is not reported as the user's.
WeakIsPolicy ==
    /\ Code = "HostKeyRejected" <=> decision = "no" \/ fault = "WrongServerSig"
    /\ WeakRsa(HostKey) => decision = "none" /\ phase # "shown"

\* A server that replies can neither stall the handshake nor keep the app in its
\* prompts for ever: the attempt has a result.
AttemptEnds == <>(phase = "failed" \/ pc = "done")
=============================================================================
