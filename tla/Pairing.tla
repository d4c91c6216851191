------------------------------ MODULE Pairing ------------------------------
(***************************************************************************)
(* Identity and pairing (crates/moonlight-core/src/nvhttp.rs, identity.rs, *)
(* and the head of run_moonlight in session.rs) over several sessions of   *)
(* one saved connection: who generates the identity, when the user is      *)
(* asked for a PIN, and the four phases of PairingClient::pair against     *)
(* Sunshine, which keys a pairing by the uniqueid of its requests.         *)
(*                                                                         *)
(* Cryptography is symbolic: what is decrypted with another key is noise,  *)
(* a digest is the record of what was hashed, and the random values of a   *)
(* session (salt, challenge, secret) are named after it.                   *)
(***************************************************************************)
EXTENDS Naturals, FiniteSets

CONSTANTS
    Sessions,      \* the connects the Tempest host sends
    Identities,    \* the identities generate() may come up with
    Pins,          \* the PINs random_pin() may come up with
    None, Noise, Sunshine

ASSUME PairingAssumption ==
    /\ None \notin Sessions \cup Identities \cup Pins
    /\ Noise \notin Sessions
    /\ Sunshine \notin Identities

VARIABLES
    at,            \* at[s]: the request session s is about to make
    ident,         \* ident[s]: its MoonlightIdentity
    pin,           \* pin[s]: the PIN shown to the user
    server_response, server_challenge,     \* what phase 2 yielded
    reply,         \* reply[s]: the HTTP reply on its way to s, or None
    learned,       \* learned[s]: the identity event of s is on its way
    https_failed,  \* history: serverinfo over HTTPS failed in s
    stored,        \* the identity in the host's connect document, or None
    orderly,       \* history: the host always waited for sessionClosed, and
                   \* for the identity event, before it sent a `connect`
    slot,          \* Sunshine: slot[i], the pairing under uniqueid i
    trusted,       \* Sunshine: the certificates it accepts
    typed          \* history: typed[s], the PIN the user gave Sunshine for s

clientVars == <<ident, pin, server_response, server_challenge, learned,
                https_failed, stored, orderly>>
sunshineVars == <<slot, trusted, typed>>
vars == <<at, reply, clientVars, sunshineVars>>

Digest == [challenge : Sessions \cup {Noise}, sig : Identities \cup {Sunshine, Noise},
           secret : Sessions \cup {Noise}]
NoiseDigest == [challenge |-> Noise, sig |-> Noise, secret |-> Noise]

\* One pairing inside Sunshine: whose request opened it, the PIN the user
\* typed, and the client's digest of phase 3.
Slot == [of : Sessions, pin : Pins \cup {None}, hash : Digest]
Phases == {"getservercert", "waiting", "clientchallenge", "serverchallengeresp",
           "clientpairingsecret"}

\* Every variable holds what the code can store in it.
TypeOK ==
    /\ at \in [Sessions -> {"unborn", "serverinfo", "paired", "failed"} \cup Phases]
    /\ ident \in [Sessions -> Identities \cup {None}]
    /\ pin \in [Sessions -> Pins \cup {None}]
    /\ server_response \in [Sessions -> Digest]
    /\ server_challenge \in [Sessions -> Sessions \cup {Noise}]
    /\ learned \in [Sessions -> BOOLEAN]
    /\ https_failed \in [Sessions -> BOOLEAN]
    /\ stored \in Identities \cup {None}
    /\ orderly \in BOOLEAN
    /\ slot \in [Identities -> Slot \cup {None}]
    /\ trusted \subseteq Identities
    /\ typed \in [Sessions -> Pins \cup {None}]

Init ==
    /\ at = [s \in Sessions |-> "unborn"]
    /\ ident = [s \in Sessions |-> None]
    /\ pin = [s \in Sessions |-> None]
    /\ server_response = [s \in Sessions |-> NoiseDigest]
    /\ server_challenge = [s \in Sessions |-> Noise]
    /\ reply = [s \in Sessions |-> None]
    /\ learned = [s \in Sessions |-> FALSE]
    /\ https_failed = [s \in Sessions |-> FALSE]
    /\ stored = None
    /\ orderly = TRUE
    /\ slot = [i \in Identities |-> None]
    /\ trusted = {}
    /\ typed = [s \in Sessions |-> None]

Goto(s, label) == at' = [at EXCEPT ![s] = label]
Over(s) == at[s] \in {"paired", "failed"}

\* derive_aes_key: from the session's salt and the PIN.
Key(s, p) == <<s, p>>
\* aes_ecb, both ways.
Encrypt(key, text) == [key |-> key, text |-> text]
Decrypt(key, cipher, noise) == IF cipher.key = key THEN cipher.text ELSE noise

-----------------------------------------------------------------------------
(* Identity and serverinfo                                                 *)

\* What generate() comes up with: a certificate and a uniqueid of 64 random
\* bits that no session had before.
generate == {i \in Identities : \A r \in Sessions : ident[r] # i}

\* Mutant: the identity is generated but not reported.
BugReports == FALSE

Reports == stored = None

\* `connect`, with the identity the host has stored; without one, a fresh one
\* is generated and reported.
Connect(s) ==
    /\ at[s] = "unborn"
    /\ orderly' = (orderly /\ \A r \in Sessions :
                              at[r] # "unborn" => Over(r) /\ ~learned[r])
    /\ \E i \in IF stored # None THEN {stored} ELSE generate :
         ident' = [ident EXCEPT ![s] = i]
    /\ learned' = [learned EXCEPT ![s] = Reports]
    /\ Goto(s, "serverinfo")
    /\ UNCHANGED <<pin, server_response, server_challenge, reply, https_failed,
                   stored, sunshineVars>>

\* The identity event arrives, and the host persists it.
HostPersists(s) ==
    /\ learned[s]
    /\ stored' = ident[s]
    /\ learned' = [learned EXCEPT ![s] = FALSE]
    /\ UNCHANGED <<at, reply, ident, pin, server_response, server_challenge,
                   https_failed, orderly, sunshineVars>>

\* The prompt: a random PIN is shown and /pair is entered.
PairPrompt(s) ==
    /\ \E p \in Pins : pin' = [pin EXCEPT ![s] = p]
    /\ Goto(s, "getservercert")

\* Mutant: plain HTTP is asked, which always says unpaired.
BugPairStatus(s) == FALSE

\* Over HTTPS, PairStatus is the truth about our certificate.
PairStatus(s) == ident[s] \in trusted

ServerInfoHttps(s) ==
    /\ at[s] = "serverinfo"
    /\ IF PairStatus(s) THEN Goto(s, "paired") /\ UNCHANGED pin
                               ELSE PairPrompt(s)
    /\ UNCHANGED <<ident, server_response, server_challenge, reply, learned,
                   https_failed, stored, orderly, sunshineVars>>

\* The fallback after a failure: PairStatus over plain HTTP reads 0.
ServerInfoPlain(s) ==
    /\ at[s] = "serverinfo"
    /\ https_failed' = [https_failed EXCEPT ![s] = TRUE]
    /\ PairPrompt(s)
    /\ UNCHANGED <<ident, server_response, server_challenge, reply, learned,
                   stored, orderly, sunshineVars>>

-----------------------------------------------------------------------------
(* The four phases.  In each, Sunshine handles the request and its reply   *)
(* travels; Fails is a request or a reply that is lost, refused or         *)
(* malformed.                                                              *)

\* Phase 1 arrives: it opens a pairing under the uniqueid, in the place of
\* any earlier one, and waits for the user.
GetServerCert(s) ==
    /\ at[s] = "getservercert"
    /\ slot' = [slot EXCEPT ![ident[s]] =
                  [of |-> s, pin |-> None, hash |-> NoiseDigest]]
    /\ Goto(s, "waiting")
    /\ UNCHANGED <<reply, clientVars, trusted, typed>>

\* The user types a PIN, the right one or not, into Sunshine's web page.
UserTypesPin(i, p) ==
    /\ slot[i] # None
    /\ slot[i].pin = None
    /\ slot' = [slot EXCEPT ![i].pin = p]
    /\ typed' = [typed EXCEPT ![slot[i].of] = p]
    /\ reply' = [reply EXCEPT ![slot[i].of] = "plaincert"]
    /\ UNCHANGED <<at, clientVars, trusted>>

ServerCert(s) ==
    /\ at[s] = "waiting"
    /\ reply[s] # None
    /\ reply' = [reply EXCEPT ![s] = None]
    /\ Goto(s, "clientchallenge")
    /\ UNCHANGED <<clientVars, sunshineVars>>

\* A request of s reaches the pairing that is open under its uniqueid.
Reaches(s, phase) ==
    /\ at[s] = phase
    /\ reply[s] = None
    /\ slot[ident[s]] # None
    /\ slot[ident[s]].pin # None

SlotOf(s) == slot[ident[s]]
SlotKey(s) == Key(SlotOf(s).of, SlotOf(s).pin)
ClientKey(s) == Key(s, pin[s])

\* Sunshine decrypts the challenge, and answers with the digest of it, its
\* own signature and secret, and a challenge of its own.
AnswerChallenge(s) ==
    /\ Reaches(s, "clientchallenge")
    /\ LET challenge == Decrypt(SlotKey(s), Encrypt(ClientKey(s), s), Noise)
           response == [digest |-> [challenge |-> challenge, sig |-> Sunshine,
                                    secret |-> SlotOf(s).of],
                        challenge |-> SlotOf(s).of]
       IN reply' = [reply EXCEPT ![s] = Encrypt(SlotKey(s), response)]
    /\ UNCHANGED <<at, clientVars, sunshineVars>>

\* Mutant: the two slices of the decrypted response are swapped.
BugSliced(response) == [digest |-> response.challenge, challenge |-> response.digest]

\* 32 bytes of digest, 16 of challenge.
Sliced(response) == response

ChallengeResponse(s) ==
    /\ at[s] = "clientchallenge"
    /\ reply[s] # None
    /\ LET response == Sliced(Decrypt(ClientKey(s), reply[s],
                                      [digest |-> NoiseDigest, challenge |-> Noise]))
       IN /\ server_response' = [server_response EXCEPT ![s] = response.digest]
          /\ server_challenge' = [server_challenge EXCEPT ![s] = response.challenge]
    /\ reply' = [reply EXCEPT ![s] = None]
    /\ Goto(s, "serverchallengeresp")
    /\ UNCHANGED <<ident, pin, learned, https_failed, stored, orderly, sunshineVars>>

\* The client's digest goes out, and Sunshine keeps it; its secret comes back.
ServerChallengeResp(s) ==
    /\ Reaches(s, "serverchallengeresp")
    /\ LET digest == [challenge |-> server_challenge[s], sig |-> ident[s], secret |-> s]
       IN slot' = [slot EXCEPT ![ident[s]].hash =
                     Decrypt(SlotKey(s), Encrypt(ClientKey(s), digest), NoiseDigest)]
    /\ reply' = [reply EXCEPT ![s] = SlotOf(s).of]
    /\ UNCHANGED <<at, clientVars, trusted, typed>>

\* Mutant: the host's digest of phase 2 is not compared.
BugExplained(s, secret) == TRUE

\* The secret of the host explains the digest of phase 2.
Explained(s, secret) ==
    server_response[s] = [challenge |-> s, sig |-> Sunshine, secret |-> secret]

\* If it does not, the PIN was wrong.
PairingSecret(s) ==
    /\ at[s] = "serverchallengeresp"
    /\ reply[s] # None
    /\ Goto(s, IF Explained(s, reply[s]) THEN "clientpairingsecret" ELSE "failed")
    /\ reply' = [reply EXCEPT ![s] = None]
    /\ UNCHANGED <<clientVars, sunshineVars>>

\* Sunshine checks the client's secret against its digest; the pairing is
\* over either way.
ClientPairingSecret(s) ==
    /\ Reaches(s, "clientpairingsecret")
    /\ LET good == SlotOf(s).hash = [challenge |-> SlotOf(s).of, sig |-> ident[s],
                                     secret |-> s]
       IN /\ trusted' = IF good THEN trusted \cup {ident[s]} ELSE trusted
          /\ reply' = [reply EXCEPT ![s] = IF good THEN "1" ELSE "0"]
    /\ slot' = [slot EXCEPT ![ident[s]] = None]
    /\ UNCHANGED <<at, clientVars, typed>>

\* Mutant: any reply to phase 4 is taken for success.
BugAccepted(paired) == TRUE

Accepted(paired) == paired = "1"

Paired(s) ==
    /\ at[s] = "clientpairingsecret"
    /\ reply[s] # None
    /\ Goto(s, IF Accepted(reply[s]) THEN "paired" ELSE "failed")
    /\ reply' = [reply EXCEPT ![s] = None]
    /\ UNCHANGED <<clientVars, sunshineVars>>

\* Any request may fail, before or after Sunshine has handled it.
Fails(s) ==
    /\ at[s] \in Phases \cup {"serverinfo"}
    /\ Goto(s, "failed")
    /\ reply' = [reply EXCEPT ![s] = None]
    /\ UNCHANGED <<clientVars, sunshineVars>>

\* The process is killed with every session in it; what it has written, the
\* identity event too, still reaches the host.
Killed ==
    /\ at' = [s \in Sessions |->
                IF at[s] \in {"unborn", "paired"} THEN at[s] ELSE "failed"]
    /\ reply' = [s \in Sessions |-> None]
    /\ UNCHANGED <<clientVars, sunshineVars>>

-----------------------------------------------------------------------------
Client(s) ==
    \/ Connect(s) \/ ServerInfoHttps(s) \/ ServerInfoPlain(s)
    \/ ServerCert(s) \/ ChallengeResponse(s) \/ PairingSecret(s) \/ Paired(s)
    \/ Fails(s)

SunshineHandles(s) ==
    \/ GetServerCert(s) \/ AnswerChallenge(s) \/ ServerChallengeResp(s)
    \/ ClientPairingSecret(s)

\* Every session is over.
Rest == (\A s \in Sessions : Over(s) /\ ~learned[s]) /\ UNCHANGED vars

Next ==
    \/ \E s \in Sessions : Client(s) \/ SunshineHandles(s) \/ HostPersists(s)
    \/ \E i \in Identities, p \in Pins : UserTypesPin(i, p)
    \/ Killed
    \/ Rest

Spec == Init /\ [][Next]_vars

-----------------------------------------------------------------------------
(* Properties                                                              *)

\* A session that goes on as paired has a certificate that Sunshine accepts:
\* neither a wrong PIN, nor another pairing under the same uniqueid, nor a
\* lost message makes pair() succeed on one side only that way.
PairedIsTrusted ==
    \A s \in Sessions : at[s] = "paired" => ident[s] \in trusted

\* The client only confirms (phase 4, its signed secret) to a host into which
\* the user has typed the PIN of this very session, never one of an earlier
\* prompt.
ConfirmsOnlyWithPin ==
    \A s \in Sessions :
        at[s] = "clientpairingsecret" => typed[s] = pin[s]

\* "The identity MUST be generated once and persisted" (identity.rs): all
\* sessions of a host that waits and persists use one identity.
OneIdentity ==
    orderly =>
      Cardinality({ident[s] : s \in {r \in Sessions : at[r] # "unborn"}}) <= 1

\* ... so that, once Sunshine accepted it (even if the reply that said so was
\* lost and the client reported a failure), the user is never asked for a PIN
\* again, unless HTTPS failed.
NeverAskedAgain ==
    [][\A s \in Sessions :
         orderly' /\ pin'[s] # pin[s] /\ ~https_failed'[s] => trusted = {}]_vars
=============================================================================
