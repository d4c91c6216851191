--------------------------- MODULE PairingProofs ---------------------------
(***************************************************************************)
(* For every number of sessions, identities and PINs, and for every order  *)
(* of requests, replies and losses: pair() only confirms to a host that    *)
(* knows the PIN of this very prompt, and a session that goes on as paired *)
(* is trusted by Sunshine.                                                 *)
(***************************************************************************)
EXTENDS Pairing, FiniteSetTheorems, TLAPS

\* Before phase 1 has reached Sunshine, and after the user has answered it.
Early == {"unborn", "serverinfo", "getservercert"}
Answered == {"clientchallenge", "serverchallengeresp", "clientpairingsecret"}

\* What Sunshine's answer to phase 2 looks like.
Sealed == [key : Sessions \X (Pins \cup {None}),
           text : [digest : Digest, challenge : Sessions \cup {Noise}]]

IdentInv ==
    \A s \in Sessions : at[s] # "unborn" => ident[s] \in Identities

\* The pairing under a uniqueid belongs to one session with that uniqueid, and
\* its PIN is what the user typed for that session.
SlotInv ==
    \A i \in Identities : slot[i] # None =>
        /\ ident[slot[i].of] = i
        /\ at[slot[i].of] \notin Early
        /\ typed[slot[i].of] = slot[i].pin

TypedInv(s) ==
    /\ at[s] \in Early => typed[s] = None /\ reply[s] = None
    /\ at[s] \in Answered => typed[s] # None
    /\ at[s] = "waiting" /\ reply[s] # None => typed[s] # None

\* A reply that decrypts under this session's PIN means that it was typed, and
\* so does a digest of this session's challenge.
PinInv(s) ==
    /\ at[s] = "clientchallenge" /\ reply[s] # None =>
         reply[s] \in Sealed /\ (reply[s].key = ClientKey(s) => typed[s] = pin[s])
    /\ at[s] = "serverchallengeresp" /\ server_response[s].challenge = s
         => typed[s] = pin[s]
    /\ at[s] = "clientpairingsecret" => typed[s] = pin[s]

TrustInv(s) ==
    /\ at[s] = "paired" => ident[s] \in trusted
    /\ at[s] = "clientpairingsecret" /\ reply[s] # None /\ reply[s] = "1"
         => ident[s] \in trusted

SessionInv(s) == TypedInv(s) /\ PinInv(s) /\ TrustInv(s)

\* reply is a function; TypeOK says nothing of its values.
ReplyShape == reply = [s \in Sessions |-> reply[s]]

PairingInv ==
    /\ TypeOK /\ ReplyShape /\ IdentInv /\ SlotInv
    /\ \A s \in Sessions : SessionInv(s)

\* No session has begun, and no pairing is open.
LEMMA InitInv == Init => PairingInv
<1> SUFFICES ASSUME Init PROVE PairingInv
  OBVIOUS
<1> USE PairingAssumption DEF Init
<1>1. TypeOK /\ ReplyShape
  BY DEF TypeOK, ReplyShape, Phases, Slot, Digest, NoiseDigest
<1>2. IdentInv /\ SlotInv
  BY DEF IdentInv, SlotInv
<1>3. ASSUME NEW s \in Sessions PROVE SessionInv(s)
  BY DEF SessionInv, TypedInv, PinInv, TrustInv, Early, Answered
<1> QED
  BY <1>1, <1>2, <1>3 DEF PairingInv

\* A new session starts with an identity of its own or the stored one.
LEMMA ConnectKeeps ==
  ASSUME PairingInv, NEW s \in Sessions, Connect(s)
  PROVE  PairingInv'
<1> USE PairingAssumption DEF PairingInv, TypeOK, ReplyShape, Goto, sunshineVars
<1>1. PICK i \in Identities : ident' = [ident EXCEPT ![s] = i]
  BY DEF Connect, generate
<1>2. at[s] = "unborn" /\ at' = [at EXCEPT ![s] = "serverinfo"]
  BY DEF Connect
<1>3. TypeOK' /\ ReplyShape'
  BY <1>1, <1>2 DEF Connect, Reports, Phases
<1>4. IdentInv' /\ SlotInv'
  BY <1>1, <1>2 DEF Connect, IdentInv, SlotInv, Early, Slot
<1>5. ASSUME NEW r \in Sessions PROVE SessionInv(r)'
  BY <1>1, <1>2 DEF Connect, SessionInv, TypedInv, PinInv, TrustInv, Early,
     Answered, ClientKey, Key, Sealed, Digest
<1> QED
  BY <1>3, <1>4, <1>5

\* serverinfo, the prompt and the persisting host keep the invariant.
LEMMA ServerInfoKeeps ==
  ASSUME PairingInv, NEW s \in Sessions,
         ServerInfoHttps(s) \/ ServerInfoPlain(s) \/ HostPersists(s)
  PROVE  PairingInv'
<1> USE PairingAssumption DEF PairingInv, TypeOK, ReplyShape, Goto, sunshineVars
<1>1. CASE HostPersists(s)
  <2>1. TypeOK' /\ ReplyShape' /\ IdentInv' /\ SlotInv'
    BY <1>1 DEF HostPersists, IdentInv, SlotInv
  <2>2. ASSUME NEW r \in Sessions PROVE SessionInv(r)'
    BY <1>1 DEF HostPersists, SessionInv, TypedInv, PinInv, TrustInv, ClientKey,
       Key, Sealed, Digest
  <2> QED
    BY <2>1, <2>2
<1>2. CASE ServerInfoHttps(s) \/ ServerInfoPlain(s)
  <2>1. /\ at[s] = "serverinfo"
        /\ \/ at' = [at EXCEPT ![s] = "getservercert"]
           \/ (at' = [at EXCEPT ![s] = "paired"] /\ ident[s] \in trusted)
        /\ \/ pin' = pin
           \/ \E p \in Pins : pin' = [pin EXCEPT ![s] = p]
        /\ UNCHANGED <<ident, server_response, server_challenge, reply, learned,
                       stored, orderly, slot, trusted, typed>>
    <3>1. CASE ServerInfoHttps(s)
      BY <3>1 DEF ServerInfoHttps, PairStatus, PairPrompt
    <3>2. CASE ServerInfoPlain(s)
      BY <3>2 DEF ServerInfoPlain, PairPrompt
    <3> QED
      BY <1>2, <3>1, <3>2
  <2>5. https_failed' \in [Sessions -> BOOLEAN]
    BY <1>2 DEF ServerInfoHttps, ServerInfoPlain
  <2>6. at' \in [Sessions -> {"unborn", "serverinfo", "paired", "failed"} \cup Phases]
    BY <2>1 DEF Phases
  <2>2. TypeOK' /\ ReplyShape'
    BY <2>1, <2>5, <2>6
  <2>3. IdentInv' /\ SlotInv'
    BY <2>1 DEF IdentInv, SlotInv, Early, Slot
  <2>4. ASSUME NEW r \in Sessions PROVE SessionInv(r)'
    BY <2>1 DEF SessionInv, TypedInv, PinInv, TrustInv, Early, Answered, ClientKey,
       Key, Sealed, Digest
  <2> QED
    BY <2>2, <2>3, <2>4
<1> QED
  BY <1>1, <1>2

\* Sunshine's slots: phase 1 replaces one, the user fills one in.
LEMMA SlotKeeps ==
  ASSUME PairingInv,
         \/ \E s \in Sessions : GetServerCert(s)
         \/ \E i \in Identities, p \in Pins : UserTypesPin(i, p)
  PROVE  PairingInv'
<1> USE PairingAssumption DEF PairingInv, TypeOK, ReplyShape, Goto, clientVars
<1>1. CASE \E s \in Sessions : GetServerCert(s)
  <2>1. PICK s \in Sessions : GetServerCert(s)
    BY <1>1
  <2>2. /\ at[s] = "getservercert" /\ at' = [at EXCEPT ![s] = "waiting"]
        /\ slot' = [slot EXCEPT ![ident[s]] =
                      [of |-> s, pin |-> None, hash |-> NoiseDigest]]
        /\ UNCHANGED <<reply, clientVars, trusted, typed>>
    BY <2>1 DEF GetServerCert
  <2>3. ident[s] \in Identities
    BY <2>2 DEF IdentInv
  <2>4. TypeOK' /\ ReplyShape'
    BY <2>2, <2>3 DEF Phases, Slot, Digest, NoiseDigest
  <2>5. IdentInv' /\ SlotInv'
    BY <2>2, <2>3 DEF IdentInv, SlotInv, Early, Slot, SessionInv, TypedInv
  <2>6. ASSUME NEW r \in Sessions PROVE SessionInv(r)'
    BY <2>2 DEF SessionInv, TypedInv, PinInv, TrustInv, Early, Answered,
       ClientKey, Key, Sealed, Digest
  <2> QED
    BY <2>4, <2>5, <2>6
<1>2. CASE \E i \in Identities, p \in Pins : UserTypesPin(i, p)
  <2>1. PICK i \in Identities, p \in Pins : UserTypesPin(i, p)
    BY <1>2
  <2> DEFINE r == slot[i].of
  <2>2. /\ slot[i] # None /\ slot[i].pin = None /\ slot[i] \in Slot
        /\ slot' = [slot EXCEPT ![i].pin = p]
        /\ typed' = [typed EXCEPT ![r] = p]
        /\ reply' = [reply EXCEPT ![r] = "plaincert"]
        /\ UNCHANGED <<at, clientVars, trusted>>
    BY <2>1 DEF UserTypesPin
  <2>3. r \in Sessions /\ ident[r] = i /\ at[r] \notin Early \cup Answered
    BY <2>2 DEF SlotInv, Slot, SessionInv, TypedInv
  <2>4. TypeOK' /\ ReplyShape'
    BY <2>2, <2>3 DEF Slot
  <2>5. IdentInv' /\ SlotInv'
    BY <2>2, <2>3 DEF IdentInv, SlotInv, Slot
  <2>6. ASSUME NEW t \in Sessions PROVE SessionInv(t)'
    <3>1. CASE t = r
      BY <2>2, <2>3, <3>1 DEF SessionInv, TypedInv, PinInv, TrustInv, Early, Answered
    <3>2. CASE t # r
      BY <2>2, <2>3, <3>2 DEF SessionInv, TypedInv, PinInv, TrustInv, ClientKey,
         Key, Sealed, Digest
    <3> QED
      BY <3>1, <3>2
  <2> QED
    BY <2>4, <2>5, <2>6
<1> QED
  BY <1>1, <1>2

\* The client's half of phases 1 to 4.
LEMMA ClientKeeps ==
  ASSUME PairingInv, NEW s \in Sessions,
         ServerCert(s) \/ ChallengeResponse(s) \/ PairingSecret(s) \/ Paired(s)
           \/ Fails(s)
  PROVE  PairingInv'
<1> USE PairingAssumption DEF PairingInv, TypeOK, ReplyShape, Goto, sunshineVars
<1>1. /\ at[s] \in {"serverinfo"} \cup Phases
      /\ \E label \in {"paired", "failed"} \cup Answered :
           at' = [at EXCEPT ![s] = label]
      /\ reply' = [reply EXCEPT ![s] = None]
      /\ UNCHANGED <<ident, pin, learned, https_failed, stored, orderly, sunshineVars>>
  <2>1. CASE ServerCert(s)
    BY <2>1 DEF ServerCert, Phases, Answered, clientVars
  <2>2. CASE ChallengeResponse(s)
    BY <2>2 DEF ChallengeResponse, Phases, Answered
  <2>3. CASE PairingSecret(s)
    BY <2>3 DEF PairingSecret, Phases, Answered, clientVars
  <2>4. CASE Paired(s)
    BY <2>4 DEF Paired, Phases, Answered, clientVars
  <2>5. CASE Fails(s)
    BY <2>5 DEF Fails, Phases, Answered, clientVars
  <2> QED
    BY <2>1, <2>2, <2>3, <2>4, <2>5
<1>2. IdentInv' /\ SlotInv' /\ ReplyShape'
  <2>1. IdentInv'
    BY <1>1 DEF IdentInv, Phases
  <2>2. PICK label \in {"paired", "failed"} \cup Answered :
           at' = [at EXCEPT ![s] = label]
    BY <1>1
  <2>3. label \notin Early
    BY DEF Early, Answered
  <2>4. ASSUME NEW i \in Identities, slot[i] # None
        PROVE  /\ ident[slot[i].of] = i
               /\ at'[slot[i].of] \notin Early
               /\ typed[slot[i].of] = slot[i].pin
    <3>1. slot[i].of \in Sessions
      BY <2>4 DEF Slot
    <3>2. at[slot[i].of] \notin Early
      BY <2>4 DEF SlotInv
    <3>3. at'[slot[i].of] \in {label, at[slot[i].of]}
      BY <2>2, <3>1
    <3> QED
      BY <2>3, <2>4, <3>2, <3>3 DEF SlotInv
  <2>5. SlotInv'
    BY <1>1, <2>4 DEF SlotInv
  <2> QED
    BY <1>1, <2>1, <2>5
<1>3. CASE ServerCert(s) \/ PairingSecret(s) \/ Paired(s) \/ Fails(s)
  <2>1. UNCHANGED <<server_response, server_challenge>>
    BY <1>3 DEF ServerCert, PairingSecret, Paired, Fails, clientVars
  <2>2. TypeOK'
    BY <1>1, <2>1 DEF Phases, Answered
  <2>3. ASSUME NEW r \in Sessions, r # s PROVE SessionInv(r)'
    BY <1>1, <2>1, <2>3 DEF SessionInv, TypedInv, PinInv, TrustInv, ClientKey,
       Key, Sealed, Digest
  <2>4. TypedInv(s)'
    BY <1>1, <1>3 DEF ServerCert, PairingSecret, Paired, Fails, SessionInv,
       TypedInv, Early, Answered
  <2>5. PinInv(s)'
    BY <1>1, <1>3 DEF ServerCert, PairingSecret, Explained, Paired, Fails,
       SessionInv, PinInv
  <2>6. TrustInv(s)'
    BY <1>1, <1>3 DEF ServerCert, PairingSecret, Paired, Accepted, Fails,
       SessionInv, TrustInv
  <2> QED
    BY <1>2, <2>2, <2>3, <2>4, <2>5, <2>6 DEF SessionInv
<1>4. CASE ChallengeResponse(s)
  <2> DEFINE noise == [digest |-> NoiseDigest, challenge |-> Noise]
             response == Decrypt(ClientKey(s), reply[s], noise)
  <2>1. /\ at[s] = "clientchallenge" /\ reply[s] # None
        /\ at' = [at EXCEPT ![s] = "serverchallengeresp"]
        /\ server_response' = [server_response EXCEPT ![s] = response.digest]
        /\ server_challenge' = [server_challenge EXCEPT ![s] = response.challenge]
    BY <1>4 DEF ChallengeResponse, Sliced
  <2>2. reply[s] \in Sealed /\ (reply[s].key = ClientKey(s) => typed[s] = pin[s])
    BY <2>1 DEF SessionInv, PinInv
  <2>3. response.digest \in Digest /\ response.challenge \in Sessions \cup {Noise}
    BY <2>2 DEF Decrypt, Sealed, NoiseDigest, Digest
  <2>4. response.digest.challenge = s => typed[s] = pin[s]
    BY <2>2 DEF Decrypt, NoiseDigest
  <2>5. TypeOK'
    <3> HIDE DEF response
    <3> QED
      BY <1>1, <2>1, <2>3 DEF Phases
  <2>6. ASSUME NEW r \in Sessions PROVE SessionInv(r)'
    <3> HIDE DEF response
    <3>1. CASE r = s
      BY <1>1, <2>1, <2>4, <3>1 DEF SessionInv, TypedInv, PinInv, TrustInv,
         Early, Answered
    <3>2. CASE r # s
      BY <1>1, <2>1, <3>2 DEF SessionInv, TypedInv, PinInv, TrustInv, ClientKey,
         Key, Sealed, Digest
    <3> QED
      BY <3>1, <3>2
  <2> QED
    BY <1>2, <2>5, <2>6
<1> QED
  BY <1>3, <1>4

\* Sunshine's half of phases 2 to 4.
LEMMA SunshineKeeps ==
  ASSUME PairingInv, NEW s \in Sessions,
         AnswerChallenge(s) \/ ServerChallengeResp(s) \/ ClientPairingSecret(s)
  PROVE  PairingInv'
<1> USE PairingAssumption DEF PairingInv, TypeOK, ReplyShape, clientVars
<1>1. /\ at[s] \in Answered /\ reply[s] = None
      /\ slot[ident[s]] # None /\ slot[ident[s]].pin # None
      /\ UNCHANGED <<at, clientVars, typed>>
      /\ \E x : reply' = [reply EXCEPT ![s] = x]
  <2>1. CASE AnswerChallenge(s)
    BY <2>1 DEF AnswerChallenge, Reaches, Answered, sunshineVars
  <2>2. CASE ServerChallengeResp(s)
    BY <2>2 DEF ServerChallengeResp, Reaches, Answered
  <2>3. CASE ClientPairingSecret(s)
    BY <2>3 DEF ClientPairingSecret, Reaches, Answered
  <2> QED
    BY <2>1, <2>2, <2>3
<1>2. ident[s] \in Identities /\ slot[ident[s]] \in Slot
  BY <1>1 DEF IdentInv, Answered
<1>3. typed[SlotOf(s).of] = SlotOf(s).pin /\ SlotOf(s) \in Slot
  BY <1>1, <1>2 DEF SlotOf, SlotInv
<1>4. ASSUME NEW r \in Sessions, r # s, trusted \subseteq trusted'
      PROVE  SessionInv(r)'
  BY <1>1, <1>4 DEF SessionInv, TypedInv, PinInv, TrustInv, ClientKey, Key,
     Sealed, Digest
<1>5. TypedInv(s)'
  BY <1>1 DEF SessionInv, TypedInv, Early, Answered
<1>6. CASE AnswerChallenge(s)
  <2> DEFINE challenge == Decrypt(SlotKey(s), Encrypt(ClientKey(s), s), Noise)
             response == [digest |-> [challenge |-> challenge, sig |-> Sunshine,
                                      secret |-> SlotOf(s).of],
                          challenge |-> SlotOf(s).of]
             sealed == [key |-> SlotKey(s), text |-> response]
  <2>1. /\ at[s] = "clientchallenge" /\ reply' = [reply EXCEPT ![s] = sealed]
        /\ UNCHANGED sunshineVars
    BY <1>6 DEF AnswerChallenge, Reaches, Encrypt
  <2>2. sealed \in Sealed
    <3>1. challenge \in Sessions \cup {Noise}
      BY DEF Decrypt, Encrypt
    <3>2. SlotKey(s) \in Sessions \X (Pins \cup {None})
      BY <1>3 DEF SlotKey, Key, Slot
    <3>3. response \in [digest : Digest, challenge : Sessions \cup {Noise}]
      BY <1>3, <3>1 DEF Digest, Slot
    <3> QED
      BY <3>2, <3>3 DEF Sealed
  <2>3. SlotKey(s) = ClientKey(s) => typed[s] = pin[s]
    BY <1>3 DEF SlotKey, ClientKey, Key
  <2>4. SessionInv(s)'
    <3>1. reply'[s] = sealed /\ sealed.key = SlotKey(s)
      BY <2>1
    <3>2. ClientKey(s)' = ClientKey(s)
      BY <1>1 DEF ClientKey, Key
    <3>3. Sealed' = Sealed
      BY DEF Sealed, Digest
    <3> HIDE DEF sealed
    <3>4. PinInv(s)'
      BY <1>1, <2>1, <2>2, <2>3, <3>1, <3>2, <3>3 DEF SessionInv, PinInv
    <3>5. TrustInv(s)'
      BY <1>1, <2>1 DEF SessionInv, TrustInv, sunshineVars
    <3> QED
      BY <1>5, <3>4, <3>5 DEF SessionInv
  <2> QED
    BY <1>1, <1>4, <2>1, <2>4 DEF sunshineVars, IdentInv, SlotInv
<1>7. CASE ServerChallengeResp(s)
  <2> DEFINE digest == [challenge |-> server_challenge[s], sig |-> ident[s], secret |-> s]
             hash == Decrypt(SlotKey(s), Encrypt(ClientKey(s), digest), NoiseDigest)
  <2>1. /\ at[s] = "serverchallengeresp"
        /\ slot' = [slot EXCEPT ![ident[s]].hash = hash]
        /\ UNCHANGED <<trusted>>
    BY <1>7 DEF ServerChallengeResp, Reaches
  <2>2. hash \in Digest
    BY <1>2 DEF Decrypt, Encrypt, Digest, NoiseDigest
  <2> HIDE DEF hash
  <2>3. TypeOK' /\ ReplyShape'
    BY <1>1, <1>2, <2>1, <2>2 DEF Slot
  <2>4. IdentInv' /\ SlotInv'
    BY <1>1, <1>2, <2>1 DEF IdentInv, SlotInv, Slot
  <2>5. PinInv(s)' /\ TrustInv(s)'
    BY <1>1, <2>1 DEF SessionInv, PinInv, TrustInv
  <2> QED
    BY <1>4, <1>5, <2>1, <2>3, <2>4, <2>5 DEF SessionInv
<1>8. CASE ClientPairingSecret(s)
  <2>1. /\ at[s] = "clientpairingsecret"
        /\ slot' = [slot EXCEPT ![ident[s]] = None]
        /\ \/ (trusted' = trusted \cup {ident[s]} /\ reply' = [reply EXCEPT ![s] = "1"])
           \/ (trusted' = trusted /\ reply' = [reply EXCEPT ![s] = "0"])
    BY <1>8 DEF ClientPairingSecret, Reaches
  <2>2. TypeOK' /\ ReplyShape'
    BY <1>1, <1>2, <2>1
  <2>3. IdentInv' /\ SlotInv'
    BY <1>1, <2>1 DEF IdentInv, SlotInv
  <2>4. PinInv(s)' /\ TrustInv(s)'
    BY <1>1, <1>2, <2>1 DEF SessionInv, PinInv, TrustInv
  <2> QED
    BY <1>4, <1>5, <2>1, <2>2, <2>3, <2>4 DEF SessionInv
<1> QED
  BY <1>6, <1>7, <1>8

\* A killed process takes its sessions and the replies on their way with it.
LEMMA KilledKeeps ==
  ASSUME PairingInv, Killed
  PROVE  PairingInv'
<1> USE DEF PairingInv, Killed, clientVars, sunshineVars
<1>1. TypeOK' /\ ReplyShape' /\ IdentInv'
  BY DEF TypeOK, ReplyShape, IdentInv
<1>2. SlotInv'
  BY DEF SlotInv, TypeOK, Slot, Early
<1>3. ASSUME NEW s \in Sessions PROVE SessionInv(s)'
  <2>1. reply'[s] = None /\ at'[s] \in {"unborn", "paired", "failed"}
        /\ (at'[s] # "failed" => at'[s] = at[s])
    OBVIOUS
  <2> QED
    BY <2>1 DEF SessionInv, TypedInv, PinInv, TrustInv, Early, Answered
<1> QED
  BY <1>1, <1>2, <1>3

\* PairingInv is inductive.
LEMMA NextKeeps == PairingInv /\ [Next]_vars => PairingInv'
<1> SUFFICES ASSUME PairingInv, [Next]_vars PROVE PairingInv'
  OBVIOUS
<1>1. ASSUME NEW s \in Sessions, Client(s) \/ SunshineHandles(s) \/ HostPersists(s)
      PROVE  PairingInv'
  BY <1>1, ConnectKeeps, ServerInfoKeeps, SlotKeeps, ClientKeeps, SunshineKeeps
     DEF Client, SunshineHandles
<1>2. CASE \E i \in Identities, p \in Pins : UserTypesPin(i, p)
  BY <1>2, SlotKeeps
<1>3. CASE UNCHANGED vars
  <2> USE <1>3 DEF vars, clientVars, sunshineVars, PairingInv
  <2>1. TypeOK' /\ ReplyShape' /\ IdentInv' /\ SlotInv'
    BY DEF TypeOK, ReplyShape, IdentInv, SlotInv
  <2>2. ASSUME NEW s \in Sessions PROVE SessionInv(s)'
    BY DEF SessionInv, TypedInv, PinInv, TrustInv, ClientKey, Key, Sealed, Digest
  <2> QED
    BY <2>1, <2>2
<1>4. CASE Killed
  BY <1>4, KilledKeeps
<1> QED
  BY <1>1, <1>2, <1>3, <1>4 DEF Next, Rest

\* Every variable of the pairing keeps its type (nvhttp.rs, PairingClient).
THEOREM PairingTypeCorrect == Spec => []TypeOK
<1>1. PairingInv => TypeOK
  BY DEF PairingInv
<1> QED
  BY InitInv, NextKeeps, <1>1, PTL DEF Spec

\* pair() sends its last, confirming request only to a host into which the
\* user has typed the PIN of this very prompt, whatever other sessions pair
\* under the same uniqueid meanwhile (nvhttp.rs, "wrong PIN").
THEOREM ConfirmationHolds == Spec => []ConfirmsOnlyWithPin
<1>1. PairingInv => ConfirmsOnlyWithPin
  BY DEF PairingInv, SessionInv, PinInv, ConfirmsOnlyWithPin
<1> QED
  BY InitInv, NextKeeps, <1>1, PTL DEF Spec

\* A session that goes on as paired is one whose certificate Sunshine accepts
\* (session.rs, from pair_status or from pair()).
THEOREM PairedHolds == Spec => []PairedIsTrusted
<1>1. PairingInv => PairedIsTrusted
  BY DEF PairingInv, SessionInv, TrustInv, PairedIsTrusted
<1> QED
  BY InitInv, NextKeeps, <1>1, PTL DEF Spec

-----------------------------------------------------------------------------
(* One identity                                                            *)

Born(s) == at[s] # "unborn"

\* All sessions have the stored identity, or the first is still to report it.
OrderInv ==
    /\ \A s \in Sessions : learned[s] => Born(s)
    /\ orderly =>
         /\ \A s, r \in Sessions : Born(s) /\ Born(r) => ident[s] = ident[r]
         /\ \A s \in Sessions : Born(s) /\ stored # None => ident[s] = stored
         /\ \A s \in Sessions : Born(s) /\ stored = None =>
              \E r \in Sessions : learned[r]

\* No session has begun.
LEMMA OrderInit == Init => OrderInv
BY DEF Init, OrderInv, Born

\* A `connect` takes up the stored identity, unless it is the first.
LEMMA OrderConnect ==
  ASSUME TypeOK, OrderInv, NEW s \in Sessions, Connect(s)
  PROVE  OrderInv'
<1> USE PairingAssumption DEF TypeOK, Goto, Born
<1>1. PICK i \in Identities :
         /\ ident' = [ident EXCEPT ![s] = i]
         /\ stored # None => i = stored
  BY DEF Connect, generate
<1>2. /\ at[s] = "unborn" /\ at' = [at EXCEPT ![s] = "serverinfo"]
      /\ learned' = [learned EXCEPT ![s] = stored = None]
      /\ stored' = stored
      /\ orderly' => orderly /\ \A r \in Sessions : Born(r) => ~learned[r]
  BY DEF Connect, Reports
<1>3. \A r \in Sessions : learned'[r] => Born(r)'
  BY <1>2 DEF OrderInv
<1>4. ASSUME orderly'
      PROVE  /\ \A r, t \in Sessions : Born(r)' /\ Born(t)' => ident'[r] = ident'[t]
             /\ \A r \in Sessions : Born(r)' /\ stored' # None => ident'[r] = stored'
             /\ \A r \in Sessions : Born(r)' /\ stored' = None =>
                  \E t \in Sessions : learned'[t]
  <2>1. CASE stored = None
    <3>1. \A r \in Sessions : r # s => ~Born(r) /\ ~Born(r)'
      BY <1>2, <1>4, <2>1 DEF OrderInv
    <3>2. learned'[s]
      BY <1>2, <2>1
    <3> QED
      BY <1>1, <1>2, <2>1, <3>1, <3>2
  <2>2. CASE stored # None
    <3>1. i = stored
      BY <1>1, <2>2
    <3>2. \A r \in Sessions : Born(r)' => ident'[r] = stored
      BY <1>1, <1>2, <1>4, <2>2, <3>1 DEF OrderInv
    <3> QED
      BY <1>2, <2>2, <3>2
  <2> QED
    BY <2>1, <2>2
<1> QED
  BY <1>3, <1>4 DEF OrderInv

\* Every other step leaves the identities alone; HostPersists stores one.
LEMMA OrderKeeps == PairingInv /\ OrderInv /\ [Next]_vars => OrderInv'
<1> SUFFICES ASSUME PairingInv, OrderInv, [Next]_vars PROVE OrderInv'
  OBVIOUS
<1>0. TypeOK /\ IdentInv
  BY DEF PairingInv
<1> USE PairingAssumption DEF TypeOK, Goto, Born
<1>1. CASE \E s \in Sessions : Connect(s)
  BY <1>0, <1>1, OrderConnect
<1>2. CASE \E s \in Sessions : HostPersists(s)
  <2>1. PICK s \in Sessions : HostPersists(s)
    BY <1>2
  <2>2. /\ learned[s] /\ stored' = ident[s]
        /\ UNCHANGED <<at, ident, orderly>>
        /\ \A r \in Sessions : learned'[r] => learned[r]
    BY <1>0, <2>1 DEF HostPersists
  <2>3. Born(s) /\ ident[s] # None
    BY <1>0, <2>2 DEF OrderInv, IdentInv
  <2> QED
    BY <2>2, <2>3 DEF OrderInv
<1>3. ASSUME \/ \E s \in Sessions :
                  \/ ServerInfoHttps(s) \/ ServerInfoPlain(s) \/ ServerCert(s)
                  \/ ChallengeResponse(s) \/ PairingSecret(s) \/ Paired(s) \/ Fails(s)
                  \/ SunshineHandles(s)
             \/ \E i \in Identities, p \in Pins : UserTypesPin(i, p)
             \/ Killed \/ UNCHANGED vars
      PROVE  OrderInv'
  <2>1. UNCHANGED <<ident, learned, stored, orderly>>
    BY <1>3 DEF ServerInfoHttps, ServerInfoPlain, ServerCert, ChallengeResponse,
       PairingSecret, Paired, Fails, SunshineHandles, GetServerCert, AnswerChallenge,
       ServerChallengeResp, ClientPairingSecret, UserTypesPin, Killed, vars, clientVars
  <2>2. \A s \in Sessions : Born(s)' <=> Born(s)
    <3>1. CASE \E s \in Sessions :
                  \/ ServerInfoHttps(s) \/ ServerInfoPlain(s) \/ ServerCert(s)
                  \/ ChallengeResponse(s) \/ PairingSecret(s) \/ Paired(s) \/ Fails(s)
      <4>1. PICK s \in Sessions :
               \/ ServerInfoHttps(s) \/ ServerInfoPlain(s) \/ ServerCert(s)
               \/ ChallengeResponse(s) \/ PairingSecret(s) \/ Paired(s) \/ Fails(s)
        BY <3>1
      <4>2. at[s] # "unborn"
        BY <4>1 DEF ServerInfoHttps, ServerInfoPlain, ServerCert, ChallengeResponse,
           PairingSecret, Paired, Fails, Phases
      <4>3. \E label : at' = [at EXCEPT ![s] = label] /\ label # "unborn"
        <5>1. CASE ServerInfoHttps(s) \/ ServerInfoPlain(s)
          BY <5>1 DEF ServerInfoHttps, ServerInfoPlain, PairPrompt
        <5>2. CASE ServerCert(s) \/ ChallengeResponse(s) \/ Fails(s)
          BY <5>2 DEF ServerCert, ChallengeResponse, Fails
        <5>3. CASE PairingSecret(s) \/ Paired(s)
          BY <5>3 DEF PairingSecret, Paired
        <5> QED
          BY <4>1, <5>1, <5>2, <5>3
      <4> QED
        BY <1>0, <4>2, <4>3
    <3>2. CASE \E s \in Sessions : SunshineHandles(s)
      BY <1>0, <3>2 DEF SunshineHandles, GetServerCert, AnswerChallenge,
         ServerChallengeResp, ClientPairingSecret
    <3>3. CASE Killed
      BY <1>0, <3>3 DEF Killed
    <3>4. CASE \E i \in Identities, p \in Pins : UserTypesPin(i, p)
      BY <3>4 DEF UserTypesPin
    <3>5. CASE UNCHANGED vars
      BY <3>5 DEF vars
    <3> QED
      BY <1>3, <3>1, <3>2, <3>3, <3>4, <3>5
  <2> QED
    BY <2>1, <2>2 DEF OrderInv
<1> QED
  BY <1>1, <1>2, <1>3 DEF Next, Client, Rest

\* "The identity MUST be generated once and persisted" (identity.rs): a host
\* that waits for the end of a session and for its identity event before it
\* connects again never meets a second identity, however many sessions it opens
\* and however they end.
THEOREM OneIdentityHolds == Spec => []OneIdentity
<1>1. TypeOK /\ OrderInv => OneIdentity
  <2> SUFFICES ASSUME OrderInv, orderly
               PROVE  Cardinality({ident[s] : s \in {r \in Sessions : at[r] # "unborn"}}) <= 1
    BY DEF OneIdentity
  <2> DEFINE all == {ident[s] : s \in {r \in Sessions : at[r] # "unborn"}}
  <2>1. CASE all = {}
    BY <2>1, FS_EmptySet
  <2>2. CASE all # {}
    <3>1. PICK s \in Sessions : Born(s)
      BY <2>2 DEF Born
    <3>2. \A r \in Sessions : Born(r) => ident[r] = ident[s]
      BY <3>1 DEF OrderInv
    <3>3. all = {ident[s]}
      BY <3>1, <3>2 DEF Born
    <3>4. Cardinality({ident[s]}) = 1
      BY FS_Singleton
    <3> QED
      BY <3>3, <3>4
  <2> QED
    BY <2>1, <2>2
<1>2. Spec => [](PairingInv /\ OrderInv)
  BY InitInv, NextKeeps, OrderInit, OrderKeeps, PTL DEF Spec
<1>3. PairingInv => TypeOK
  BY DEF PairingInv
<1> QED
  BY <1>1, <1>2, <1>3, PTL

\* Sunshine only trusts identities that a session has had.
TrustedInv == \A i \in trusted : \E s \in Sessions : Born(s) /\ ident[s] = i

\* Phase 4 adds the identity of its session; a session keeps its own.
LEMMA TrustedKeeps == PairingInv /\ TrustedInv /\ [Next]_vars => TrustedInv'
<1> SUFFICES ASSUME PairingInv, TrustedInv, [Next]_vars PROVE TrustedInv'
  OBVIOUS
<1>0. TypeOK
  BY DEF PairingInv
<1> USE DEF TypeOK, Goto, Born
<1>1. \A s \in Sessions : at[s] # "unborn" => at'[s] # "unborn" /\ ident'[s] = ident[s]
  <2>1. ASSUME NEW s \in Sessions, Connect(s)
        PROVE  /\ at[s] = "unborn" /\ at' = [at EXCEPT ![s] = "serverinfo"]
               /\ \E i : ident' = [ident EXCEPT ![s] = i]
    BY <2>1 DEF Connect
  <2>2. CASE \E s \in Sessions : Connect(s)
    BY <1>0, <2>1, <2>2
  <2>3. ASSUME NEW s \in Sessions,
               \/ ServerInfoHttps(s) \/ ServerInfoPlain(s) \/ ServerCert(s)
               \/ ChallengeResponse(s) \/ PairingSecret(s) \/ Paired(s) \/ Fails(s)
        PROVE  /\ UNCHANGED ident
               /\ \E label : at' = [at EXCEPT ![s] = label] /\ label # "unborn"
    <3>1. CASE ServerInfoHttps(s) \/ ServerInfoPlain(s)
      BY <3>1 DEF ServerInfoHttps, ServerInfoPlain, PairPrompt
    <3>2. CASE ServerCert(s) \/ ChallengeResponse(s) \/ Fails(s)
      BY <3>2 DEF ServerCert, ChallengeResponse, Fails, clientVars
    <3>3. CASE PairingSecret(s) \/ Paired(s)
      BY <3>3 DEF PairingSecret, Paired, clientVars
    <3> QED
      BY <2>3, <3>1, <3>2, <3>3
  <2>4. CASE \E s \in Sessions : SunshineHandles(s) \/ HostPersists(s)
    BY <1>0, <2>4 DEF SunshineHandles, GetServerCert, AnswerChallenge, HostPersists,
       ServerChallengeResp, ClientPairingSecret, clientVars
  <2>5. CASE Killed \/ UNCHANGED vars
    BY <1>0, <2>5 DEF Killed, vars, clientVars
  <2>6. CASE \E i \in Identities, p \in Pins : UserTypesPin(i, p)
    BY <2>6 DEF UserTypesPin, clientVars
  <2> QED
    BY <1>0, <2>2, <2>3, <2>4, <2>5, <2>6 DEF Next, Client, Rest
<1>2. \A i \in trusted' : i \in trusted \/ \E s \in Sessions : Born(s) /\ i = ident[s]
  <2>1. CASE \E s \in Sessions : ClientPairingSecret(s)
    BY <2>1 DEF ClientPairingSecret, Reaches
  <2>2. CASE ~\E s \in Sessions : ClientPairingSecret(s)
    <3>1. UNCHANGED trusted
      BY <2>2 DEF Next, Client, Connect, ServerInfoHttps, ServerInfoPlain, ServerCert,
         ChallengeResponse, PairingSecret, Paired, Fails, SunshineHandles,
         GetServerCert, AnswerChallenge, ServerChallengeResp, HostPersists,
         UserTypesPin, Killed, Rest, vars, sunshineVars
    <3> QED
      BY <3>1
  <2> QED
    BY <2>1, <2>2
<1> QED
  BY <1>1, <1>2 DEF TrustedInv

\* "re-generating it un-pairs the client" (identity.rs): once Sunshine has
\* accepted a certificate of a host that waits and persists, even if the reply
\* that said so was lost, no later session of it asks for a PIN, unless
\* /serverinfo over HTTPS failed.
THEOREM NeverAskedAgainHolds == Spec => NeverAskedAgain
<1> DEFINE Asks == \A s \in Sessions :
             orderly' /\ pin'[s] # pin[s] /\ ~https_failed'[s] => trusted = {}
<1>1. PairingInv /\ OrderInv /\ TrustedInv /\ [Next]_vars => [Asks]_vars
  <2> SUFFICES ASSUME PairingInv, OrderInv, TrustedInv, Next,
                      NEW s \in Sessions, orderly', pin'[s] # pin[s], ~https_failed'[s]
               PROVE  trusted = {}
    OBVIOUS
  <2>0. TypeOK
    BY DEF PairingInv
  <2> USE DEF TypeOK, Goto
  <2>1. PICK r \in Sessions : ServerInfoHttps(r) \/ ServerInfoPlain(r)
    BY DEF Next, Client, Connect, ServerCert, ChallengeResponse, PairingSecret, Paired,
       Fails, SunshineHandles, GetServerCert, AnswerChallenge, ServerChallengeResp,
       ClientPairingSecret, HostPersists, UserTypesPin, Killed, Rest, vars, clientVars
  <2>2. r = s /\ ServerInfoHttps(s)
    <3>1. CASE ServerInfoPlain(r)
      BY <2>0, <3>1 DEF ServerInfoPlain, PairPrompt
    <3>2. CASE ServerInfoHttps(r)
      BY <2>0, <3>2 DEF ServerInfoHttps, PairPrompt
    <3> QED
      BY <2>1, <3>1, <3>2
  <2>3. at[s] = "serverinfo" /\ ident[s] \notin trusted /\ orderly
    BY <2>2 DEF ServerInfoHttps, PairStatus
  <2>4. \A i \in trusted : i = ident[s]
    BY <2>3 DEF TrustedInv, OrderInv, Born
  <2> QED
    BY <2>3, <2>4
<1>2. Init => TrustedInv
  BY DEF Init, TrustedInv
<1> QED
  BY InitInv, NextKeeps, OrderInit, OrderKeeps, TrustedKeeps, <1>1, <1>2, PTL
     DEF Spec, NeverAskedAgain
=============================================================================
