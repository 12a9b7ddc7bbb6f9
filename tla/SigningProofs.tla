----------------------------- MODULE SigningProofs -----------------------------
(***************************************************************************)
(* What the two verifiers of Signing accept, for any keys, messages and    *)
(* trust lists.                                                            *)
(***************************************************************************)
EXTENDS Signing, TLAPS

\* m has the six fields of Signing, and its key id is one, if it has one.
IsMessage(m) ==
    /\ m = [from |-> m.from, did |-> m.did, body |-> m.body, event_id |-> m.event_id,
            public_key_id |-> m.public_key_id, signature |-> m.signature]
    /\ \/ m.public_key_id = None
       \/ m.public_key_id = make_key_id(m.public_key_id.agent, m.public_key_id.key)

\* None is no key id, no signature and no hash of m.
NoneIsNoFieldOf(m) ==
    \A key \in Keys : None \notin {make_key_id(m.from, key), compute_event_id(m),
                                   Signature(key, canonical(m)),
                                   Signature(key, compute_event_id(m))}

IsTrust(trust) ==
    /\ trust = [n \in DOMAIN trust |-> trust[n]]
    /\ \A n \in DOMAIN trust : trust[n] \in [Keys -> {"none", "active", "revoked"}]

(***************************************************************************)
(* verify_message accepts what sign_message makes with a key that is       *)
(* active for the sender, and nothing else: a message that was changed in  *)
(* any field after it was signed, or signed with another agent's key, is   *)
(* refused.                                                                *)
(***************************************************************************)
THEOREM AcceptedIffSigned ==
  ASSUME NEW m, IsMessage(m), NoneIsNoFieldOf(m), NEW trust
  PROVE  verify_message(m, trust) <=>
            /\ ~m.did /\ <<m.from, FALSE>> \in DOMAIN trust
            /\ \E key \in Keys : /\ trust[<<m.from, FALSE>>][key] = "active"
                                 /\ m = sign_message(m, key, m.from)
<1>1. ASSUME verify_message(m, trust)
      PROVE  /\ ~m.did /\ <<m.from, FALSE>> \in DOMAIN trust
             /\ \E key \in Keys : /\ trust[<<m.from, FALSE>>][key] = "active"
                                  /\ m = sign_message(m, key, m.from)
  <2> DEFINE key == m.public_key_id.key
  <2>1. /\ key \in Keys /\ trust[<<m.from, FALSE>>][key] = "active"
        /\ m.signature = Signature(key, canonical(m))
    BY <1>1 DEF verify_message, KeyAccepted
  <2>2. m.public_key_id = make_key_id(m.from, key)
    BY <1>1 DEF verify_message, IsMessage, Field
  <2>3. m = sign_message(m, key, m.from)
    BY <2>1, <2>2 DEF sign_message, IsMessage
  <2>4. QED
    BY <1>1, <2>1, <2>3 DEF verify_message
<1>2. ASSUME ~m.did, <<m.from, FALSE>> \in DOMAIN trust, NEW key \in Keys,
             trust[<<m.from, FALSE>>][key] = "active", m = sign_message(m, key, m.from)
      PROVE  verify_message(m, trust)
  <2>1. /\ m.public_key_id = make_key_id(m.from, key)
        /\ m.signature = Signature(key, canonical(m))
    BY <1>2 DEF sign_message, IsMessage
  <2>2. Field(m, "public_key_id") /\ Field(m, "signature")
    BY <2>1 DEF Field, NoneIsNoFieldOf
  <2>3. m.public_key_id.key = key /\ m.public_key_id.agent = m.from
    BY <2>1 DEF make_key_id
  <2>4. QED
    BY <1>2, <2>1, <2>2, <2>3 DEF verify_message, KeyAccepted
<1>3. QED
  BY <1>1, <1>2

(***************************************************************************)
(* The same of verify_message_v31 and sign_message_v31, whether the trust  *)
(* list names the sender by its handle or by its DID, and whichever the    *)
(* message does.                                                           *)
(***************************************************************************)
THEOREM AcceptedIffSignedV31 ==
  ASSUME NEW m, IsMessage(m), NoneIsNoFieldOf(m), NEW trust
  PROVE  verify_message_v31(m, trust) <=>
            /\ NameOf(trust, m.from) \in DOMAIN trust
            /\ \E key \in Keys : /\ trust[NameOf(trust, m.from)][key] = "active"
                                 /\ m = sign_message_v31(m, key, m.from)
<1> DEFINE entry == trust[NameOf(trust, m.from)]
<1>1. ASSUME verify_message_v31(m, trust)
      PROVE  /\ NameOf(trust, m.from) \in DOMAIN trust
             /\ \E key \in Keys : entry[key] = "active" /\ m = sign_message_v31(m, key, m.from)
  <2> DEFINE key == m.public_key_id.key
  <2>1. /\ key \in Keys /\ entry[key] = "active" /\ m.event_id = compute_event_id(m)
        /\ m.signature = Signature(key, compute_event_id(m))
    BY <1>1 DEF verify_message_v31, KeyAccepted
  <2>2. m.public_key_id = make_key_id(m.from, key)
    BY <1>1 DEF verify_message_v31, IsMessage, Field
  <2>3. m = sign_message_v31(m, key, m.from)
    BY <2>1, <2>2 DEF sign_message_v31, IsMessage
  <2>4. QED
    BY <1>1, <2>1, <2>3 DEF verify_message_v31
<1>2. ASSUME NameOf(trust, m.from) \in DOMAIN trust, NEW key \in Keys,
             entry[key] = "active", m = sign_message_v31(m, key, m.from)
      PROVE  verify_message_v31(m, trust)
  <2>1. /\ m.public_key_id = make_key_id(m.from, key)
        /\ m.event_id = compute_event_id(m)
        /\ m.signature = Signature(key, compute_event_id(m))
    BY <1>2 DEF sign_message_v31, IsMessage
  <2>2. Field(m, "event_id") /\ Field(m, "public_key_id") /\ Field(m, "signature")
    BY <2>1 DEF Field, NoneIsNoFieldOf
  <2>3. m.public_key_id.key = key /\ m.public_key_id.agent = m.from
    BY <2>1 DEF make_key_id
  <2>4. QED
    BY <1>2, <2>1, <2>2, <2>3 DEF verify_message_v31, KeyAccepted
<1>3. QED
  BY <1>1, <1>2

-----------------------------------------------------------------------------
LEMMA DeactivateFacts ==
  ASSUME NEW trust, IsTrust(trust), NEW agent, NEW key \in Keys
  PROVE  LET after == trust_deactivate_key(trust, make_key_id(agent, key))
         IN  /\ DOMAIN after = DOMAIN trust
             /\ \A n \in DOMAIN trust, k \in Keys :
                   after[n][k] = "active" <=>
                      trust[n][k] = "active" /\ ~(n[1] = agent /\ k = key)
<1> DEFINE id == make_key_id(agent, key)
           after == trust_deactivate_key(trust, id)
<1>1. id.agent = agent /\ id.key = key
  BY DEF make_key_id
<1> HIDE DEF id
<1>2. DOMAIN after = DOMAIN trust
  BY DEF trust_deactivate_key
<1>3. ASSUME NEW n \in DOMAIN trust, NEW k \in Keys
      PROVE  after[n][k] = "active" <=> trust[n][k] = "active" /\ ~(n[1] = agent /\ k = key)
  <2>1. after[n] = IF n[1] = agent
                   THEN [trust[n] EXCEPT ![key] = IF @ = "active" THEN "revoked" ELSE @]
                   ELSE trust[n]
    BY <1>1 DEF trust_deactivate_key
  <2>2. trust[n] \in [Keys -> {"none", "active", "revoked"}]
    BY DEF IsTrust
  <2>3. CASE n[1] = agent
    BY <2>1, <2>2, <2>3
  <2>4. CASE n[1] # agent
    BY <2>1, <2>4
  <2>5. QED
    BY <2>3, <2>4
<1>4. QED
  BY <1>2, <1>3 DEF id

(***************************************************************************)
(* trust_deactivate_key takes back the messages that name the deactivated  *)
(* key id, in both versions and under whichever name the list has its      *)
(* owner, and no others: neither those of another key nor those that       *)
(* another agent signed with the same key pair.                            *)
(***************************************************************************)
THEOREM RevocationIsExact ==
  ASSUME NEW m, IsMessage(m), NEW trust, IsTrust(trust), NEW agent, NEW key \in Keys
  PROVE  LET id    == make_key_id(agent, key)
             after == trust_deactivate_key(trust, id)
         IN  /\ verify_message(m, after) <=>
                   verify_message(m, trust) /\ m.public_key_id # id
             /\ verify_message_v31(m, after) <=>
                   verify_message_v31(m, trust) /\ m.public_key_id # id
<1> DEFINE id == make_key_id(agent, key)
           after == trust_deactivate_key(trust, id)
           OfId == m.public_key_id.agent = agent /\ m.public_key_id.key = key
<1>1. Field(m, "public_key_id") => (m.public_key_id = id <=> OfId)
  <2>1. id.agent = agent /\ id.key = key
    BY DEF make_key_id
  <2>2. ASSUME Field(m, "public_key_id"), OfId PROVE m.public_key_id = id
    BY <2>2 DEF Field, IsMessage
  <2>3. QED
    BY <2>1, <2>2
<1>2. DOMAIN after = DOMAIN trust /\ NameOf(after, m.from) = NameOf(trust, m.from)
  BY DeactivateFacts DEF NameOf
<1>3. ASSUME NEW n \in DOMAIN trust, n[1] = m.public_key_id.agent, NEW payload
      PROVE  KeyAccepted(after[n], m, payload) <=> KeyAccepted(trust[n], m, payload) /\ ~OfId
  BY <1>3, DeactivateFacts DEF KeyAccepted
<1> HIDE DEF after, id, OfId
<1>4. verify_message(m, after) <=> verify_message(m, trust) /\ m.public_key_id # id
  <2>1. <<m.from, FALSE>>[1] = m.from
    OBVIOUS
  <2>2. QED
    BY <1>1, <1>2, <1>3, <2>1 DEF verify_message
<1>5. verify_message_v31(m, after) <=> verify_message_v31(m, trust) /\ m.public_key_id # id
  <2>1. NameOf(trust, m.from)[1] = m.from
    BY DEF NameOf
  <2>2. QED
    BY <1>1, <1>2, <1>3, <2>1 DEF verify_message_v31
<1>6. QED
  BY <1>4, <1>5 DEF after, id

-----------------------------------------------------------------------------
(***************************************************************************)
(* The versions do not mix: whatever a message is and whatever the trust   *)
(* lists say, verify_message and verify_message_v31 never both accept it.  *)
(* v3.1 signs the event_id, which v3.0 takes for one more field of what    *)
(* was signed.                                                             *)
(***************************************************************************)
THEOREM VersionsAreApart ==
  ASSUME NEW m, NEW trust, NEW trust31, verify_message(m, trust)
  PROVE  ~verify_message_v31(m, trust31)
<1> SUFFICES ASSUME verify_message_v31(m, trust31) PROVE FALSE
  OBVIOUS
<1>1. PICK k : m.signature = Signature(k, canonical(m))
  BY DEF verify_message, KeyAccepted
<1>2. PICK k31 : m.signature = Signature(k31, compute_event_id(m))
  BY DEF verify_message_v31, KeyAccepted
<1>3. canonical(m) = compute_event_id(m)
  BY <1>1, <1>2 DEF Signature
<1>4. "event_id" \in DOMAIN canonical(m) /\ "event_id" \notin DOMAIN compute_event_id(m)
  BY DEF canonical, compute_event_id, canonical_strict
<1>5. QED
  BY <1>3, <1>4
=============================================================================
