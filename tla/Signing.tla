------------------------------- MODULE Signing -------------------------------
(***************************************************************************)
(* v3/signing.py and v3.1/signing.py: how messages are signed and verified *)
(* in the two versions of the protocol.                                    *)
(*                                                                         *)
(* Ed25519 and SHA-256 are ideal: a signature is the key and the payload   *)
(* it was made of, a hash is what was hashed, a key id is the agent and    *)
(* the key.  The field that is absent is None.  A message's from field is  *)
(* a handle, or did:wire: and the handle.                                  *)
(***************************************************************************)
CONSTANTS
    Keys,    \* the key pairs
    None     \* an absent field

Field(m, f) == m[f] # None

\* v3.0 keeps event_id in the canonical form, v3.1 leaves it out.
canonical(m) == [from |-> m.from, did |-> m.did, body |-> m.body, event_id |-> m.event_id]
canonical_strict(m) == [from |-> m.from, did |-> m.did, body |-> m.body]
compute_event_id(m) == canonical_strict(m)

make_key_id(agent, key) == [agent |-> agent, key |-> key]
Signature(key, payload) == [key |-> key, over |-> payload]

Unsigned(from, did, body) ==
    [from |-> from, did |-> did, body |-> body,
     event_id |-> None, public_key_id |-> None, signature |-> None]

sign_message(m, key, agent) ==
    [m EXCEPT !.public_key_id = make_key_id(agent, key),
              !.signature = Signature(key, canonical(m))]

sign_message_v31(m, key, agent) ==
    [m EXCEPT !.event_id = compute_event_id(m),
              !.public_key_id = make_key_id(agent, key),
              !.signature = Signature(key, compute_event_id(m))]

-----------------------------------------------------------------------------
(* trust is the agents of trust.json: its entries are named by a handle    *)
(* <<h, FALSE>> or by did:wire: and a handle <<h, TRUE>>, and an entry is  *)
(* the state of each key, "none", "active" or "revoked".                   *)

KeyAccepted(entry, m, payload) ==
    /\ m.public_key_id.key \in Keys
    /\ entry[m.public_key_id.key] = "active"
    /\ m.signature = Signature(m.public_key_id.key, payload)

verify_message(m, trust) ==
    /\ Field(m, "public_key_id") /\ Field(m, "signature")
    /\ ~m.did /\ m.from = m.public_key_id.agent
    /\ <<m.from, FALSE>> \in DOMAIN trust
    /\ KeyAccepted(trust[<<m.from, FALSE>>], m, canonical(m))

\* agents.get(handle) or agents.get("did:wire:" + handle)
NameOf(trust, h) == <<h, <<h, FALSE>> \notin DOMAIN trust>>

verify_message_v31(m, trust) ==
    /\ Field(m, "event_id") /\ Field(m, "public_key_id") /\ Field(m, "signature")
    /\ m.event_id = compute_event_id(m)
    /\ m.from = m.public_key_id.agent
    /\ NameOf(trust, m.from) \in DOMAIN trust
    /\ KeyAccepted(trust[NameOf(trust, m.from)], m, m.event_id)

\* Only the entries of the key id's agent have a key of that id: the same key
\* pair pinned for another agent has another id and stays active.
trust_deactivate_key(trust, id) ==
    [n \in DOMAIN trust |->
        IF n[1] = id.agent
        THEN [trust[n] EXCEPT ![id.key] = IF @ = "active" THEN "revoked" ELSE @]
        ELSE trust[n]]
=============================================================================
