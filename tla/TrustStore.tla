------------------------------ MODULE TrustStore ------------------------------
(***************************************************************************)
(* The tiered trust store: v3.1/wire_trust.py and the key helpers of       *)
(* signing.py, used by several processes that load trust.json, change      *)
(* their copy and save it.  There is no lock; save_trust truncates the     *)
(* file and then writes it.                                                *)
(***************************************************************************)
EXTENDS Naturals

CONSTANTS
    Agents,      \* the handles in the store
    Keys,        \* the key ids; which agent they belong to does not matter here
    Procs,       \* the processes that use the store
    Threshold,   \* ATTESTATION_THRESHOLD
    MaxRecips    \* bound: reciprocations recorded for an agent

ASSUME BoundsAreNat == Threshold \in Nat \ {0} /\ MaxRecips \in Nat

VARIABLES
    store,     \* what was last written to trust.json
    whole,     \* can trust.json be parsed?
    mem,       \* mem[p]: the trust dict p works on
    pc,        \* Out; In, with a copy; Saving; Overlaid, when another save
               \* ended after p truncated the file
    legacy,    \* history: agents added while the store had no v3.1 schema
    fresh      \* history: the processes whose copy has every saved change

vars == <<store, whole, mem, pc, legacy, fresh>>

-----------------------------------------------------------------------------
TRUST_TIERS == {"UNTRUSTED", "VERIFIED", "ATTESTED", "TRUSTED"}
\* "Absent" is no entry and "None" an entry without a tier.
TIER_ORDER == [t \in TRUST_TIERS \cup {"Absent", "None"} |->
                  CASE t = "TRUSTED"  -> 3 [] t = "ATTESTED" -> 2
                    [] t = "VERIFIED" -> 1 [] OTHER -> 0]
KEY_ORDER == [k \in {"none", "active", "revoked"} |->
                  CASE k = "none" -> 0 [] k = "active" -> 1 [] OTHER -> 2]

Entry == [tier : DOMAIN TIER_ORDER, sas : BOOLEAN, recips : 0 .. MaxRecips,
          keys : [Keys -> DOMAIN KEY_ORDER]]
Trust == [v31 : BOOLEAN, agents : [Agents -> Entry]]
NoKeys == [k \in Keys |-> "none"]
NoEntry == [tier |-> "Absent", sas |-> FALSE, recips |-> 0, keys |-> NoKeys]
Has(t, a) == t.agents[a].tier # "Absent"
Set(t, a, e) == [t EXCEPT !.agents[a] = e]

-----------------------------------------------------------------------------
(* The functions of wire_trust.py and signing.py on a trust dict.          *)

Upgraded(e) == [tier |-> "ATTESTED", sas |-> FALSE, recips |-> 0, keys |-> e.keys]

upgrade_trust_to_v31(t) ==
    IF t.v31 THEN t
    ELSE [v31 |-> TRUE, agents |-> [a \in Agents |->
             IF t.agents[a].tier = "None" THEN Upgraded(t.agents[a]) ELSE t.agents[a]]]

\* A key id that is there, active or not, is left as it is.
WithKey(e, k) == [e EXCEPT !.keys[k] = IF @ = "none" THEN "active" ELSE @]

add_agent_card_pin(t0, a, k) ==
    LET t == upgrade_trust_to_v31(t0)
    IN  Set(t, a, WithKey(IF Has(t, a) THEN t.agents[a]
                          ELSE [NoEntry EXCEPT !.tier = "UNTRUSTED"], k))

\* The claimed SAS is the expected one; otherwise t is returned as it is.
verify_sas(t, a) ==
    IF Has(t, a) /\ TIER_ORDER[t.agents[a].tier] < TIER_ORDER["VERIFIED"]
    THEN Set(t, a, [t.agents[a] EXCEPT !.tier = "VERIFIED", !.sas = TRUE])
    ELSE t

CountsForAnybody(t, a) ==   \* mutant: the tier is not looked at
    LET e == [t.agents[a] EXCEPT !.recips = @ + 1]
    IN  IF ~Has(t, a) THEN t
        ELSE Set(t, a, IF e.recips >= Threshold THEN [e EXCEPT !.tier = "ATTESTED"] ELSE e)

CountsForNobody(t, a) == Set(t, a, [t.agents[a] EXCEPT !.recips = @ + 1])   \* mutant

record_reciprocation(t, a) ==
    IF ~Has(t, a) THEN t
    ELSE LET e == [t.agents[a] EXCEPT !.recips = @ + 1]
         IN  Set(t, a, IF e.tier = "VERIFIED" /\ e.recips >= Threshold
                       THEN [e EXCEPT !.tier = "ATTESTED"] ELSE e)

promote_to_trusted(t, a) ==
    IF Has(t, a) /\ TIER_ORDER[t.agents[a].tier] >= TIER_ORDER["ATTESTED"]
    THEN Set(t, a, [t.agents[a] EXCEPT !.tier = "TRUSTED"])
    ELSE t

trust_add_key(t, a, k) ==
    Set(t, a, WithKey(IF Has(t, a) THEN t.agents[a]
                      ELSE [NoEntry EXCEPT !.tier = "None"], k))

trust_deactivate_key(t, k) ==
    [t EXCEPT !.agents = [a \in Agents |->
        [t.agents[a] EXCEPT !.keys[k] = IF @ = "active" THEN "revoked" ELSE @]]]

get_tier(t, a) ==
    IF t.agents[a].tier \in TRUST_TIERS THEN t.agents[a].tier ELSE "UNTRUSTED"

\* Kinds 100, 10000 and 10001 are discovery, 1100 is the claim.
accept_kind_for_tier(kind, tier) ==
    \/ tier \in {"ATTESTED", "TRUSTED"}
    \/ tier = "VERIFIED" /\ kind # "claim"
    \/ tier = "UNTRUSTED" /\ kind = "discovery"

-----------------------------------------------------------------------------
Blank == [v31 |-> TRUE, agents |-> [a \in Agents |-> NoEntry]]
\* A store of v3.0, in which the agents of L have a key and no tier.
V30(L) == [v31 |-> FALSE, agents |-> [a \in Agents |->
              IF a \in L THEN [NoEntry EXCEPT !.tier = "None", !.keys = [k \in Keys |-> "active"]]
              ELSE NoEntry]]

\* An absent agent has no leftovers.
TypeOK ==
    /\ store \in Trust /\ mem \in [Procs -> Trust]
    /\ whole \in BOOLEAN
    /\ pc \in [Procs -> {"Out", "In", "Saving", "Overlaid"}]
    /\ legacy \subseteq Agents /\ fresh \subseteq Procs
    /\ \A t \in {store} \cup {mem[p] : p \in Procs} : \A a \in Agents :
          ~Has(t, a) => t.agents[a] = NoEntry

\* trust.json is missing or empty, or comes from v3.0.
Init ==
    /\ legacy \in SUBSET Agents
    /\ store \in {V30(legacy)} \cup {t \in {Blank} : legacy = {}}
    /\ whole = TRUE
    /\ mem = [p \in Procs |-> Blank]
    /\ pc = [p \in Procs |-> "Out"]
    /\ fresh = {}

-----------------------------------------------------------------------------
LoadedOrBlank == IF whole THEN {upgrade_trust_to_v31(store)} ELSE {Blank}   \* mutant
\* load_trust upgrades, a v3.0 program reads the JSON as it is; neither gets
\* past json.loads when the file is empty or garbled.
Loaded == IF whole THEN {store, upgrade_trust_to_v31(store)} ELSE {}

Load(p) ==
    /\ pc[p] = "Out"
    /\ \E t \in Loaded : mem' = [mem EXCEPT ![p] = t]
    /\ pc' = [pc EXCEPT ![p] = "In"]
    /\ fresh' = fresh \cup {p}
    /\ UNCHANGED <<store, whole, legacy>>

Edit(p, t) ==
    /\ pc[p] = "In"
    /\ mem' = [mem EXCEPT ![p] = t]
    /\ UNCHANGED <<store, whole, pc, fresh>>

Pin(p, a, k) == Edit(p, add_agent_card_pin(mem[p], a, k)) /\ UNCHANGED legacy
VerifySas(p, a) == Edit(p, verify_sas(mem[p], a)) /\ UNCHANGED legacy
Reciprocate(p, a) ==
    /\ mem[p].agents[a].recips < MaxRecips
    /\ Edit(p, record_reciprocation(mem[p], a)) /\ UNCHANGED legacy
Promote(p, a) == Edit(p, promote_to_trusted(mem[p], a)) /\ UNCHANGED legacy
AddKey(p, a, k) ==
    /\ Edit(p, trust_add_key(mem[p], a, k))
    /\ legacy' = IF mem[p].v31 THEN legacy ELSE legacy \cup {a}
Deactivate(p, k) == Edit(p, trust_deactivate_key(mem[p], k)) /\ UNCHANGED legacy

\* write_text opens the file with O_TRUNC ...
SaveBegins(p) ==
    /\ pc[p] = "In"
    /\ whole' = FALSE
    /\ pc' = [pc EXCEPT ![p] = "Saving"]
    /\ UNCHANGED <<store, mem, legacy, fresh>>

\* ... and writes from its start; over a longer text the end of that remains.
SaveEnds(p) ==
    /\ pc[p] \in {"Saving", "Overlaid"}
    /\ whole' \in IF pc[p] = "Saving" THEN {TRUE} ELSE BOOLEAN
    /\ store' = mem[p]
    /\ fresh' = {p}
    /\ pc' = [q \in Procs |-> CASE q = p -> "In"
                                [] q # p /\ pc[q] = "Saving" -> "Overlaid"
                                [] OTHER -> pc[q]]
    /\ UNCHANGED <<mem, legacy>>

\* The process ends, or dies in the middle of a save.
Leave(p) ==
    /\ pc[p] # "Out"
    /\ pc' = [pc EXCEPT ![p] = "Out"]
    /\ mem' = [mem EXCEPT ![p] = Blank]
    /\ fresh' = fresh \ {p}
    /\ UNCHANGED <<store, whole, legacy>>

Next ==
    \E p \in Procs :
        \/ Load(p) \/ SaveBegins(p) \/ SaveEnds(p) \/ Leave(p)
        \/ \E a \in Agents : VerifySas(p, a) \/ Reciprocate(p, a) \/ Promote(p, a)
        \/ \E a \in Agents, k \in Keys : Pin(p, a, k) \/ AddKey(p, a, k)
        \/ \E k \in Keys : Deactivate(p, k)

Spec == Init /\ [][Next]_vars

-----------------------------------------------------------------------------
(* Properties.                                                             *)

Earned(t) ==
    \A a \in Agents :
        /\ accept_kind_for_tier("claim", get_tier(t, a)) =>
              a \in legacy \/ (t.agents[a].sas /\ t.agents[a].recips >= Threshold)
        /\ accept_kind_for_tier("regular", get_tier(t, a)) =>
              a \in legacy \/ t.agents[a].sas

(***************************************************************************)
(* In the file and in every copy, an agent that was not in the store of    *)
(* v3.0 has its claims accepted only after an SAS check and Threshold      *)
(* reciprocations, in whatever order those came and whoever saved over     *)
(* whom, and its other messages only after the SAS check.                  *)
(***************************************************************************)
AcceptanceIsEarned == Earned(store) /\ \A p \in Procs : Earned(mem[p])

\* Nothing that s says of an agent is undone in t: its tier, its SAS check,
\* its reciprocations, its keys and their revocations.
Keeps(s, t) ==
    \A a \in Agents :
        LET d == s.agents[a]  e == t.agents[a]
        IN  /\ TIER_ORDER[d.tier] <= TIER_ORDER[e.tier]
            /\ d.sas => e.sas
            /\ d.recips <= e.recips \/ d.tier = "None"
            /\ \A k \in Keys : KEY_ORDER[d.keys[k]] <= KEY_ORDER[e.keys[k]]

(***************************************************************************)
(* A save from a copy that has every saved change undoes none of them,     *)
(* whatever calls were made on the copy and whichever save was cut short   *)
(* by a crash before it was loaded.  (A save from an older copy does undo  *)
(* what was saved since: nothing prevents it.)                             *)
(***************************************************************************)
FreshSaveKeepsUpdates ==
    [][\A p \in Procs : SaveEnds(p) /\ p \in fresh => Keeps(store, store')]_vars
=============================================================================
