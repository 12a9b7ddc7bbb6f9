--------------------------- MODULE TrustStoreProofs ---------------------------
(***************************************************************************)
(* Proofs about TrustStore, for any agents, keys, processes and threshold. *)
(***************************************************************************)
EXTENDS TrustStore, TLAPS

LEMMA Orders ==
  /\ TIER_ORDER["Absent"] = 0 /\ TIER_ORDER["None"] = 0 /\ TIER_ORDER["UNTRUSTED"] = 0
  /\ TIER_ORDER["VERIFIED"] = 1 /\ TIER_ORDER["ATTESTED"] = 2 /\ TIER_ORDER["TRUSTED"] = 3
  /\ DOMAIN TIER_ORDER = {"Absent", "None", "UNTRUSTED", "VERIFIED", "ATTESTED", "TRUSTED"}
  /\ KEY_ORDER["none"] = 0 /\ KEY_ORDER["active"] = 1 /\ KEY_ORDER["revoked"] = 2
  /\ DOMAIN KEY_ORDER = {"none", "active", "revoked"}
  BY DEF TIER_ORDER, KEY_ORDER, TRUST_TIERS

-----------------------------------------------------------------------------
(* What a trust dict is when the agents of L were added before v3.1.       *)

Earns(t, a, L) ==
    LET e == t.agents[a]
    IN  /\ e.tier = "VERIFIED" => a \in L \/ e.sas
        /\ e.tier \in {"ATTESTED", "TRUSTED"} => a \in L \/ (e.sas /\ e.recips >= Threshold)
        /\ e.tier = "None" => ~e.sas /\ (t.v31 \/ a \in L)

Good(t, L) ==
    /\ t \in Trust
    /\ \A a \in Agents : Has(t, a) \/ t.agents[a] = NoEntry
    /\ \A a \in Agents : Earns(t, a, L)

LEMMA BlankFacts ==
  /\ NoEntry \in Entry
  /\ \A L \in SUBSET Agents : Good(Blank, L) /\ Good(V30(L), L)
<1>1. NoEntry \in Entry
  BY Orders, BoundsAreNat DEF NoEntry, NoKeys, Entry
<1>2. ASSUME NEW L \in SUBSET Agents PROVE Good(Blank, L)
  BY <1>1, <1>2 DEF Blank, Good, Trust, Has, Earns, NoEntry
<1>3. ASSUME NEW L \in SUBSET Agents PROVE Good(V30(L), L)
  <2> DEFINE e == [NoEntry EXCEPT !.tier = "None", !.keys = [k \in Keys |-> "active"]]
  <2>1. e \in Entry /\ e.tier = "None" /\ ~e.sas
    BY <1>1, Orders DEF Entry, NoEntry
  <2>2. /\ V30(L) = [v31 |-> FALSE, agents |-> [a \in Agents |-> IF a \in L THEN e ELSE NoEntry]]
        /\ NoEntry.tier = "Absent" /\ ~NoEntry.sas
    BY DEF V30, NoEntry
  <2> HIDE DEF e
  <2>3. QED
    BY <1>1, <2>1, <2>2 DEF Good, Trust, Has, Earns
<1>4. QED
  BY <1>1, <1>2, <1>3

\* Replacing the entry of a.
LEMMA SetFacts ==
  ASSUME NEW t \in Trust, NEW a \in Agents, NEW e \in Entry
  PROVE  /\ Set(t, a, e) \in Trust
         /\ Set(t, a, e).v31 = t.v31
         /\ Set(t, a, e).agents[a] = e
         /\ \A b \in Agents \ {a} : Set(t, a, e).agents[b] = t.agents[b]
  BY DEF Set, Trust

\* What an entry keeps of another; the last conjunct makes it transitive.
KeepsEntry(d, e) ==
    /\ TIER_ORDER[d.tier] <= TIER_ORDER[e.tier]
    /\ d.sas => e.sas
    /\ d.recips <= e.recips \/ d.tier = "None"
    /\ \A k \in Keys : KEY_ORDER[d.keys[k]] <= KEY_ORDER[e.keys[k]]
    /\ e.tier = "None" => d.tier = "None" \/ d.recips = 0

KeepsAll(t, u) == \A a \in Agents : KeepsEntry(t.agents[a], u.agents[a])

LEMMA KeepsReflexive == ASSUME NEW e \in Entry PROVE KeepsEntry(e, e)
<1>1. ASSUME NEW k \in Keys PROVE KEY_ORDER[e.keys[k]] <= KEY_ORDER[e.keys[k]]
  BY Orders DEF Entry
<1>2. TIER_ORDER[e.tier] <= TIER_ORDER[e.tier] /\ e.recips <= e.recips
  BY Orders, BoundsAreNat DEF Entry
<1>3. QED
  BY <1>1, <1>2 DEF KeepsEntry

LEMMA KeepsTransitive ==
  ASSUME NEW t \in Trust, NEW u \in Trust, NEW v \in Trust, KeepsAll(t, u), KeepsAll(u, v)
  PROVE  KeepsAll(t, v)
<1> SUFFICES ASSUME NEW a \in Agents PROVE KeepsEntry(t.agents[a], v.agents[a])
  BY DEF KeepsAll
<1>1. PICK d \in Entry, e \in Entry, f \in Entry :
         d = t.agents[a] /\ e = u.agents[a] /\ f = v.agents[a]
  BY DEF Trust
<1>2. KeepsEntry(d, e) /\ KeepsEntry(e, f)
  BY <1>1 DEF KeepsAll
<1>3. ASSUME NEW k \in Keys PROVE KEY_ORDER[d.keys[k]] <= KEY_ORDER[f.keys[k]]
  BY <1>2, Orders DEF KeepsEntry, Entry
<1>4. TIER_ORDER[d.tier] <= TIER_ORDER[f.tier] /\ (d.sas => f.sas)
  BY <1>2, Orders DEF KeepsEntry, Entry
<1>5. /\ d.recips <= f.recips \/ d.tier = "None"
      /\ f.tier = "None" => d.tier = "None" \/ d.recips = 0
  BY <1>2, BoundsAreNat DEF KeepsEntry, Entry
<1>6. QED
  BY <1>1, <1>3, <1>4, <1>5 DEF KeepsEntry

\* A dict keeps what another says if it differs in one entry that does.
LEMMA KeepsSet ==
  ASSUME NEW t \in Trust, NEW a \in Agents, NEW e \in Entry, KeepsEntry(t.agents[a], e)
  PROVE  KeepsAll(t, Set(t, a, e))
<1>1. ASSUME NEW b \in Agents PROVE KeepsEntry(t.agents[b], Set(t, a, e).agents[b])
  <2>1. t.agents[b] \in Entry
    BY DEF Trust
  <2>2. QED
    BY <2>1, SetFacts, KeepsReflexive
<1>2. QED
  BY <1>1 DEF KeepsAll

\* Entries that are replaced, the others kept, leave a good dict good.
LEMMA GoodSet ==
  ASSUME NEW t, NEW L, Good(t, L), NEW a \in Agents, NEW e \in Entry,
         e.tier # "Absent",
         e.tier = "VERIFIED" => a \in L \/ e.sas,
         e.tier \in {"ATTESTED", "TRUSTED"} => a \in L \/ (e.sas /\ e.recips >= Threshold),
         e.tier = "None" => ~e.sas /\ (t.v31 \/ a \in L)
  PROVE  Good(Set(t, a, e), L)
<1>1. t \in Trust
  BY DEF Good
<1> DEFINE u == Set(t, a, e)
<1>2. /\ u \in Trust /\ u.v31 = t.v31 /\ u.agents[a] = e
      /\ \A b \in Agents \ {a} : u.agents[b] = t.agents[b]
  BY <1>1, SetFacts
<1> HIDE DEF u
<1>3. QED
  BY <1>2 DEF Good, Has, Earns, u

-----------------------------------------------------------------------------
(* The functions of wire_trust.py and signing.py.                          *)

LEMMA UpgradedFacts ==
  ASSUME NEW e \in Entry
  PROVE  /\ Upgraded(e) \in Entry /\ Upgraded(e).tier = "ATTESTED"
         /\ Upgraded(e).keys = e.keys
  BY Orders, BoundsAreNat DEF Entry, Upgraded

LEMMA UpgradeFacts ==
  ASSUME NEW t, NEW L, Good(t, L)
  PROVE  Good(upgrade_trust_to_v31(t), L) /\ KeepsAll(t, upgrade_trust_to_v31(t))
<1> DEFINE u == upgrade_trust_to_v31(t)
<1>1. t \in Trust /\ \A a \in Agents : t.agents[a] \in Entry
  BY DEF Good, Trust
<1>2. CASE t.v31
  BY <1>1, <1>2, KeepsReflexive DEF upgrade_trust_to_v31, KeepsAll
<1>3. CASE ~t.v31
  <2>1. u = [v31 |-> TRUE, agents |-> [a \in Agents |->
                IF t.agents[a].tier = "None" THEN Upgraded(t.agents[a]) ELSE t.agents[a]]]
    BY <1>3 DEF upgrade_trust_to_v31
  <2>2. ASSUME NEW a \in Agents
        PROVE  /\ Upgraded(t.agents[a]) \in Entry /\ Upgraded(t.agents[a]).tier = "ATTESTED"
               /\ Upgraded(t.agents[a]).keys = t.agents[a].keys
    BY <1>1, UpgradedFacts
  <2> HIDE DEF u
  <2>3. u \in Trust /\ u.v31
    BY <1>1, <2>1, <2>2 DEF Trust
  <2>4. ASSUME NEW a \in Agents
        PROVE  u.agents[a] = IF t.agents[a].tier = "None" THEN Upgraded(t.agents[a]) ELSE t.agents[a]
    BY <2>1
  <2>5. ASSUME NEW a \in Agents, t.agents[a].tier = "None"
        PROVE  a \in L /\ ~ t.agents[a].sas
    BY <1>3, <2>5 DEF Good, Earns
  <2>6. Good(u, L)
    BY <1>1, <2>2, <2>3, <2>4, <2>5 DEF Good, Has, Earns
  <2>7. ASSUME NEW a \in Agents PROVE KeepsEntry(t.agents[a], u.agents[a])
    <3>1. CASE t.agents[a].tier # "None"
      BY <1>1, <2>4, <3>1, KeepsReflexive
    <3>2. CASE t.agents[a].tier = "None"
      <4>1. \A k \in Keys : KEY_ORDER[t.agents[a].keys[k]] <= KEY_ORDER[u.agents[a].keys[k]]
        BY <1>1, <2>2, <2>4, <3>2, KeepsReflexive DEF KeepsEntry
      <4>2. QED
        BY <2>2, <2>4, <2>5, <3>2, <4>1, Orders DEF KeepsEntry
    <3>3. QED
      BY <3>1, <3>2
  <2>8. QED
    BY <2>6, <2>7 DEF KeepsAll, u
<1>4. QED
  BY <1>2, <1>3

\* Adding a key to an entry that keeps what c says.
LEMMA WithKeyFacts ==
  ASSUME NEW c \in Entry, NEW d \in Entry, KeepsEntry(c, d), NEW k \in Keys
  PROVE  /\ WithKey(d, k) \in Entry /\ KeepsEntry(c, WithKey(d, k))
         /\ WithKey(d, k).tier = d.tier /\ WithKey(d, k).sas = d.sas
         /\ WithKey(d, k).recips = d.recips
<1> DEFINE e == WithKey(d, k)
<1>1. /\ e \in Entry /\ e.tier = d.tier /\ e.sas = d.sas /\ e.recips = d.recips
      /\ e.keys = [d.keys EXCEPT ![k] = IF @ = "none" THEN "active" ELSE @]
  BY Orders DEF WithKey, Entry
<1> HIDE DEF e
<1>2. \A j \in Keys : KEY_ORDER[c.keys[j]] <= KEY_ORDER[e.keys[j]]
  BY <1>1, Orders DEF Entry, KeepsEntry
<1>3. QED
  BY <1>1, <1>2 DEF KeepsEntry, e

LEMMA NewEntry ==
  ASSUME NEW T \in {"UNTRUSTED", "None"}
  PROVE  LET e == [NoEntry EXCEPT !.tier = T]
         IN  e \in Entry /\ e.tier = T /\ ~e.sas /\ KeepsEntry(NoEntry, e)
<1>1. NoEntry \in Entry
  BY BlankFacts
<1>2. [NoEntry EXCEPT !.tier = T] \in Entry
  BY <1>1, Orders DEF Entry
<1>3. \A k \in Keys : KEY_ORDER[NoEntry.keys[k]] <= KEY_ORDER[NoEntry.keys[k]]
  BY <1>1, KeepsReflexive DEF KeepsEntry
<1>4. QED
  BY <1>1, <1>2, <1>3, Orders DEF KeepsEntry, NoEntry

\* A key is added to the entry of a, or to a new one of tier T.
LEMMA AddedFacts ==
  ASSUME NEW t, NEW L, Good(t, L), NEW a \in Agents, NEW k \in Keys,
         NEW T \in {"UNTRUSTED", "None"}, T = "None" => t.v31 \/ a \in L
  PROVE  LET d == IF Has(t, a) THEN t.agents[a] ELSE [NoEntry EXCEPT !.tier = T]
             u == Set(t, a, WithKey(d, k))
         IN  Good(u, L) /\ KeepsAll(t, u)
<1> DEFINE d == IF Has(t, a) THEN t.agents[a] ELSE [NoEntry EXCEPT !.tier = T]
           e == WithKey(d, k)
<1>1. t \in Trust /\ t.agents[a] \in Entry
  BY DEF Good, Trust
<1>2. d \in Entry /\ KeepsEntry(t.agents[a], d) /\ d.tier # "Absent"
  BY <1>1, NewEntry, KeepsReflexive DEF Good, Has
<1>3. /\ d.tier = "VERIFIED" => a \in L \/ d.sas
      /\ d.tier \in {"ATTESTED", "TRUSTED"} => a \in L \/ (d.sas /\ d.recips >= Threshold)
      /\ d.tier = "None" => ~d.sas /\ (t.v31 \/ a \in L)
  BY NewEntry DEF Good, Earns
<1> HIDE DEF d
<1>4. /\ e \in Entry /\ e.tier = d.tier /\ e.sas = d.sas /\ e.recips = d.recips
      /\ KeepsEntry(t.agents[a], e)
  BY <1>1, <1>2, WithKeyFacts
<1> HIDE DEF e
<1>5. Good(Set(t, a, e), L)
  BY <1>2, <1>3, <1>4, GoodSet
<1>6. KeepsAll(t, Set(t, a, e))
  BY <1>1, <1>4, KeepsSet
<1>7. QED
  BY <1>5, <1>6 DEF d, e

LEMMA AddKeyFacts ==
  ASSUME NEW t, NEW L, Good(t, L), NEW a \in Agents, NEW k \in Keys
  PROVE  /\ Good(trust_add_key(t, a, k), IF t.v31 THEN L ELSE L \cup {a})
         /\ KeepsAll(t, trust_add_key(t, a, k))
<1>1. PICK M : M = IF t.v31 THEN L ELSE L \cup {a}
  OBVIOUS
<1>2. Good(t, M) /\ (t.v31 \/ a \in M)
  BY <1>1 DEF Good, Earns
<1>3. QED
  BY <1>1, <1>2, AddedFacts DEF trust_add_key

LEMMA PinFacts ==
  ASSUME NEW t, NEW L, Good(t, L), NEW a \in Agents, NEW k \in Keys
  PROVE  Good(add_agent_card_pin(t, a, k), L) /\ KeepsAll(t, add_agent_card_pin(t, a, k))
<1>1. PICK v : v = upgrade_trust_to_v31(t)
  OBVIOUS
<1>2. Good(v, L) /\ KeepsAll(t, v)
  BY <1>1, UpgradeFacts
<1>3. v.agents[a].tier = "Absent" <=> t.agents[a].tier = "Absent"
  BY <1>1 DEF upgrade_trust_to_v31, Upgraded, Good, Trust
<1>4. PICK u : u = add_agent_card_pin(t, a, k)
  OBVIOUS
<1>5. u = Set(v, a, WithKey(IF Has(v, a) THEN v.agents[a]
                            ELSE [NoEntry EXCEPT !.tier = "UNTRUSTED"], k))
  BY <1>1, <1>3, <1>4 DEF add_agent_card_pin, Has
<1>6. Good(u, L) /\ KeepsAll(v, u)
  BY <1>2, <1>5, AddedFacts
<1>7. QED
  BY <1>2, <1>4, <1>6, KeepsTransitive DEF Good

\* The entry of a is replaced by one that only adds to it.
LEMMA RaisedFacts ==
  ASSUME NEW t, NEW L, Good(t, L), NEW a \in Agents, Has(t, a),
         NEW e, e = [tier |-> e.tier, sas |-> e.sas, recips |-> e.recips, keys |-> t.agents[a].keys],
         e.tier \in TRUST_TIERS \cup {"None"}, e.sas \in BOOLEAN, e.recips \in 0 .. MaxRecips,
         TIER_ORDER[t.agents[a].tier] <= TIER_ORDER[e.tier],
         t.agents[a].sas => e.sas,
         t.agents[a].recips <= e.recips,
         e.tier = "None" => t.agents[a].tier = "None" /\ e.sas = t.agents[a].sas,
         e.tier = "VERIFIED" => a \in L \/ e.sas,
         e.tier \in {"ATTESTED", "TRUSTED"} => a \in L \/ (e.sas /\ e.recips >= Threshold)
  PROVE  Good(Set(t, a, e), L) /\ KeepsAll(t, Set(t, a, e))
<1>1. t \in Trust /\ t.agents[a] \in Entry
  BY DEF Good, Trust
<1>2. e \in Entry /\ e.keys = t.agents[a].keys /\ e.tier # "Absent"
  BY <1>1, Orders DEF Entry, TRUST_TIERS
<1>3. \A k \in Keys : KEY_ORDER[t.agents[a].keys[k]] <= KEY_ORDER[e.keys[k]]
  BY <1>1, <1>2, KeepsReflexive DEF KeepsEntry
<1>4. KeepsEntry(t.agents[a], e)
  BY <1>3 DEF KeepsEntry
<1>5. e.tier = "None" => ~e.sas /\ (t.v31 \/ a \in L)
  BY DEF Good, Earns
<1>6. QED
  BY <1>1, <1>2, <1>4, <1>5, GoodSet, KeepsSet

LEMMA UnchangedFacts ==
  ASSUME NEW t, NEW L, Good(t, L) PROVE KeepsAll(t, t)
  BY KeepsReflexive DEF KeepsAll, Good, Trust

LEMMA VerifyFacts ==
  ASSUME NEW t, NEW L, Good(t, L), NEW a \in Agents
  PROVE  Good(verify_sas(t, a), L) /\ KeepsAll(t, verify_sas(t, a))
<1>1. PICK e : e = [t.agents[a] EXCEPT !.tier = "VERIFIED", !.sas = TRUE]
  OBVIOUS
<1>2. t.agents[a] \in Entry
  BY DEF Good, Trust
<1>3. /\ e = [tier |-> e.tier, sas |-> e.sas, recips |-> e.recips, keys |-> t.agents[a].keys]
      /\ e.tier = "VERIFIED" /\ e.sas /\ e.recips = t.agents[a].recips
  BY <1>1, <1>2 DEF Entry
<1>4. CASE Has(t, a) /\ TIER_ORDER[t.agents[a].tier] < TIER_ORDER["VERIFIED"]
  <2>1. /\ e.tier \in TRUST_TIERS \cup {"None"} /\ e.sas \in BOOLEAN /\ e.recips \in 0 .. MaxRecips
        /\ TIER_ORDER[t.agents[a].tier] <= TIER_ORDER[e.tier]
        /\ t.agents[a].recips <= e.recips
    BY <1>2, <1>3, <1>4, Orders, BoundsAreNat DEF Entry, TRUST_TIERS
  <2>2. Good(Set(t, a, e), L) /\ KeepsAll(t, Set(t, a, e))
    BY <1>3, <1>4, <2>1, RaisedFacts
  <2>3. QED
    BY <1>1, <1>4, <2>2 DEF verify_sas
<1>5. QED
  BY <1>4, UnchangedFacts DEF verify_sas

LEMMA ReciprocateFacts ==
  ASSUME NEW t, NEW L, Good(t, L), NEW a \in Agents, t.agents[a].recips < MaxRecips
  PROVE  Good(record_reciprocation(t, a), L) /\ KeepsAll(t, record_reciprocation(t, a))
<1> DEFINE d == t.agents[a]
<1>1. PICK e : e = [d EXCEPT !.recips = @ + 1]
  OBVIOUS
<1>2. PICK f : f = IF e.tier = "VERIFIED" /\ e.recips >= Threshold
                   THEN [e EXCEPT !.tier = "ATTESTED"] ELSE e
  OBVIOUS
<1>3. d \in Entry
  BY DEF Good, Trust
<1>4. e = [tier |-> d.tier, sas |-> d.sas, recips |-> d.recips + 1, keys |-> d.keys]
  BY <1>1, <1>3 DEF Entry
<1>5. f = [tier |-> f.tier, sas |-> d.sas, recips |-> d.recips + 1, keys |-> d.keys]
  BY <1>2, <1>4
<1>6. f.tier = IF d.tier = "VERIFIED" /\ d.recips + 1 >= Threshold THEN "ATTESTED" ELSE d.tier
  BY <1>2, <1>4
<1>7. d.recips \in Nat /\ d.recips + 1 \in 0 .. MaxRecips /\ d.recips <= d.recips + 1
  BY <1>3, BoundsAreNat DEF Entry
<1>8. CASE Has(t, a)
  <2>1. /\ f.tier \in TRUST_TIERS \cup {"None"}
        /\ TIER_ORDER[d.tier] <= TIER_ORDER[f.tier]
    BY <1>3, <1>6, <1>8, Orders DEF Entry, TRUST_TIERS, Has
  <2>2. f.tier = "VERIFIED" => a \in L \/ d.sas
    BY <1>6 DEF Good, Earns
  <2>3. f.tier \in {"ATTESTED", "TRUSTED"} => a \in L \/ (d.sas /\ d.recips + 1 >= Threshold)
    <3>1. CASE d.tier \in {"ATTESTED", "TRUSTED"}
      BY <1>7, <3>1, BoundsAreNat DEF Good, Earns
    <3>2. CASE d.tier = "VERIFIED" /\ d.recips + 1 >= Threshold
      BY <3>2 DEF Good, Earns
    <3>3. QED
      BY <1>6, <3>1, <3>2
  <2>4. f.tier = "None" => d.tier = "None"
    BY <1>6
  <2>5. d.sas \in BOOLEAN /\ f.sas = d.sas /\ f.recips = d.recips + 1
    BY <1>3, <1>5 DEF Entry
  <2> HIDE DEF d
  <2>6. Good(Set(t, a, f), L) /\ KeepsAll(t, Set(t, a, f))
    BY <1>5, <1>7, <1>8, <2>1, <2>2, <2>3, <2>4, <2>5, RaisedFacts DEF d
  <2>7. QED
    BY <1>1, <1>2, <1>8, <2>6 DEF record_reciprocation, d
<1>9. QED
  BY <1>8, UnchangedFacts DEF record_reciprocation

LEMMA PromoteFacts ==
  ASSUME NEW t, NEW L, Good(t, L), NEW a \in Agents
  PROVE  Good(promote_to_trusted(t, a), L) /\ KeepsAll(t, promote_to_trusted(t, a))
<1>1. PICK e : e = [t.agents[a] EXCEPT !.tier = "TRUSTED"]
  OBVIOUS
<1>2. t.agents[a] \in Entry
  BY DEF Good, Trust
<1>3. /\ e = [tier |-> e.tier, sas |-> e.sas, recips |-> e.recips, keys |-> t.agents[a].keys]
      /\ e.tier = "TRUSTED" /\ e.sas = t.agents[a].sas /\ e.recips = t.agents[a].recips
  BY <1>1, <1>2 DEF Entry
<1>4. CASE Has(t, a) /\ TIER_ORDER[t.agents[a].tier] >= TIER_ORDER["ATTESTED"]
  <2>1. /\ e.tier \in TRUST_TIERS \cup {"None"} /\ e.sas \in BOOLEAN /\ e.recips \in 0 .. MaxRecips
        /\ TIER_ORDER[t.agents[a].tier] <= TIER_ORDER[e.tier]
        /\ t.agents[a].recips <= e.recips
        /\ t.agents[a].tier \in {"ATTESTED", "TRUSTED"}
    BY <1>2, <1>3, <1>4, Orders, BoundsAreNat DEF Entry, TRUST_TIERS
  <2>2. a \in L \/ (e.sas /\ e.recips >= Threshold)
    BY <1>3, <2>1 DEF Good, Earns
  <2>3. Good(Set(t, a, e), L) /\ KeepsAll(t, Set(t, a, e))
    BY <1>3, <1>4, <2>1, <2>2, RaisedFacts
  <2>4. QED
    BY <1>1, <1>4, <2>3 DEF promote_to_trusted
<1>5. QED
  BY <1>4, UnchangedFacts DEF promote_to_trusted

Deactivated(e, k) == [e EXCEPT !.keys[k] = IF @ = "active" THEN "revoked" ELSE @]

LEMMA DeactivatedFacts ==
  ASSUME NEW d \in Entry, NEW k \in Keys
  PROVE  /\ Deactivated(d, k) \in Entry /\ KeepsEntry(d, Deactivated(d, k))
         /\ Deactivated(d, k).tier = d.tier /\ Deactivated(d, k).sas = d.sas
         /\ Deactivated(d, k).recips = d.recips
<1> DEFINE e == Deactivated(d, k)
<1>1. /\ e \in Entry /\ e.tier = d.tier /\ e.sas = d.sas /\ e.recips = d.recips
      /\ e.keys = [d.keys EXCEPT ![k] = IF @ = "active" THEN "revoked" ELSE @]
  BY Orders DEF Deactivated, Entry
<1> HIDE DEF e
<1>2. \A j \in Keys : KEY_ORDER[d.keys[j]] <= KEY_ORDER[e.keys[j]]
  BY <1>1, Orders DEF Entry
<1>3. d.recips <= e.recips /\ TIER_ORDER[d.tier] <= TIER_ORDER[e.tier]
  BY <1>1, Orders, BoundsAreNat DEF Entry
<1>4. QED
  BY <1>1, <1>2, <1>3 DEF KeepsEntry, e

LEMMA DeactivateFacts ==
  ASSUME NEW t, NEW L, Good(t, L), NEW k \in Keys
  PROVE  Good(trust_deactivate_key(t, k), L) /\ KeepsAll(t, trust_deactivate_key(t, k))
<1>1. PICK u : u = trust_deactivate_key(t, k)
  OBVIOUS
<1>2. t \in Trust /\ \A a \in Agents : t.agents[a] \in Entry
  BY DEF Good, Trust
<1>3. u = [t EXCEPT !.agents = [a \in Agents |-> Deactivated(t.agents[a], k)]]
  BY <1>1 DEF trust_deactivate_key, Deactivated
<1>4. u \in Trust /\ u.v31 = t.v31 /\ \A a \in Agents : u.agents[a] = Deactivated(t.agents[a], k)
  BY <1>2, <1>3, DeactivatedFacts DEF Trust
<1>5. ASSUME NEW a \in Agents, ~Has(t, a) PROVE u.agents[a] = NoEntry
  <2>1. Deactivated(NoEntry, k) = NoEntry
    <3>1. [NoKeys EXCEPT ![k] = IF @ = "active" THEN "revoked" ELSE @] = NoKeys
      BY DEF NoKeys
    <3>2. NoEntry.keys = NoKeys
      BY DEF NoEntry
    <3>3. [NoEntry EXCEPT !.keys = NoKeys] = NoEntry
      BY <3>2, BlankFacts DEF Entry
    <3>4. QED
      BY <3>1, <3>2, <3>3 DEF Deactivated
  <2>2. QED
    BY <1>4, <1>5, <2>1 DEF Good
<1>6. ASSUME NEW a \in Agents
      PROVE  /\ u.agents[a].tier = t.agents[a].tier /\ u.agents[a].sas = t.agents[a].sas
             /\ u.agents[a].recips = t.agents[a].recips
  BY <1>2, <1>4, DeactivatedFacts
<1>7. \A a \in Agents : Earns(u, a, L)
  BY <1>4, <1>6 DEF Good, Earns
<1>8. \A a \in Agents : Has(u, a) \/ u.agents[a] = NoEntry
  BY <1>5, <1>6, Zenon DEF Has
<1>9. Good(u, L)
  BY <1>4, <1>7, <1>8, Zenon DEF Good
<1>10. KeepsAll(t, u)
  <2>1. ASSUME NEW a \in Agents PROVE KeepsEntry(t.agents[a], u.agents[a])
    BY <1>2, <1>4, DeactivatedFacts, Zenon
  <2>2. QED
    BY <2>1, Zenon DEF KeepsAll
<1>11. QED
  BY <1>1, <1>9, <1>10, Zenon

-----------------------------------------------------------------------------
(* The inductive invariant and the theorems.                               *)

Copies ==
    /\ whole \in BOOLEAN
    /\ pc \in [Procs -> {"Out", "In", "Saving", "Overlaid"}]
    /\ legacy \subseteq Agents /\ fresh \subseteq Procs
    /\ DOMAIN mem = Procs /\ mem = [p \in Procs |-> mem[p]]
    /\ Good(store, legacy)
    /\ \A p \in Procs : Good(mem[p], legacy)
    /\ \A p \in fresh : KeepsAll(store, mem[p])

LEMMA CopiesInit == Init => Copies
<1> SUFFICES ASSUME Init PROVE Copies
  OBVIOUS
<1>1. legacy \in SUBSET Agents /\ (store = V30(legacy) \/ store = Blank)
  BY DEF Init
<1>2. Good(store, legacy) /\ Good(Blank, legacy)
  BY <1>1, BlankFacts
<1>3. QED
  BY <1>1, <1>2 DEF Init, Copies

\* A dict stays good when more agents are counted as older than v3.1.
LEMMA GoodGrows ==
  ASSUME NEW t, NEW L, NEW M, L \subseteq M, Good(t, L) PROVE Good(t, M)
  BY DEF Good, Earns

LEMMA EditStep ==
  ASSUME Copies, NEW p \in Procs, NEW t, Edit(p, t),
         legacy \subseteq legacy', legacy' \subseteq Agents,
         Good(t, legacy'), KeepsAll(mem[p], t)
  PROVE  Copies'
<1>1. /\ \A q \in Procs : mem'[q] = IF q = p THEN t ELSE mem[q]
      /\ DOMAIN mem' = Procs /\ mem' = [q \in Procs |-> mem'[q]]
      /\ store' = store /\ whole' = whole /\ pc' = pc /\ fresh' = fresh
  BY DEF Copies, Edit
<1>2. Good(store', legacy') /\ \A q \in Procs : Good(mem'[q], legacy')
  BY <1>1, GoodGrows DEF Copies
<1>3. ASSUME NEW q \in fresh PROVE KeepsAll(store, mem'[q])
  <2>1. CASE q = p
    <3>1. store \in Trust /\ mem[p] \in Trust /\ t \in Trust
      BY DEF Copies, Good
    <3>2. KeepsAll(store, mem[p])
      BY <2>1, <1>3 DEF Copies
    <3>3. QED
      BY <1>1, <2>1, <3>1, <3>2, KeepsTransitive DEF Copies
  <2>2. CASE q # p
    BY <1>1, <2>2 DEF Copies
  <2>3. QED
    BY <2>1, <2>2
<1>4. QED
  BY <1>1, <1>2, <1>3 DEF Copies

LEMMA CopiesStep ==
  ASSUME Copies, Next PROVE Copies'
<1>1. PICK p \in Procs :
        \/ Load(p) \/ SaveBegins(p) \/ SaveEnds(p) \/ Leave(p)
        \/ \E a \in Agents : VerifySas(p, a) \/ Reciprocate(p, a) \/ Promote(p, a)
        \/ \E a \in Agents, k \in Keys : Pin(p, a, k) \/ AddKey(p, a, k)
        \/ \E k \in Keys : Deactivate(p, k)
  BY DEF Next
<1>2. Good(mem[p], legacy)
  BY DEF Copies
<1>3. CASE Load(p)
  <2>1. PICK t : t \in Loaded /\ mem' = [mem EXCEPT ![p] = t]
    BY <1>3 DEF Load
  <2>2. Good(t, legacy) /\ KeepsAll(store, t)
    BY <2>1, UpgradeFacts, UnchangedFacts DEF Loaded, Copies
  <2>3. \A q \in Procs : mem'[q] = IF q = p THEN t ELSE mem[q]
    BY <2>1 DEF Copies
  <2>4. QED
    BY <1>3, <2>1, <2>2, <2>3 DEF Load, Copies
<1>4. CASE SaveBegins(p)
  BY <1>4 DEF SaveBegins, Copies
<1>5. CASE SaveEnds(p)
  <2>1. KeepsAll(mem[p], mem[p])
    BY <1>2, UnchangedFacts
  <2>2. pc' \in [Procs -> {"Out", "In", "Saving", "Overlaid"}] /\ whole' \in BOOLEAN
    BY <1>5 DEF SaveEnds, Copies
  <2>3. store' = mem[p] /\ fresh' = {p} /\ mem' = mem /\ legacy' = legacy
    BY <1>5 DEF SaveEnds
  <2>4. QED
    BY <1>2, <2>1, <2>2, <2>3 DEF Copies
<1>6. CASE Leave(p)
  <2>1. Good(Blank, legacy)
    BY BlankFacts DEF Copies
  <2>2. \A q \in Procs : mem'[q] = IF q = p THEN Blank ELSE mem[q]
    BY <1>6 DEF Leave, Copies
  <2>3. QED
    BY <1>6, <2>1, <2>2 DEF Leave, Copies
<1>7. ASSUME NEW a \in Agents, VerifySas(p, a) \/ Reciprocate(p, a) \/ Promote(p, a)
      PROVE  Copies'
  <2>1. PICK t : Edit(p, t) /\ legacy' = legacy /\ Good(t, legacy) /\ KeepsAll(mem[p], t)
    BY <1>2, <1>7, VerifyFacts, ReciprocateFacts, PromoteFacts
       DEF VerifySas, Reciprocate, Promote
  <2>2. QED
    BY <2>1, EditStep DEF Copies
<1>8. ASSUME NEW a \in Agents, NEW k \in Keys, Pin(p, a, k) \/ AddKey(p, a, k)
      PROVE  Copies'
  <2>1. PICK t : /\ Edit(p, t) /\ legacy \subseteq legacy' /\ legacy' \subseteq Agents
                 /\ Good(t, legacy') /\ KeepsAll(mem[p], t)
    <3>1. CASE Pin(p, a, k)
      BY <1>2, <3>1, PinFacts DEF Pin, Copies
    <3>2. CASE AddKey(p, a, k)
      BY <1>2, <3>2, AddKeyFacts DEF AddKey, Copies
    <3>3. QED
      BY <1>8, <3>1, <3>2
  <2>2. QED
    BY <2>1, EditStep
<1>9. ASSUME NEW k \in Keys, Deactivate(p, k) PROVE Copies'
  <2>1. PICK t : Edit(p, t) /\ legacy' = legacy /\ Good(t, legacy) /\ KeepsAll(mem[p], t)
    BY <1>2, <1>9, DeactivateFacts DEF Deactivate
  <2>2. QED
    BY <2>1, EditStep DEF Copies
<1>10. QED
  BY <1>1, <1>3, <1>4, <1>5, <1>6, <1>7, <1>8, <1>9

LEMMA CopiesInductive == Copies /\ [Next]_vars => Copies'
<1>1. ASSUME Copies, UNCHANGED vars PROVE Copies'
  BY <1>1 DEF Copies, vars
<1>2. QED
  BY <1>1, CopiesStep

LEMMA CopiesImply == Copies => TypeOK /\ AcceptanceIsEarned
<1> SUFFICES ASSUME Copies PROVE TypeOK /\ AcceptanceIsEarned
  OBVIOUS
<1>1. TypeOK
  BY DEF TypeOK, Copies, Good, Has
<1>2. ASSUME NEW t, Good(t, legacy) PROVE Earned(t)
  BY <1>2 DEF Good, Earns, Earned, accept_kind_for_tier, get_tier
<1>3. QED
  BY <1>1, <1>2 DEF Copies, AcceptanceIsEarned

(***************************************************************************)
(* The types of the trust store and of every copy of it.                   *)
(***************************************************************************)
THEOREM TypeCorrect == Spec => []TypeOK
  BY CopiesInit, CopiesInductive, CopiesImply, PTL DEF Spec

(***************************************************************************)
(* Claims are accepted after an SAS check and Threshold reciprocations,    *)
(* other messages after an SAS check, for any number of processes that     *)
(* save over each other and die as they like.                              *)
(***************************************************************************)
THEOREM TiersAreEarned == Spec => []AcceptanceIsEarned
  BY CopiesInit, CopiesInductive, CopiesImply, PTL DEF Spec

(***************************************************************************)
(* A save from a copy that has every saved change undoes none of them.     *)
(***************************************************************************)
THEOREM FreshSavesKeepUpdates == Spec => FreshSaveKeepsUpdates
<1>1. Copies => (\A p \in Procs : SaveEnds(p) /\ p \in fresh => Keeps(store, store'))
  BY DEF Copies, SaveEnds, KeepsAll, KeepsEntry, Keeps
<1>2. QED
  BY <1>1, CopiesInit, CopiesInductive, PTL DEF Spec, FreshSaveKeepsUpdates
=============================================================================
