-------------------------- MODULE SignedCommitsProofs --------------------------
(***************************************************************************)
(* Proofs about SignedCommits, for any keys, messages, hooks and faults.   *)
(***************************************************************************)
EXTENDS SignedCommits, SequenceTheorems, TLAPS

Certified(l) == l.form \in {"bare", "whole"} /\ verify_message(l.msg, Pristine(FALSE))

\* What a step of the commit may rely on, although the file has moved on.
Passed ==
    /\ pc \in {"Verified", "Compared", "Checked"} /\ vouched =>
          \A l \in NewLines : Certified(l)
    /\ pc \in {"Compared", "Checked"} /\ "schema" \in Hooks =>
          Aligns(DOMAIN head, head, index)

Trusted == trust = None \/ \E d \in BOOLEAN, e \in Entries : trust = TrustOf(d, e)

Inv ==
    /\ Trusted /\ Passed
    /\ "verify" \in Hooks => \A l \in LinesOf(head) \ exempt : Certified(l)
    /\ vouched => "verify" \in Hooks

\* A key that is active now is active in the store nothing was revoked in.
LEMMA ActiveWasTrusted ==
  ASSUME Trusted, trust # None, NEW l, LineVerifies(l)
  PROVE  Certified(l)
<1>1. PICK d \in BOOLEAN, e \in Entries : trust = TrustOf(d, e)
  BY DEF Trusted
<1>2. DOMAIN trust = {<<Me, d>>}
  BY <1>1 DEF TrustOf
<1>3. d = FALSE /\ l.msg.from = Me
  BY <1>2 DEF LineVerifies, verify_message
<1>4. /\ DOMAIN Pristine(FALSE) = {<<Me, FALSE>>}
      /\ \A k \in Keys : Pristine(FALSE)[<<Me, FALSE>>][k] = "active"
  BY DEF Pristine, TrustOf
<1>5. QED
  BY <1>3, <1>4 DEF LineVerifies, verify_message, KeyAccepted, Certified

\* What git diff leaves unmarked is in both files.
LEMMA AlignedIsFound ==
  ASSUME NEW S, NEW s, NEW t, Aligns(S, s, t), NEW i \in S
  PROVE  s[i] \in LinesOf(t)
<1>1. PICK f \in [S -> DOMAIN t] : s[i] = t[f[i]]
  BY DEF Aligns
<1>2. f[i] \in DOMAIN t
  OBVIOUS
<1>3. QED
  BY <1>1, <1>2 DEF LinesOf

LEMMA InvInit == Init => Inv
<1> SUFFICES ASSUME Init PROVE Inv
  OBVIOUS
<1>1. Trusted
  <2>1. [k \in Keys |-> "active"] \in Entries
    BY DEF Entries
  <2>2. QED
    BY <2>1 DEF Init, Trusted, Pristine
<1>2. LinesOf(head) = {}
  BY DEF Init, LinesOf
<1>3. QED
  BY <1>1, <1>2 DEF Init, Inv, Passed

\* The steps of the agent leave the commit alone.
LEMMA OthersStep ==
  ASSUME Inv, UNCHANGED gitVars, Trusted' PROVE Inv'
<1>1. UNCHANGED <<index, head, pc, vouched, exempt>>
  BY DEF gitVars
<1>2. Passed'
  BY <1>1 DEF Inv, Passed, NewLines, Certified, Pristine, TrustOf
<1>3. QED
  BY <1>1, <1>2 DEF Inv, LinesOf, Certified, Pristine, TrustOf

LEMMA DeactivateKeepsTrusted ==
  ASSUME Trusted, Deactivate PROVE Trusted'
<1>1. PICK d \in BOOLEAN, e \in Entries : trust = TrustOf(d, e)
  BY DEF Trusted, Deactivate
<1>2. PICK key \in Keys : trust' = trust_deactivate_key(trust, make_key_id(Me, key))
  BY DEF Deactivate
<1> DEFINE f == [e EXCEPT ![key] = IF @ = "active" THEN "revoked" ELSE @]
<1>3. f \in Entries
  BY DEF Entries
<1>4. trust' = TrustOf(d, f)
  <2>1. make_key_id(Me, key).agent = Me /\ make_key_id(Me, key).key = key
    BY DEF make_key_id
  <2>2. /\ DOMAIN TrustOf(d, e) = {<<Me, d>>} /\ TrustOf(d, e)[<<Me, d>>] = e
        /\ <<Me, d>>[1] = Me
    BY DEF TrustOf
  <2>3. QED
    BY <1>1, <1>2, <2>1, <2>2 DEF trust_deactivate_key, TrustOf
<1>5. QED
  BY <1>3, <1>4 DEF Trusted

\* The tick that fails leaves nothing to rely on.
LEMMA BlockedStep ==
  ASSUME Inv, Blocked, UNCHANGED <<head, trust, exempt>> PROVE Inv'
<1>1. pc' = "Idle" /\ vouched' = FALSE
  BY DEF Blocked
<1>2. Passed'
  BY <1>1 DEF Passed
<1>3. QED
  BY <1>1, <1>2 DEF Inv, Trusted, LinesOf, Certified, Pristine, TrustOf

LEMMA InvStep ==
  ASSUME Inv, Next PROVE Inv'
<1>1. CASE AppendBegins \/ AppendEnds \/ AppendDies \/ Edit
  <2>1. UNCHANGED gitVars /\ trust' = trust
    BY <1>1 DEF AppendBegins, AppendEnds, AppendDies, Edit
  <2>2. QED
    BY <2>1, OthersStep DEF Inv, Trusted
<1>2. CASE Bootstrap
  <2>1. [k \in Keys |-> "active"] \in Entries
    BY DEF Entries
  <2>2. UNCHANGED gitVars /\ Trusted'
    BY <1>2, <2>1 DEF Bootstrap, Trusted, Pristine
  <2>3. QED
    BY <2>2, OthersStep
<1>3. CASE Deactivate
  <2>1. UNCHANGED gitVars
    BY <1>3 DEF Deactivate
  <2>2. QED
    BY <1>3, <2>1, OthersStep, DeactivateKeepsTrusted DEF Inv
<1>4. CASE Stage
  <2>1. UNCHANGED <<head, trust, vouched, exempt>> /\ pc' = "Staged"
    BY <1>4 DEF Stage
  <2>2. QED
    BY <2>1 DEF Inv, Trusted, Passed, LinesOf, Certified, Pristine, TrustOf
<1>5. CASE Verify
  <2>1. UNCHANGED <<head, trust, exempt>>
    BY <1>5 DEF Verify
  <2>2. CASE Blocked
    BY <2>1, <2>2, BlockedStep
  <2>3. CASE ~Blocked
    <3>1. PICK S \in Unchanged :
             /\ pc' = "Verified" /\ index' = index
             /\ vouched' = ("verify" \in Hooks /\ trust # None)
             /\ "verify" \in Hooks /\ trust # None =>
                   \A i \in staged_added_lines(S) : LineVerifies(index[i])
      BY <1>5, <2>3 DEF Verify
    <3>2. Aligns(S, index, head)
      BY DEF Unchanged
    <3>3. ASSUME vouched', NEW l \in NewLines PROVE Certified(l)
      <4>1. PICK i \in DOMAIN index : l = index[i]
        BY DEF NewLines, LinesOf
      <4>2. i \in staged_added_lines(S)
        BY <3>2, <4>1, AlignedIsFound DEF staged_added_lines, NewLines
      <4>3. QED
        BY <3>1, <3>3, <4>1, <4>2, ActiveWasTrusted DEF Inv
    <3>4. NewLines' = NewLines
      BY <2>1, <3>1 DEF NewLines, LinesOf
    <3>5. Passed'
      BY <3>1, <3>3, <3>4 DEF Passed, Certified, Pristine, TrustOf
    <3>6. QED
      BY <2>1, <3>1, <3>5 DEF Inv, Trusted, LinesOf, Certified, Pristine, TrustOf
  <2>4. QED
    BY <2>2, <2>3
<1>6. CASE Compare \/ Validate
  <2>1. UNCHANGED <<head, trust, exempt>>
    BY <1>6 DEF Compare, Validate
  <2>2. CASE Blocked
    BY <2>1, <2>2, BlockedStep
  <2>3. CASE ~Blocked
    <3>1. /\ UNCHANGED <<index, vouched>>
          /\ pc \in {"Verified", "Compared"} /\ pc' \in {"Compared", "Checked"}
          /\ pc = "Verified" /\ "schema" \in Hooks => Aligns(DOMAIN head, head, index)
      BY <1>6, <2>3 DEF Compare, Validate, Passes, is_rewrite_attempt
    <3>2. NewLines' = NewLines
      BY <2>1, <3>1 DEF NewLines, LinesOf
    <3>3. Passed'
      BY <2>1, <3>1, <3>2 DEF Inv, Passed, Certified, Pristine, TrustOf
    <3>4. QED
      BY <2>1, <3>1, <3>3 DEF Inv, Trusted, LinesOf, Certified, Pristine, TrustOf
  <2>4. QED
    BY <2>2, <2>3
<1>7. CASE Commit \/ Hotpath
  <2>1. /\ head' = index /\ pc' = "Idle" /\ vouched' = FALSE /\ trust' = trust
        /\ exempt' \in {exempt, exempt \cup NewLines}
        /\ exempt' = exempt \cup NewLines \/ (Commit /\ pc = "Checked" /\ vouched)
    BY <1>7 DEF Commit, Hotpath, CommitIndex
  <2>2. ASSUME "verify" \in Hooks, NEW l \in LinesOf(index) \ exempt'
        PROVE  Certified(l)
    <3>1. CASE l \in LinesOf(head)
      BY <2>1, <2>2, <3>1 DEF Inv
    <3>2. CASE l \notin LinesOf(head)
      <4>1. l \in NewLines
        BY <3>2 DEF NewLines
      <4>2. pc = "Checked" /\ vouched
        BY <2>1, <4>1
      <4>3. QED
        BY <4>1, <4>2 DEF Inv, Passed
    <3>3. QED
      BY <3>1, <3>2
  <2>3. LinesOf(head)' = LinesOf(index)
    BY <2>1 DEF LinesOf
  <2>4. Passed'
    BY <2>1 DEF Passed
  <2>5. QED
    BY <2>1, <2>2, <2>3, <2>4 DEF Inv, Trusted, Certified, Pristine, TrustOf
<1>8. QED
  BY <1>1, <1>2, <1>3, <1>4, <1>5, <1>6, <1>7 DEF Next, DaemonStep

LEMMA InvInductive == Inv /\ [Next]_vars => Inv'
<1>1. ASSUME Inv, UNCHANGED vars PROVE Inv'
  BY <1>1, OthersStep DEF Inv, Trusted, vars, gitVars
<1>2. QED
  BY <1>1, InvStep

(***************************************************************************)
(* Every committed line that verify.py was asked about is one record with  *)
(* a signature of the agent by a key that was trusted.                     *)
(***************************************************************************)
THEOREM CommitsAreSigned == Spec => []CommittedIsVerified
<1>1. Inv => CommittedIsVerified
  BY DEF Inv, Certified, CommittedIsVerified
<1>2. QED
  BY <1>1, InvInit, InvInductive, PTL DEF Spec

(***************************************************************************)
(* With jsonl_schema.py no commit takes out, changes or reorders committed *)
(* lines, though the hook looks at what was staged and not at where the    *)
(* new lines are.                                                          *)
(***************************************************************************)
THEOREM CommitsOnlyAdd == Spec => HistoryOnlyGrows
<1>1. Inv => (Commit /\ "schema" \in Hooks => Aligns(DOMAIN head, head, head'))
  BY DEF Inv, Passed, Commit, CommitIndex
<1>2. QED
  BY <1>1, InvInit, InvInductive, PTL DEF Spec, HistoryOnlyGrows

-----------------------------------------------------------------------------
(* The lines of the three files.                                           *)

\* TypeOK, and the bound: Edit signs a line with the number of its place.
FileInv ==
    /\ work \in Seq(Lines) /\ index \in Seq(Lines) /\ head \in Seq(Lines)
    /\ Len(work) <= Quota
    /\ pc \in {"Idle", "Staged", "Verified", "Compared", "Checked"}
    /\ pushed \in Nat /\ exempt \subseteq Lines /\ faults \in Nat
    /\ \A i \in DOMAIN work : work[i].form \in Unfinished => i = Len(work)
    /\ writing => work # <<>> /\ work[Len(work)].form \in Unfinished
Flags == writing \in BOOLEAN /\ vouched \in BOOLEAN
TypeInv == FileInv /\ Flags /\ Trusted

LEMMA TypeInvImpliesTypeOK == TypeInv => TypeOK
<1>1. ASSUME Trusted
      PROVE  trust \in {TrustOf(d, e) : d \in BOOLEAN, e \in Entries} \cup {None}
  <2>1. CASE trust = None
    BY <2>1
  <2>2. ASSUME NEW d \in BOOLEAN, NEW e \in Entries, trust = TrustOf(d, e)
        PROVE  trust \in {TrustOf(c, f) : c \in BOOLEAN, f \in Entries}
    <3> DEFINE Store(c, f) == TrustOf(c, f)
    <3>1. trust = Store(d, e)
      BY <2>2
    <3> HIDE DEF Store
    <3>2. trust \in {Store(c, f) : c \in BOOLEAN, f \in Entries}
      BY <3>1
    <3>3. QED
      BY <3>2 DEF Store
  <2>3. QED
    BY <1>1, <2>1, <2>2 DEF Trusted
<1>2. QED
  BY <1>1 DEF TypeInv, FileInv, Flags, TypeOK

LEMMA PristineIsTrusted ==
  ASSUME NEW d \in BOOLEAN
  PROVE  \E c \in BOOLEAN, e \in Entries : Pristine(d) = TrustOf(c, e)
<1>1. [k \in Keys |-> "active"] \in Entries
  BY DEF Entries
<1>2. QED
  BY <1>1, Zenon DEF Pristine

LEMMA SignIsMessage ==
  ASSUME NEW s \in Shapes, NEW key \in Keys, NEW n \in 1 .. Quota, NEW form \in Forms
  PROVE  Line(Sign(s, key, n), form) \in Lines
  BY DEF Line, Lines, Messages

LEMMA SignIsNotJoined ==
  ASSUME NEW s \in Shapes, NEW key \in Keys, NEW n \in 1 .. Quota
  PROVE  Sign(s, key, n) # Joined
  BY NoneIsNoField, Zenon DEF Joined

LEMMA SetLastFacts ==
  ASSUME NEW f \in Seq(Lines), f # <<>>, NEW l \in Lines
  PROVE  /\ SetLast(f, l) \in Seq(Lines)
         /\ Len(SetLast(f, l)) = Len(f)
         /\ SetLast(f, l)[Len(f)] = l
         /\ \A i \in DOMAIN f : i # Len(f) => SetLast(f, l)[i] = f[i]
  BY DEF SetLast

LEMMA TypeInit == Init => TypeInv
<1> SUFFICES ASSUME Init PROVE TypeInv
  OBVIOUS
<1>1. Trusted
  <2>1. FALSE \in BOOLEAN /\ TRUE \in BOOLEAN
    OBVIOUS
  <2>2. QED
    BY <2>1, PristineIsTrusted, Zenon DEF Init, Trusted
<1>2. work = <<>> /\ Len(work) = 0 /\ work \in Seq(Lines) /\ DOMAIN work = {}
  BY DEF Init
<1>3. Flags
  BY Zenon DEF Init, Flags
<1>4. FileInv
  BY <1>2, BoundsAreNat DEF Init, FileInv
<1>5. QED
  BY <1>1, <1>3, <1>4 DEF TypeInv

\* A line that is corrected, taken out or put in leaves the others in order.
LEMMA EditedFacts ==
  ASSUME work \in Seq(Lines), NEW i \in DOMAIN work, NEW j \in {i, i + 1},
         NEW mid \in Seq(Lines), \A k \in DOMAIN mid : mid[k].form \notin Unfinished,
         \A k \in DOMAIN work : work[k].form \in Unfinished => k = Len(work)
  PROVE  /\ Edited(i, mid, j) \in Seq(Lines)
         /\ Len(Edited(i, mid, j)) = Len(work) + Len(mid) - (j - i)
         /\ \A k \in DOMAIN Edited(i, mid, j) :
               Edited(i, mid, j)[k].form \in Unfinished => k = Len(Edited(i, mid, j))
<1> DEFINE a == SubSeq(work, 1, i - 1)
           b == SubSeq(work, j, Len(work))
           g == Edited(i, mid, j)
<1>1. /\ Len(work) \in Nat /\ DOMAIN work = 1 .. Len(work) /\ i \in 1 .. Len(work)
      /\ Len(mid) \in Nat /\ DOMAIN mid = 1 .. Len(mid)
  OBVIOUS
<1>2. /\ a \in Seq(Lines) /\ Len(a) = i - 1
      /\ \A k \in 1 .. i - 1 : a[k] = work[k]
  <2>1. 1 \in Int /\ i - 1 \in Int /\ \A k \in 1 .. i - 1 : work[k] \in Lines
    BY <1>1
  <2>2. /\ a \in Seq(Lines) /\ Len(a) = IF 1 <= i - 1 THEN i - 1 - 1 + 1 ELSE 0
        /\ \A k \in 1 .. i - 1 - 1 + 1 : a[k] = work[1 + k - 1]
    BY <2>1, SubSeqProperties
  <2> HIDE DEF a
  <2>3. QED
    BY <1>1, <2>2
<1>3. /\ b \in Seq(Lines) /\ Len(b) = Len(work) - j + 1
      /\ \A k \in 1 .. Len(work) - j + 1 : b[k] = work[j + k - 1]
  <2>1. j \in Int /\ Len(work) \in Int /\ \A k \in j .. Len(work) : work[k] \in Lines
    BY <1>1
  <2>2. /\ b \in Seq(Lines) /\ Len(b) = IF j <= Len(work) THEN Len(work) - j + 1 ELSE 0
        /\ \A k \in 1 .. Len(work) - j + 1 : b[k] = work[j + k - 1]
    BY <2>1, SubSeqProperties
  <2> HIDE DEF b
  <2>3. QED
    BY <1>1, <2>2
<1>4. g = (a \o mid) \o b
  BY DEF Edited
<1> HIDE DEF a, b, g
<1>5. /\ a \o mid \in Seq(Lines) /\ Len(a \o mid) = i - 1 + Len(mid)
      /\ \A k \in 1 .. i - 1 + Len(mid) :
            (a \o mid)[k] = IF k <= i - 1 THEN a[k] ELSE mid[k - (i - 1)]
  <2>1. /\ a \o mid \in Seq(Lines) /\ Len(a \o mid) = Len(a) + Len(mid)
        /\ \A k \in 1 .. Len(a) + Len(mid) :
              (a \o mid)[k] = IF k <= Len(a) THEN a[k] ELSE mid[k - Len(a)]
    BY <1>2, ConcatProperties, Zenon
  <2>2. QED
    BY <1>2, <2>1, Zenon
<1> DEFINE c == a \o mid
<1> HIDE DEF c
<1>6. /\ g \in Seq(Lines) /\ Len(g) = i - 1 + Len(mid) + Len(b)
      /\ \A k \in 1 .. Len(g) :
            g[k] = IF k <= i - 1 + Len(mid) THEN c[k] ELSE b[k - (i - 1 + Len(mid))]
  <2>1. c \in Seq(Lines) /\ Len(c) = i - 1 + Len(mid) /\ g = c \o b
    BY <1>4, <1>5 DEF c
  <2>2. c \in Seq(Lines) /\ b \in Seq(Lines)
    BY <1>3, <2>1
  <2>3. /\ c \o b \in Seq(Lines) /\ Len(c \o b) = Len(c) + Len(b)
        /\ \A k \in 1 .. Len(c) + Len(b) :
              (c \o b)[k] = IF k <= Len(c) THEN c[k] ELSE b[k - Len(c)]
    BY <2>2, ConcatProperties, Zenon
  <2>4. QED
    BY <2>1, <2>3, Zenon
<1>7. Len(g) = Len(work) + Len(mid) - (j - i)
  BY <1>1, <1>3, <1>6
<1>8. ASSUME NEW k \in 1 .. Len(g), g[k].form \in Unfinished PROVE k = Len(g)
  <2>1. CASE k <= i - 1
    <3>1. k \in 1 .. i - 1 + Len(mid) /\ k \in 1 .. i - 1 /\ k \in DOMAIN work
      BY <1>1, <2>1
    <3>2. g[k] = c[k] /\ c[k] = a[k] /\ a[k] = work[k]
      BY <1>2, <1>5, <1>6, <2>1, <3>1 DEF c
    <3>3. k = Len(work)
      BY <1>8, <3>1, <3>2
    <3>4. QED
      BY <1>1, <2>1, <3>3
  <2>2. CASE k > i - 1 /\ k <= i - 1 + Len(mid)
    <3>1. /\ k \in 1 .. i - 1 + Len(mid) /\ ~(k <= i - 1)
          /\ k - (i - 1) \in DOMAIN mid
      BY <1>1, <2>2
    <3>2. g[k] = c[k] /\ c[k] = mid[k - (i - 1)]
      BY <1>5, <1>6, <2>2, <3>1, Zenon DEF c
    <3>3. QED
      BY <1>8, <3>1, <3>2
  <2>3. CASE k > i - 1 + Len(mid)
    <3> DEFINE q == j + (k - (i - 1 + Len(mid))) - 1
    <3>1. k - (i - 1 + Len(mid)) \in 1 .. Len(work) - j + 1
      <4>1. Len(g) = i - 1 + Len(mid) + (Len(work) - j + 1)
        BY <1>3, <1>6, Zenon
      <4>2. QED
        BY <1>1, <2>3, <4>1
    <3>2. q \in DOMAIN work /\ ~(k <= i - 1 + Len(mid))
      <4>1. j \in 1 .. Len(work) + 1 /\ Len(g) \in Nat
        BY <1>1, <1>6
      <4>2. \A x \in 1 .. Len(work) - j + 1 : j + x - 1 \in 1 .. Len(work)
        BY <1>1, <4>1, SMTT(20)
      <4>3. q \in DOMAIN work
        BY <1>1, <3>1, <4>2, Zenon
      <4>4. QED
        BY <1>1, <2>3, <4>1, <4>3
    <3>3. g[k] = b[k - (i - 1 + Len(mid))] /\ b[k - (i - 1 + Len(mid))] = work[q]
      BY <1>3, <1>6, <3>1, <3>2, Zenon
    <3>4. q = Len(work)
      BY <1>8, <3>2, <3>3
    <3>5. QED
      BY <1>1, <1>7, <3>4
  <2>4. QED
    BY <1>1, <2>1, <2>2, <2>3
<1>9. QED
  BY <1>6, <1>7, <1>8 DEF g

\* The conjuncts about the file, after one step of the agent.
LEMMA AgentTypeStep ==
  ASSUME FileInv, AppendBegins \/ AppendEnds \/ AppendDies \/ Edit
  PROVE  /\ work' \in Seq(Lines) /\ Len(work') <= Quota
         /\ \A i \in DOMAIN work' : work'[i].form \in Unfinished => i = Len(work')
         /\ writing' => work' # <<>> /\ work'[Len(work')].form \in Unfinished
<1> USE BoundsAreNat DEF FileInv
<1>0. work \in Seq(Lines) /\ Len(work) \in Nat /\ DOMAIN work = 1 .. Len(work)
  OBVIOUS
<1>1. CASE AppendBegins /\ EndsOpen(work)
  <2> DEFINE l == Line(Joined, "open")
  <2>1. l \in Lines /\ l.form \in Unfinished
    BY DEF Line, Lines, Forms, Unfinished
  <2>2. work' = SetLast(work, l) /\ work # <<>>
    BY <1>1 DEF AppendBegins, EndsOpen
  <2> HIDE DEF l
  <2>3. /\ work' \in Seq(Lines) /\ Len(work') = Len(work) /\ work'[Len(work)] = l
        /\ \A i \in DOMAIN work : i # Len(work) => work'[i] = work[i]
    BY <1>0, <2>1, <2>2, SetLastFacts
  <2>4. QED
    BY <1>0, <2>1, <2>2, <2>3
<1>2. CASE AppendBegins /\ ~EndsOpen(work)
  <2>1. PICK s \in Shapes, key \in Keys, form \in Unfinished :
            work' = Append(work, Line(Sign(s, key, Len(work) + 1), form))
    BY <1>2 DEF AppendBegins
  <2> DEFINE l == Line(Sign(s, key, Len(work) + 1), form)
  <2>2. Len(work) + 1 \in 1 .. Quota
    BY <1>0, <1>2 DEF AppendBegins
  <2>3. form \in Forms
    BY DEF Forms
  <2>4. l \in Lines
    BY <2>2, <2>3, SignIsMessage
  <2>5. l.form \in Unfinished
    BY DEF Line
  <2>6. \A i \in DOMAIN work : work[i].form \notin Unfinished
    BY <1>0, <1>2 DEF EndsOpen
  <2> HIDE DEF l
  <2>7. /\ work' \in Seq(Lines) /\ Len(work') = Len(work) + 1
        /\ work'[Len(work) + 1] = l
        /\ \A i \in 1 .. Len(work) : work'[i] = work[i]
    BY <1>0, <2>1, <2>4 DEF l
  <2>8. QED
    BY <1>0, <2>2, <2>5, <2>6, <2>7
<1>3. CASE AppendEnds
  <2> DEFINE m == work[Len(work)].msg
             l == Line(m, IF m = Joined THEN "bad" ELSE "whole")
  <2>1. work # <<>> /\ work' = SetLast(work, l)
    BY <1>3 DEF AppendEnds
  <2>2. work[Len(work)] \in Lines
    BY <1>0, <2>1
  <2>3. l \in Lines /\ l.form \notin Unfinished
    BY <2>2 DEF Line, Lines, Forms, Unfinished
  <2> HIDE DEF l
  <2>4. /\ work' \in Seq(Lines) /\ Len(work') = Len(work) /\ work'[Len(work)] = l
        /\ \A i \in DOMAIN work : i # Len(work) => work'[i] = work[i]
    BY <1>0, <2>1, <2>3, SetLastFacts
  <2>5. DOMAIN work' = DOMAIN work /\ writing' = FALSE
    BY <1>0, <1>3, <2>4 DEF AppendEnds
  <2>6. \A i \in DOMAIN work : work'[i].form \notin Unfinished
    BY <2>3, <2>4
  <2>7. QED
    BY <1>0, <2>4, <2>5, <2>6
<1>4. CASE AppendDies
  BY <1>4 DEF AppendDies
<1>5. CASE Edit
  <2>1. PICK i \in DOMAIN work, s \in Shapes, key \in Keys :
            LET new == <<Line(Sign(s, key, i), "whole")>>
            IN  \/ work' = Edited(i, new, i + 1)
                \/ work' = Edited(i, <<>>, i + 1)
                \/ Len(work) < Quota /\ work' = Edited(i, new, i)
    BY <1>5 DEF Edit
  <2> DEFINE l == Line(Sign(s, key, i), "whole")
  <2>2. i \in 1 .. Quota
    BY <1>0
  <2>3. l \in Lines /\ l.form \notin Unfinished
    <3>1. "whole" \in Forms /\ "whole" \notin Unfinished
      BY DEF Forms, Unfinished
    <3>2. QED
      BY <2>2, <3>1, SignIsMessage DEF Line
  <2> HIDE DEF l
  <2>4. PICK mid \in {<<l>>, <<>>}, j \in {i, i + 1} :
            /\ work' = Edited(i, mid, j)
            /\ j = i => Len(work) < Quota
            /\ j = i \/ Len(mid) <= 1
    BY <2>1 DEF l
  <2>5. mid \in Seq(Lines) /\ Len(mid) <= 1 /\ \A k \in DOMAIN mid : mid[k].form \notin Unfinished
    <3>1. CASE mid = <<>>
      BY <3>1
    <3>2. CASE mid = <<l>>
      <4>1. DOMAIN mid = {1} /\ mid[1] = l /\ Len(mid) = 1 /\ mid \in Seq(Lines)
        BY <2>3, <3>2
      <4>2. QED
        BY <2>3, <4>1
    <3>3. QED
      BY <3>1, <3>2
  <2>6. /\ work' \in Seq(Lines) /\ Len(work') = Len(work) + Len(mid) - (j - i)
        /\ \A k \in DOMAIN work' : work'[k].form \in Unfinished => k = Len(work')
    BY <1>0, <2>4, <2>5, EditedFacts
  <2>7. Len(work') <= Quota
    BY <1>0, <2>4, <2>5, <2>6
  <2>8. ~writing'
    BY <1>5 DEF Edit
  <2>9. QED
    BY <2>6, <2>7, <2>8
<1>6. QED
  BY <1>1, <1>2, <1>3, <1>4, <1>5

LEMMA TypeStep == TypeInv /\ [Next]_vars => TypeInv'
<1> SUFFICES ASSUME TypeInv, [Next]_vars PROVE TypeInv'
  OBVIOUS
<1> USE DEF TypeInv
<1>1. CASE AppendBegins \/ AppendEnds \/ AppendDies \/ Edit
  <2>1. UNCHANGED <<gitVars, trust>> /\ faults' \in Nat
    BY <1>1 DEF AppendBegins, AppendEnds, AppendDies, Edit, Fault, FileInv
  <2>2. FileInv'
    BY <1>1, <2>1, AgentTypeStep DEF FileInv, gitVars
  <2>3. writing' = writing \/ writing' = TRUE \/ writing' = FALSE
    BY <1>1, Zenon DEF AppendBegins, AppendEnds, AppendDies, Edit
  <2>4. Flags'
    BY <2>1, <2>3 DEF Flags, gitVars
  <2>5. QED
    BY <2>1, <2>2, <2>4 DEF Trusted
<1>2. CASE Bootstrap
  <2>1. Trusted'
    <3>1. FALSE \in BOOLEAN
      OBVIOUS
    <3>2. QED
      BY <1>2, <3>1, PristineIsTrusted, Zenon DEF Bootstrap, Trusted
  <2>2. QED
    BY <1>2, <2>1 DEF Bootstrap, gitVars, FileInv, Flags
<1>3. CASE Deactivate
  <2>1. Trusted'
    BY <1>3, DeactivateKeepsTrusted
  <2>2. QED
    BY <1>3, <2>1 DEF Deactivate, Fault, gitVars, FileInv, Flags
<1>4. CASE Stage \/ Verify \/ Compare \/ Validate
  <2>1. UNCHANGED <<work, head, writing, trust, pushed, exempt, faults>>
    BY <1>4 DEF Stage, Verify, Compare, Validate
  <2>2. /\ index' \in {index, work, head}
        /\ pc' \in {"Idle", "Staged", "Verified", "Compared", "Checked"}
    BY <1>4 DEF Stage, Verify, Compare, Validate, Blocked, Passes
  <2>3. FileInv'
    BY <2>1, <2>2 DEF FileInv
  <2>4. \/ vouched' = vouched \/ vouched' = FALSE
        \/ vouched' = ("verify" \in Hooks /\ trust # None)
    BY <1>4, Zenon DEF Stage, Verify, Compare, Validate, Blocked, Passes
  <2>5. ("verify" \in Hooks /\ trust # None) \in BOOLEAN
    OBVIOUS
  <2>6. Flags'
    BY <2>1, <2>4, <2>5, Zenon DEF Flags
  <2>7. QED
    BY <2>1, <2>3, <2>6 DEF Trusted
<1>5. CASE Commit \/ Hotpath
  <2>1. NewLines \subseteq Lines
    BY DEF NewLines, LinesOf, FileInv
  <2>2. /\ UNCHANGED <<work, index, writing, trust>> /\ vouched' = FALSE
        /\ head' = index /\ pc' = "Idle" /\ pushed' \in pushed .. Len(index)
    BY <1>5 DEF Commit, Hotpath, CommitIndex
  <2>3. exempt' \in {exempt, exempt \cup NewLines} /\ faults' \in {faults, faults + 1}
    BY <1>5 DEF Commit, Hotpath, Fault
  <2>4. pushed' \in Nat /\ faults' \in Nat /\ exempt' \subseteq Lines
    BY <2>1, <2>2, <2>3 DEF FileInv
  <2>5. FileInv'
    BY <2>2, <2>4 DEF FileInv
  <2>6. QED
    BY <2>2, <2>5 DEF Flags, Trusted
<1>6. CASE UNCHANGED vars
  BY <1>6 DEF vars, FileInv, Flags, Trusted
<1>7. QED
  BY <1>1, <1>2, <1>3, <1>4, <1>5, <1>6 DEF Next, DaemonStep

(***************************************************************************)
(* The types of the file, the index, HEAD and trust.json.  Only the last   *)
(* line of the file can be unfinished, and it is while it is written: a    *)
(* record joins at most the line before it, whatever is cut short.         *)
(***************************************************************************)
THEOREM TypeCorrect == Spec => []TypeOK
  BY TypeInit, TypeStep, TypeInvImpliesTypeOK, PTL DEF Spec

-----------------------------------------------------------------------------
(* What the schema hook lets pass.                                         *)

IsValid(l) == l.msg # Joined /\ l.msg.body.valid

\* Without faults no record joins another, and what was staged is still in the
\* file, with its lines as they were or completed.
FaultlessInv ==
    faults = 0 =>
        /\ \A i \in DOMAIN work : work[i].msg # Joined
        /\ EndsOpen(work) => writing
        /\ pc # "Idle" =>
              \A i \in DOMAIN index : i \in DOMAIN work /\ index[i].msg = work[i].msg
        /\ "schema" \in Hooks =>
              /\ pc = "Checked" => \A i \in DOMAIN index : IsValid(index[i])
              /\ \A i \in DOMAIN head : IsValid(head[i])

\* An append adds a line or changes the form of the last one.
LEMMA AppendsKeepRecords ==
  ASSUME FileInv, FaultlessInv, faults = 0, AppendBegins \/ AppendEnds
  PROVE  /\ \A i \in DOMAIN work : i \in DOMAIN work' /\ work'[i].msg = work[i].msg
         /\ \A i \in DOMAIN work' : work'[i].msg # Joined
         /\ EndsOpen(work') => writing'
<1>0. work \in Seq(Lines) /\ Len(work) \in Nat /\ DOMAIN work = 1 .. Len(work)
  BY DEF FileInv
<1>1. CASE AppendBegins
  <2>1. ~EndsOpen(work) /\ writing'
    BY <1>1 DEF AppendBegins, FaultlessInv
  <2>2. PICK s \in Shapes, key \in Keys, form \in Unfinished :
            work' = Append(work, Line(Sign(s, key, Len(work) + 1), form))
    BY <1>1, <2>1 DEF AppendBegins
  <2> DEFINE l == Line(Sign(s, key, Len(work) + 1), form)
  <2>3. l.msg # Joined
    BY SignIsNotJoined, <1>0, <1>1, BoundsAreNat DEF AppendBegins, Line
  <2> HIDE DEF l
  <2>4. /\ DOMAIN work' = 1 .. Len(work) + 1 /\ work'[Len(work) + 1] = l
        /\ \A i \in 1 .. Len(work) : work'[i] = work[i]
    BY <1>0, <2>2 DEF l
  <2>5. QED
    BY <1>0, <2>1, <2>3, <2>4 DEF FaultlessInv
<1>2. CASE AppendEnds
  <2> DEFINE m == work[Len(work)].msg
             l == Line(m, IF m = Joined THEN "bad" ELSE "whole")
  <2>1. work # <<>> /\ work' = SetLast(work, l)
    BY <1>2 DEF AppendEnds, FileInv
  <2>2. l \in Lines /\ l.msg = m /\ l.form \notin Unfinished
    <3>1. work[Len(work)] \in Lines
      BY <1>0, <2>1
    <3>2. QED
      BY <3>1 DEF Line, Lines, Forms, Unfinished
  <2>3. m # Joined
    BY <1>0, <2>1 DEF FaultlessInv
  <2> HIDE DEF l
  <2>4. /\ work' \in Seq(Lines) /\ Len(work') = Len(work) /\ work'[Len(work)] = l
        /\ \A i \in DOMAIN work : i # Len(work) => work'[i] = work[i]
    BY <1>0, <2>1, <2>2, SetLastFacts
  <2>5. DOMAIN work' = DOMAIN work
    BY <1>0, <2>4
  <2>6. \A i \in DOMAIN work : work'[i].msg = work[i].msg
    BY <2>2, <2>4
  <2>7. ~EndsOpen(work')
    BY <2>2, <2>4 DEF EndsOpen
  <2>8. QED
    BY <2>5, <2>6, <2>7 DEF FaultlessInv
<1>3. QED
  BY <1>1, <1>2

LEMMA FaultlessInit == Init => FaultlessInv
<1> SUFFICES ASSUME Init PROVE FaultlessInv
  OBVIOUS
<1>1. DOMAIN work = {} /\ DOMAIN head = {} /\ ~EndsOpen(work) /\ pc = "Idle"
  BY DEF Init, EndsOpen
<1>2. QED
  BY <1>1 DEF FaultlessInv

LEMMA FaultlessStep == TypeInv /\ FaultlessInv /\ [Next]_vars => FaultlessInv'
<1> SUFFICES ASSUME TypeInv, FaultlessInv, [Next]_vars, faults' = 0 PROVE FaultlessInv'
  BY DEF FaultlessInv
<1>1. faults \in Nat /\ FileInv
  BY DEF TypeInv, FileInv
<1>2. CASE AppendBegins \/ AppendEnds
  <2>1. faults = 0 /\ UNCHANGED gitVars
    BY <1>2 DEF AppendBegins, AppendEnds
  <2>2. QED
    BY <1>1, <1>2, <2>1, AppendsKeepRecords DEF FaultlessInv, gitVars, IsValid
<1>3. CASE AppendDies \/ Edit \/ Deactivate \/ Hotpath
  <2>1. faults' = faults + 1
    BY <1>3 DEF AppendDies, Edit, Deactivate, Hotpath, Fault
  <2>2. QED
    BY <1>1, <2>1
<1>4. CASE Bootstrap \/ UNCHANGED vars
  <2>1. UNCHANGED <<work, index, head, writing, pc, faults>>
    BY <1>4 DEF Bootstrap, vars, gitVars
  <2>2. QED
    BY <2>1 DEF FaultlessInv, EndsOpen, IsValid
<1>5. CASE DaemonStep
  <2>1. faults = 0 /\ UNCHANGED <<work, writing>>
    BY <1>5 DEF DaemonStep, Stage, Verify, Compare, Validate, Commit, CommitIndex
  <2>2. CASE Stage
    BY <2>1, <2>2 DEF Stage, FaultlessInv, EndsOpen, IsValid
  <2>3. CASE (Verify \/ Compare \/ Validate) /\ Blocked
    <3>1. head' = head /\ pc' = "Idle"
      BY <2>3 DEF Verify, Compare, Validate, Blocked
    <3>2. QED
      BY <2>1, <3>1 DEF FaultlessInv, EndsOpen, IsValid
  <2>4. CASE (Verify \/ Compare) /\ ~Blocked
    <3>1. UNCHANGED <<index, head>> /\ pc # "Idle" /\ pc' # "Checked"
      BY <2>4 DEF Verify, Compare, Passes
    <3>2. QED
      BY <2>1, <3>1 DEF FaultlessInv, EndsOpen, IsValid
  <2>5. CASE Validate /\ ~Blocked
    <3>1. UNCHANGED <<index, head>> /\ pc # "Idle"
      BY <2>5 DEF Validate, Passes
    <3>2. ASSUME pc' = "Checked", "schema" \in Hooks, NEW i \in DOMAIN index
          PROVE  IsValid(index[i])
      <4>1. FileIsValid
        BY <2>5, <3>2 DEF Validate
      <4>2. i \in DOMAIN work /\ index[i].msg = work[i].msg /\ work[i].msg # Joined
        BY <2>1, <3>1, <3>2 DEF FaultlessInv
      <4>3. QED
        BY <4>1, <4>2 DEF FileIsValid, validate_line, IsValid
    <3>3. QED
      BY <2>1, <3>1, <3>2 DEF FaultlessInv, EndsOpen, IsValid
  <2>6. CASE Commit
    <3>1. pc = "Checked" /\ pc' = "Idle" /\ head' = index /\ index' = index
      BY <2>6 DEF Commit, CommitIndex
    <3>2. QED
      BY <2>1, <3>1 DEF FaultlessInv, EndsOpen, IsValid
  <2>7. QED
    BY <1>5, <2>2, <2>3, <2>4, <2>5, <2>6 DEF DaemonStep
<1>6. QED
  BY <1>2, <1>3, <1>4, <1>5 DEF Next

(***************************************************************************)
(* Without faults every line that passed jsonl_schema.py is, or is the     *)
(* beginning of, a valid record, although the hook reads the working file  *)
(* and appends go on while it runs: the torn line is the only gap.         *)
(***************************************************************************)
THEOREM OnlyTornLinesSlipAlways == Spec => []OnlyTornLinesSlip
<1>1. FaultlessInv => OnlyTornLinesSlip
  BY DEF FaultlessInv, OnlyTornLinesSlip, IsValid
<1>2. QED
  BY <1>1, TypeInit, TypeStep, FaultlessInit, FaultlessStep, PTL DEF Spec

=============================================================================
