----------------------- MODULE ExperimentControllerProofs -----------------------
(***************************************************************************)
(* Theorems about the experiment controller, for every set of candidates,  *)
(* every budget and any number of faults and restarts: the usage chain it  *)
(* writes always replays, every spending has its place on that chain, what *)
(* selection closed over stays as it was, and the champion and the spending*)
(* move only as ChampionSelection allows.  Then those about the decisions  *)
(* its candidates end with, for any contenders, policies and trials.       *)
(***************************************************************************)
EXTENDS ExperimentController, GateDecision, FiniteSetTheorems, SequenceTheorems, TLAPS

\* The chain replays, and totals never fall along it.
LedgerInv ==
  /\ UsageReplays
  /\ \A i, j \in DOMAIN usage : i <= j => usage[i].tokens <= usage[j].tokens

\* Champions and parents are the seed or were promoted.
LineageInv == champion \in Promoted \cup {Seed} /\ \A c \in Candidates : parent[c] \in Promoted \cup {Seed}

\* A grant is burned under its reservation, and one that is not burned has none
\* outside the call that is about to burn it.
GrantStands(c) ==
  /\ resumed => grant[c] = "NONE"
  /\ grant[c] \in {"STARTED", "CLOSED"} => Reserved(c)
  /\ ~resumed /\ Reserved(c) => grant[c] # "NONE"
  /\ Reserved(c) /\ grant[c] = "ISSUED" => Working(c) /\ At("BEGIN")

GrantInv == \A c \in Candidates : GrantStands(c)

\* A gate query that is held fits, is not yet charged, and is its candidate's first.
EvidenceHeld ==
  worker.step \in EvidenceSteps =>
    /\ worker.kind = "GATE" /\ worker.tokens \in GateTokens
    /\ ~Charged(worker.candidate)
    /\ Reserved(worker.candidate) => Settled(worker.candidate) \/ worker.candidate \in unread
    /\ Fits(GateEvaluations, worker.tokens)
    /\ worker.step = "APPEND" => candidate[worker.candidate] = "RUNNING_GATE"

\* A probe execution that is held has charged both schedules before it burns the
\* grant, and has spent no more than the arms it has left.
ProbeHeld ==
  LET c == worker.candidate
  IN  /\ worker.step \in ProbeSteps => worker.kind \in SettlementKinds /\ grant[c] # "NONE"
      /\ worker.step = "BEGIN" =>
           Reserved(c) /\ (grant[c] = "ISSUED" <=> ~Settled(c) /\ c \notin unread)
      /\ worker.step \in ExecutionSteps =>
           Reserved(c) /\ ~Settled(c) /\ grant[c] \in {"STARTED", "CLOSED"} /\ c \notin unread
      /\ worker.step \in {"RESERVE", "BEGIN", "REVERT"} => worker.tokens = 0
      /\ worker.step = "PLACEBO" => worker.tokens <= ArmTokens
      /\ worker.step \in ProbeSteps /\ ~worker.poisoned => worker.tokens <= ProbeTokens
      /\ worker.step \in ProbeSteps \ {"SETTLE"} => ~worker.poisoned /\ worker.kind = "FAILED"
      /\ worker.kind = "COMPLETED" => ~worker.poisoned
      /\ worker.step = "VERIFY" \/ worker.kind = "COMPLETED" => grant[c] = "CLOSED"

\* The lock is taken while the search accounts for itself, and what was checked
\* then still holds of the ledger: only the lock holder moves it.
WorkerInv ==
  ~Unlocked =>
    /\ experiment \in {"SEARCHING", "INVALIDATED"}
    /\ ~blocked /\ ~resumed /\ ~Poisoned
    /\ worker.head <= Len(usage)
    /\ EvidenceHeld /\ ProbeHeld

IInv ==
  /\ TypeOK /\ LedgerInv /\ LineageInv /\ GrantInv /\ WorkerInv
  /\ SelectionFrozen /\ SpendingAccounted

-----------------------------------------------------------------------------
(* The usage chain                                                         *)

(* What the budgets are.                                                   *)
LEMMA BudgetsAre ==
  /\ ProbeTokens \in Nat \ {0} /\ ProbeTokens = ArmTokens + ArmTokens
  /\ {ProbeEvaluations, GateEvaluations, MaxEvaluations, MaxTokens} \subseteq Nat
  /\ ArmTokens \in Nat /\ GateTokens \subseteq Nat /\ ArmCharges \subseteq Nat
BY BudgetAssumption DEF BudgetAssumption, ProbeTokens

(* The chain is a sequence of entries; its totals are those of its last.    *)
LEMMA ChainIs ==
  ASSUME usage \in Seq(Entry)
  PROVE  /\ Len(usage) \in Nat /\ DOMAIN usage = 1 .. Len(usage)
         /\ \A i \in 1 .. Len(usage) : usage[i] \in Entry
         /\ Len(usage) = 0 <=> usage = <<>>
         /\ TotalTokens \in Nat /\ TotalEvaluations \in Nat
         /\ Len(usage) > 0 => /\ TotalTokens = usage[Len(usage)].tokens
                              /\ TotalEvaluations = usage[Len(usage)].evaluations
         /\ Len(usage) = 0 => TotalTokens = 0 /\ TotalEvaluations = 0
         /\ Poisoned <=> Len(usage) > 0 /\ usage[Len(usage)].poisoned
<1>1. /\ Len(usage) \in Nat /\ DOMAIN usage = 1 .. Len(usage)
      /\ \A i \in 1 .. Len(usage) : usage[i] \in Entry
  OBVIOUS
<1>2. Len(usage) = 0 <=> usage = <<>>
  BY EmptySeq
<1>3. \A i \in 1 .. Len(usage) : usage[i].tokens \in Nat /\ usage[i].evaluations \in Nat
  BY <1>1 DEF Entry
<1> QED BY <1>1, <1>2, <1>3 DEF TotalTokens, TotalEvaluations, TokensAt, EvaluationsAt, Poisoned

(* What a chain says of a candidate.                                       *)
LEMMA EntriesAre ==
  ASSUME usage \in Seq(Entry), NEW c
  PROVE  /\ Charged(c) <=> \E i \in 1 .. Len(usage) :
              usage[i].candidate = c /\ usage[i].kind = "GATE"
         /\ Reserved(c) <=> \E i \in 1 .. Len(usage) :
              usage[i].candidate = c /\ usage[i].kind = "RESERVED"
         /\ Settled(c) <=> \E i \in 1 .. Len(usage) :
              usage[i].candidate = c /\ usage[i].kind \in SettlementKinds
BY ChainIs DEF Charged, Reserved, Settled, EntriesOf

(* The same in the next state.                                             *)
LEMMA EntriesAreNext ==
  ASSUME usage' \in Seq(Entry), NEW c
  PROVE  /\ Charged(c)' <=> \E i \in 1 .. Len(usage') :
              usage'[i].candidate = c /\ usage'[i].kind = "GATE"
         /\ Reserved(c)' <=> \E i \in 1 .. Len(usage') :
              usage'[i].candidate = c /\ usage'[i].kind = "RESERVED"
         /\ Settled(c)' <=> \E i \in 1 .. Len(usage') :
              usage'[i].candidate = c /\ usage'[i].kind \in SettlementKinds
<1>1. DOMAIN usage' = 1 .. Len(usage')
  OBVIOUS
<1> QED BY <1>1 DEF Charged, Reserved, Settled, EntriesOf

(* An entry that is appended is the last, and speaks of its candidate only.  *)
LEMMA AppendIs ==
  ASSUME usage \in Seq(Entry), NEW e \in Entry, usage' = Append(usage, e)
  PROVE  /\ usage' \in Seq(Entry) /\ Len(usage') = Len(usage) + 1
         /\ DOMAIN usage' = 1 .. Len(usage) + 1
         /\ \A i \in 1 .. Len(usage) : usage'[i] = usage[i]
         /\ usage'[Len(usage) + 1] = e
         /\ TotalTokens' = e.tokens /\ TotalEvaluations' = e.evaluations
         /\ Poisoned' <=> e.poisoned
         /\ \A c \in Candidates :
              /\ Charged(c)' <=> Charged(c) \/ (e.candidate = c /\ e.kind = "GATE")
              /\ Reserved(c)' <=> Reserved(c) \/ (e.candidate = c /\ e.kind = "RESERVED")
              /\ Settled(c)' <=> Settled(c) \/ (e.candidate = c /\ e.kind \in SettlementKinds)
<1>1. Len(usage) \in Nat
  BY ChainIs
<1>2. /\ usage' \in Seq(Entry) /\ Len(usage') = Len(usage) + 1
      /\ DOMAIN usage' = 1 .. Len(usage) + 1
      /\ \A i \in 1 .. Len(usage) : usage'[i] = usage[i]
      /\ usage'[Len(usage) + 1] = e
  BY AppendProperties
<1>3. usage' # <<>>
  BY AppendProperties
<1>4. /\ TotalTokens' = e.tokens /\ TotalEvaluations' = e.evaluations
      /\ Poisoned' <=> e.poisoned
  BY <1>1, <1>2, <1>3 DEF TotalTokens, TotalEvaluations, TokensAt, EvaluationsAt, Poisoned
<1>5. ASSUME NEW c \in Candidates
      PROVE  /\ Charged(c)' <=> Charged(c) \/ (e.candidate = c /\ e.kind = "GATE")
             /\ Reserved(c)' <=> Reserved(c) \/ (e.candidate = c /\ e.kind = "RESERVED")
             /\ Settled(c)' <=> Settled(c) \/ (e.candidate = c /\ e.kind \in SettlementKinds)
  <2>1. 1 .. Len(usage') = 1 .. Len(usage) \cup {Len(usage) + 1}
    BY <1>1, <1>2
  <2> QED BY <1>2, <2>1, EntriesAre, EntriesAreNext
<1> QED BY <1>2, <1>4, <1>5

(* What a charge must be for the chain to replay behind it.                 *)
Chargeable(e) ==
  /\ e.kind = "GATE" =>
       /\ e.evaluations = TotalEvaluations + GateEvaluations
       /\ e.tokens - TotalTokens \in GateTokens
       /\ ~Charged(e.candidate) /\ ~e.poisoned
  /\ e.kind = "RESERVED" =>
       /\ e.evaluations = TotalEvaluations + ProbeEvaluations
       /\ e.tokens = TotalTokens + ProbeTokens
       /\ ~Reserved(e.candidate) /\ ~e.poisoned
  /\ e.kind \in SettlementKinds =>
       /\ e.evaluations = TotalEvaluations
       /\ e.tokens > TotalTokens => e.poisoned
       /\ Reserved(e.candidate) /\ ~Settled(e.candidate)
  /\ e.tokens >= TotalTokens
  /\ ~e.poisoned => e.evaluations <= MaxEvaluations /\ e.tokens <= MaxTokens

(* The claims of a chain that replays.                                     *)
LEMMA ClaimsAre ==
  ASSUME usage \in Seq(Entry), NEW i \in 1 .. Len(usage)
  PROVE  /\ usage[i].kind \in {"GATE", "RESERVED"} \cup SettlementKinds
         /\ Claim(i) = "SETTLEMENT" <=> usage[i].kind \in SettlementKinds
         /\ Claim(i) = "GATE" <=> usage[i].kind = "GATE"
         /\ Claim(i) = "RESERVED" <=> usage[i].kind = "RESERVED"
         /\ Claim(i) \in {"GATE", "RESERVED", "SETTLEMENT"}
<1>1. usage[i] \in Entry
  BY ChainIs
<1> QED BY <1>1 DEF Entry, Claim, SettlementKinds

(* A chain stays replayable when such a charge is appended to an open one.   *)
LEMMA ReplayStays ==
  ASSUME usage \in Seq(Entry), NEW e \in Entry, usage' = Append(usage, e),
         LedgerInv, ~Poisoned, Chargeable(e)
  PROVE  /\ UsageReplays'
         /\ \A i, j \in DOMAIN usage' : i <= j => usage'[i].tokens <= usage'[j].tokens
<1>0. PICK n \in Nat : n = Len(usage)
  BY ChainIs
<1>1. /\ n \in Nat /\ DOMAIN usage = 1 .. n /\ \A i \in 1 .. n : usage[i] \in Entry
      /\ TotalTokens \in Nat /\ TotalEvaluations \in Nat
      /\ n > 0 => TotalTokens = usage[n].tokens /\ TotalEvaluations = usage[n].evaluations
      /\ n = 0 => TotalTokens = 0 /\ TotalEvaluations = 0
      /\ n > 0 => ~usage[n].poisoned
  BY <1>0, ChainIs
<1>2. /\ usage' \in Seq(Entry) /\ Len(usage') = n + 1 /\ DOMAIN usage' = 1 .. n + 1
      /\ \A i \in 1 .. n : usage'[i] = usage[i]
      /\ usage'[n + 1] = e
  BY <1>0, AppendIs
<1>3. TotalTokens = TokensAt(n) /\ TotalEvaluations = EvaluationsAt(n)
  BY <1>0 DEF TotalTokens, TotalEvaluations
<1>4. \A i \in 1 .. n : usage[i].tokens <= TotalTokens
  BY <1>1 DEF LedgerInv
<1>5. \A i \in 0 .. n : TokensAt(i)' = TokensAt(i) /\ EvaluationsAt(i)' = EvaluationsAt(i)
  BY <1>1, <1>2 DEF TokensAt, EvaluationsAt
<1>6. \A i \in 1 .. n : Claim(i)' = Claim(i)
  BY <1>2 DEF Claim
<1>7. /\ e.kind \in {"GATE", "RESERVED"} \cup SettlementKinds /\ e.tokens \in Nat
      /\ e.evaluations \in Nat
      /\ Claim(n + 1)' = IF e.kind \in SettlementKinds THEN "SETTLEMENT" ELSE e.kind
  <2>1. Claim(n + 1)' = IF e.kind \in SettlementKinds THEN "SETTLEMENT" ELSE e.kind
    BY <1>2 DEF Claim
  <2> QED BY <2>1 DEF Entry
<1>8. ASSUME NEW i \in 1 .. n + 1
      PROVE  /\ ChargeVerifies(i)'
             /\ usage'[i].poisoned => i = n + 1 /\ Claim(i)' = "SETTLEMENT"
             /\ ~usage'[i].poisoned => /\ usage'[i].evaluations <= MaxEvaluations
                                       /\ usage'[i].tokens <= MaxTokens
  <2>1. CASE i \in 1 .. n
    <3>1. i - 1 \in 0 .. n /\ i \in DOMAIN usage
      BY <1>1, <2>1
    <3>2. ChargeVerifies(i)
      BY <3>1 DEF LedgerInv, UsageReplays
    <3>3. ChargeVerifies(i)'
      BY <1>2, <1>5, <2>1, <3>1, <3>2 DEF ChargeVerifies
    <3>4. /\ usage[i].poisoned => i = Len(usage)
          /\ ~usage[i].poisoned => /\ usage[i].evaluations <= MaxEvaluations
                                   /\ usage[i].tokens <= MaxTokens
      BY <3>1 DEF LedgerInv, UsageReplays
    <3>5. ~usage[i].poisoned
      BY <1>0, <1>1, <2>1, <3>4
    <3> QED BY <1>2, <2>1, <3>3, <3>4, <3>5
  <2>2. CASE i = n + 1
    <3>1. i - 1 = n
      BY <1>1, <2>2
    <3>2. TokensAt(i - 1)' = TotalTokens /\ EvaluationsAt(i - 1)' = TotalEvaluations
      BY <1>1, <1>3, <1>5, <3>1
    <3>3. ChargeVerifies(i)'
      <4>1. CASE e.kind = "GATE"
        BY <1>1, <1>2, <1>7, <2>2, <3>2, <4>1, BudgetAssumption
          DEF ChargeVerifies, Chargeable, BudgetAssumption
      <4>2. CASE e.kind = "RESERVED"
        <5>1. ProbeTokens \in Nat /\ ProbeEvaluations \in Nat
          BY BudgetsAre
        <5> QED BY <1>1, <1>2, <1>7, <2>2, <3>2, <4>2, <5>1 DEF ChargeVerifies, Chargeable
      <4>3. CASE e.kind \in SettlementKinds
        BY <1>1, <1>2, <1>7, <2>2, <3>2, <4>3
          DEF ChargeVerifies, Chargeable, SettlementKinds
      <4> QED BY <1>7, <4>1, <4>2, <4>3
    <3> QED BY <1>2, <1>7, <2>2, <3>3 DEF Chargeable
  <2> QED BY <1>1, <2>1, <2>2
<1>9. ASSUME NEW i \in 1 .. n + 1, NEW j \in 1 .. i - 1, usage'[j].candidate = usage'[i].candidate
      PROVE  Claim(j)' # Claim(i)'
  <2>1. j \in 1 .. n
    BY <1>1
  <2>2. CASE i \in 1 .. n
    BY <1>1, <1>2, <1>6, <1>9, <2>1, <2>2 DEF LedgerInv, UsageReplays
  <2>3. CASE i = n + 1
    BY <1>2, <1>6, <1>7, <1>0, <1>9, <2>1, <2>3, ClaimsAre, EntriesAre DEF Chargeable
  <2> QED BY <1>1, <2>2, <2>3
<1>10. ASSUME NEW i \in 1 .. n + 1, Claim(i)' = "SETTLEMENT"
       PROVE  \E j \in 1 .. i - 1 :
                usage'[j].candidate = usage'[i].candidate /\ usage'[j].kind = "RESERVED"
  <2>1. CASE i \in 1 .. n
    <3>1. PICK j \in 1 .. i - 1 :
            usage[j].candidate = usage[i].candidate /\ usage[j].kind = "RESERVED"
      BY <1>1, <1>6, <1>10, <2>1 DEF LedgerInv, UsageReplays
    <3> QED BY <1>1, <1>2, <2>1, <3>1
  <2>2. CASE i = n + 1
    <3>1. Reserved(e.candidate)
      BY <1>7, <1>10, <2>2 DEF Chargeable
    <3>2. PICK j \in 1 .. n : usage[j].candidate = e.candidate /\ usage[j].kind = "RESERVED"
      BY <1>0, <3>1, EntriesAre
    <3> QED BY <1>1, <1>2, <2>2, <3>2
  <2> QED BY <1>1, <2>1, <2>2
<1>11. ASSUME NEW i \in 1 .. n + 1, NEW j \in 1 .. n + 1, i <= j
       PROVE  usage'[i].tokens <= usage'[j].tokens
  <2>1. CASE j \in 1 .. n
    BY <1>1, <1>2, <1>11, <2>1 DEF LedgerInv
  <2>2. CASE i \in 1 .. n /\ j = n + 1
    BY <1>1, <1>2, <1>4, <1>7, <2>2 DEF Chargeable, Entry
  <2>3. CASE i = n + 1 /\ j = n + 1
    BY <1>2, <1>7, <2>3
  <2> QED BY <1>1, <1>11, <2>1, <2>2, <2>3
<1> QED BY <1>2, <1>8, <1>9, <1>10, <1>11 DEF UsageReplays

(* A prefix of the chain replays, and its totals are no higher.             *)
LEMMA PrefixReplays ==
  ASSUME usage \in Seq(Entry), LedgerInv, NEW n \in 0 .. Len(usage), usage' = SubSeq(usage, 1, n)
  PROVE  /\ usage' \in Seq(Entry) /\ Len(usage') = n
         /\ UsageReplays'
         /\ \A i, j \in DOMAIN usage' : i <= j => usage'[i].tokens <= usage'[j].tokens
         /\ TotalTokens' \in Nat /\ TotalTokens' <= TotalTokens
<1>1. /\ Len(usage) \in Nat /\ DOMAIN usage = 1 .. Len(usage)
      /\ \A i \in 1 .. Len(usage) : usage[i] \in Entry
      /\ TotalTokens \in Nat
      /\ Len(usage) > 0 => TotalTokens = usage[Len(usage)].tokens
  BY ChainIs
<1>2. /\ usage' \in Seq(Entry) /\ Len(usage') = n /\ DOMAIN usage' = 1 .. n
      /\ \A i \in 1 .. n : usage'[i] = usage[i]
  BY <1>1, SubSeqProperties
<1>3. \A i \in 0 .. n : TokensAt(i)' = TokensAt(i) /\ EvaluationsAt(i)' = EvaluationsAt(i)
  BY <1>1, <1>2 DEF TokensAt, EvaluationsAt
<1>4. \A i \in 1 .. n : Claim(i)' = Claim(i)
  BY <1>2 DEF Claim
<1>5. ASSUME NEW i \in 1 .. n
      PROVE  /\ ChargeVerifies(i)'
             /\ usage'[i].poisoned => i = n /\ Claim(i)' = "SETTLEMENT"
             /\ ~usage'[i].poisoned => /\ usage'[i].evaluations <= MaxEvaluations
                                       /\ usage'[i].tokens <= MaxTokens
  <2>1. i - 1 \in 0 .. n /\ i \in DOMAIN usage
    BY <1>1
  <2>2. /\ ChargeVerifies(i)
        /\ usage[i].poisoned => i = Len(usage) /\ Claim(i) = "SETTLEMENT"
        /\ ~usage[i].poisoned => /\ usage[i].evaluations <= MaxEvaluations
                                 /\ usage[i].tokens <= MaxTokens
    BY <2>1 DEF LedgerInv, UsageReplays
  <2>3. ChargeVerifies(i)'
    BY <1>2, <1>3, <2>1, <2>2 DEF ChargeVerifies
  <2>4. usage[i].poisoned => i = n
    BY <1>1, <2>2
  <2> QED BY <1>2, <1>4, <2>2, <2>3, <2>4
<1>6. ASSUME NEW i \in 1 .. n
      PROVE  /\ \A j \in 1 .. i - 1 :
                  usage'[j].candidate = usage'[i].candidate => Claim(j)' # Claim(i)'
             /\ Claim(i)' = "SETTLEMENT" =>
                  \E j \in 1 .. i - 1 :
                    usage'[j].candidate = usage'[i].candidate /\ usage'[j].kind = "RESERVED"
  <2>1. i \in DOMAIN usage /\ 1 .. i - 1 \subseteq 1 .. n
    BY <1>1
  <2>2. /\ \A j \in 1 .. i - 1 :
             usage[j].candidate = usage[i].candidate => Claim(j) # Claim(i)
        /\ Claim(i) = "SETTLEMENT" =>
             \E j \in 1 .. i - 1 :
               usage[j].candidate = usage[i].candidate /\ usage[j].kind = "RESERVED"
    BY <2>1 DEF LedgerInv, UsageReplays
  <2>3. usage'[i] = usage[i] /\ Claim(i)' = Claim(i)
    BY <1>2, <1>4
  <2>4. \A j \in 1 .. i - 1 : usage'[j] = usage[j] /\ Claim(j)' = Claim(j)
    BY <1>2, <1>4, <2>1
  <2> QED BY <2>2, <2>3, <2>4
<1>7. UsageReplays'
  BY <1>2, <1>5, <1>6 DEF UsageReplays
<1>8. TotalTokens' \in Nat /\ TotalTokens' <= TotalTokens
  <2>1. TotalTokens' = IF n = 0 THEN 0 ELSE usage[n].tokens
    BY <1>2 DEF TotalTokens, TokensAt
  <2>2. n > 0 => usage[n].tokens \in Nat
    BY <1>1 DEF Entry
  <2> QED BY <1>1, <2>1, <2>2 DEF LedgerInv
<1> QED BY <1>1, <1>2, <1>7, <1>8 DEF LedgerInv

-----------------------------------------------------------------------------
(* The lock                                                                *)

(* What the holder of the lock is doing.                                   *)
LEMMA LockIs ==
  /\ Idle.step = "IDLE"
  /\ worker \in Holding =>
       /\ ~Unlocked /\ \A step : At(step) <=> worker.step = step
       /\ worker.candidate \in Candidates /\ worker.head \in Nat /\ worker.tokens \in Nat
       /\ worker.step \in ProbeSteps \cup EvidenceSteps
       /\ \A c : Working(c) <=> worker.candidate = c
  /\ Unlocked => \A step, c : ~At(step) /\ ~Working(c)
BY DEF Holding, Idle, Unlocked, At, Working, ProbeSteps, EvidenceSteps

(* While the chain stays, so does everything it says.                       *)
LEMMA ChainStays ==
  ASSUME UNCHANGED usage
  PROVE  /\ TotalTokens' = TotalTokens /\ TotalEvaluations' = TotalEvaluations
         /\ Poisoned' = Poisoned /\ UsageReplays' = UsageReplays
         /\ \A c : Charged(c)' = Charged(c) /\ Reserved(c)' = Reserved(c) /\ Settled(c)' = Settled(c)
         /\ \A c, kinds : EntriesOf(c, kinds)' = EntriesOf(c, kinds)
BY DEF TotalTokens, TotalEvaluations, TokensAt, EvaluationsAt, Poisoned, UsageReplays,
     ChargeVerifies, Claim, Charged, Reserved, Settled, EntriesOf

-----------------------------------------------------------------------------
(* What the lock holder writes                                             *)

USE DEF controlVars, ledgerVars, boundVars

(* A reservation, the first of its candidate, fits the budget.             *)
LEMMA ReserveWrites ==
  ASSUME IInv, ReserveProbe, ~Reserved(worker.candidate)
  PROVE  \E e \in Entry :
           /\ usage' = Append(usage, e) /\ Chargeable(e)
           /\ e.candidate = worker.candidate /\ e.kind = "RESERVED" /\ ~e.poisoned
           /\ e.tokens = TotalTokens + ProbeTokens
<1> DEFINE e == NewEntry("RESERVED", worker.candidate, ProbeEvaluations, ProbeTokens, FALSE)
<1>1. /\ usage \in Seq(Entry) /\ worker.candidate \in Candidates
      /\ usage' = Append(usage, e) /\ Fits(ProbeEvaluations, ProbeTokens)
  BY LockIs DEF IInv, TypeOK, ReserveProbe
<1>2. ProbeTokens \in Nat /\ ProbeEvaluations \in Nat
  BY BudgetsAre
<1>3. /\ e \in Entry /\ e.kind = "RESERVED" /\ e.candidate = worker.candidate
      /\ e.evaluations = TotalEvaluations + ProbeEvaluations
      /\ e.tokens = TotalTokens + ProbeTokens /\ e.poisoned = FALSE
  BY <1>1, <1>2, ChainIs DEF NewEntry, Entry
<1> HIDE DEF e
<1>4. TotalTokens \in Nat
  BY <1>1, ChainIs
<1>5. Chargeable(e)
  BY <1>1, <1>2, <1>3, <1>4 DEF Chargeable, Fits, SettlementKinds
<1> QED BY <1>1, <1>3, <1>5

(* A settlement adds what the arms spent over the reservation, which is     *)
(* nothing unless an attempt overran its ceiling.                          *)
LEMMA SettleWrites ==
  ASSUME IInv, SettleProbe \/ SettlementUnseen
  PROVE  \E e \in Entry :
           /\ usage' = Append(usage, e) /\ Chargeable(e)
           /\ e.candidate = worker.candidate /\ e.kind = worker.kind
           /\ worker.kind \in SettlementKinds /\ e.poisoned = worker.poisoned
<1> DEFINE e == NewEntry(worker.kind, worker.candidate, 0, Overrun, worker.poisoned)
<1>1. /\ usage \in Seq(Entry) /\ worker.candidate \in Candidates /\ worker.tokens \in Nat
      /\ usage' = Append(usage, e) /\ worker \in Holding /\ worker.step = "SETTLE"
      /\ AccountingOpen
  BY LockIs DEF IInv, TypeOK, SettleProbe, SettlementUnseen, SettlementOf, At
<1>2. /\ worker.kind \in SettlementKinds /\ worker.poisoned \in BOOLEAN
      /\ Reserved(worker.candidate) /\ ~Settled(worker.candidate)
      /\ ~worker.poisoned => worker.tokens <= ProbeTokens
  BY <1>1, LockIs DEF IInv, WorkerInv, ProbeHeld, Holding, ProbeSteps, ExecutionSteps
<1>3. Overrun \in Nat /\ (~worker.poisoned => Overrun = 0)
  BY <1>1, <1>2, BudgetsAre DEF Overrun
<1>4. /\ e \in Entry /\ e.kind = worker.kind /\ e.candidate = worker.candidate
      /\ e.evaluations = TotalEvaluations + 0
      /\ e.tokens = TotalTokens + Overrun /\ e.poisoned = worker.poisoned
  BY <1>1, <1>2, <1>3, ChainIs DEF NewEntry, Entry
<1>5. /\ TotalTokens \in Nat /\ TotalEvaluations \in Nat
      /\ TotalEvaluations <= MaxEvaluations /\ TotalTokens <= MaxTokens
  <2>1. Len(usage) > 0 /\ ~usage[Len(usage)].poisoned /\ Len(usage) \in DOMAIN usage
    BY <1>1, <1>2, ChainIs, EntriesAre DEF AccountingOpen
  <2>2. UsageReplays
    BY <1>1 DEF AccountingOpen
  <2> QED BY <1>1, <2>1, <2>2, ChainIs DEF UsageReplays
<1> HIDE DEF e
<1>6. Chargeable(e)
  BY <1>2, <1>3, <1>4, <1>5 DEF Chargeable, SettlementKinds
<1> QED BY <1>1, <1>2, <1>4, <1>6

(* A gate charge, the first of its candidate, still fits when it is published. *)
LEMMA ChargeWrites ==
  ASSUME IInv, ChargeEvidence
  PROVE  \E e \in Entry :
           /\ usage' = Append(usage, e) /\ Chargeable(e)
           /\ e.candidate = worker.candidate /\ e.kind = "GATE" /\ ~e.poisoned
<1> DEFINE e == NewEntry("GATE", worker.candidate, GateEvaluations, worker.tokens, FALSE)
<1>1. /\ usage \in Seq(Entry) /\ worker.candidate \in Candidates /\ worker.tokens \in Nat
      /\ usage' = Append(usage, e) /\ ~Unlocked /\ worker.step = "CHARGE"
  BY LockIs DEF IInv, TypeOK, ChargeEvidence, At
<1>2. /\ worker.tokens \in GateTokens /\ ~Charged(worker.candidate)
      /\ Fits(GateEvaluations, worker.tokens) /\ GateEvaluations \in Nat
  BY <1>1, BudgetsAre DEF IInv, WorkerInv, EvidenceHeld, EvidenceSteps
<1>3. /\ e \in Entry /\ e.kind = "GATE" /\ e.candidate = worker.candidate
      /\ e.evaluations = TotalEvaluations + GateEvaluations
      /\ e.tokens = TotalTokens + worker.tokens /\ e.poisoned = FALSE
  BY <1>1, <1>2, ChainIs DEF NewEntry, Entry
<1>4. TotalTokens \in Nat
  BY <1>1, ChainIs
<1> HIDE DEF e
<1>5. Chargeable(e)
  BY <1>1, <1>2, <1>3, <1>4 DEF Chargeable, Fits, SettlementKinds
<1> QED BY <1>1, <1>3, <1>5

-----------------------------------------------------------------------------
(* One step of each kind                                                   *)

(* Within a call the lock stays with its candidate, and the step moves on.  *)
LEMMA LockMoves ==
  ASSUME IInv
  PROVE  LET Stays == /\ worker \in Holding /\ worker' \in Holding
                      /\ worker'.candidate = worker.candidate
                      /\ worker'.head = worker.head
         IN  /\ ReserveProbe => Stays /\ worker.step = "RESERVE" /\ worker'.step = "BEGIN"
             /\ BeginGrant => /\ Stays /\ worker.step = "BEGIN"
                              /\ worker'.step \in {"REVERT", "SETTLE"}
             /\ RunRevert \/ RunPlacebo => /\ Stays /\ worker.step \in {"REVERT", "PLACEBO"}
                                           /\ worker'.step \in {"PLACEBO", "CLOSE", "SETTLE"}
             /\ CloseExecution \/ CloseFails => /\ Stays /\ worker.step = "CLOSE"
                                                /\ worker'.step \in {"VERIFY", "SETTLE"}
             /\ VerifyResult => Stays /\ worker.step = "VERIFY" /\ worker'.step = "SETTLE"
             /\ AppendEvidence => Stays /\ worker.step = "APPEND" /\ worker'.step = "CHARGE"
<1> USE DEF ProbeSteps, EvidenceSteps
<1> DEFINE Stays == /\ worker \in Holding /\ worker' \in Holding
                    /\ worker'.candidate = worker.candidate /\ worker'.head = worker.head
<1>1. \A step : At(step) => worker \in Holding /\ worker.step = step
  BY LockIs DEF IInv, TypeOK, At
<1>2. ASSUME worker \in Holding, NEW step \in ProbeSteps \cup EvidenceSteps, GoTo(step)
      PROVE  /\ worker' \in Holding /\ worker'.step = step
             /\ worker'.candidate = worker.candidate /\ worker'.head = worker.head
  BY <1>2 DEF GoTo, Holding
<1>3. ASSUME worker \in Holding, NEW step \in {"PLACEBO", "CLOSE", "SETTLE"}, NEW e \in ArmCharges,
             NEW p \in BOOLEAN,
             \/ worker' = [worker EXCEPT !.step = step, !.tokens = @ + e]
             \/ worker' = [worker EXCEPT !.step = step, !.tokens = @ + e, !.poisoned = p]
      PROVE  /\ worker' \in Holding /\ worker'.step = step
             /\ worker'.candidate = worker.candidate /\ worker'.head = worker.head
  <2>1. worker.tokens + e \in Nat
    BY <1>3, BudgetsAre DEF Holding
  <2> QED BY <1>3, <2>1 DEF Holding
<1>4. ReserveProbe => Stays /\ worker.step = "RESERVE" /\ worker'.step = "BEGIN"
  BY <1>1, <1>2 DEF ReserveProbe
<1>5. BeginGrant => Stays /\ worker.step = "BEGIN" /\ worker'.step \in {"REVERT", "SETTLE"}
  BY <1>1, <1>2 DEF BeginGrant
<1>6. ASSUME NEW arm \in {"REVERT", "PLACEBO"}, NEW next \in {"PLACEBO", "CLOSE"}, NEW e \in ArmCharges,
             ArmSettles(arm, next, e) \/ \E p \in BOOLEAN : ArmFails(arm, e, p)
      PROVE  /\ worker \in Holding /\ worker' \in Holding /\ worker.step = arm
             /\ worker'.step \in {next, "SETTLE"}
             /\ worker'.candidate = worker.candidate /\ worker'.head = worker.head
  BY <1>1, <1>3, <1>6 DEF ArmSettles, ArmFails
<1>7. RunRevert => Stays /\ worker.step = "REVERT" /\ worker'.step \in {"PLACEBO", "SETTLE"}
  BY <1>6 DEF RunRevert
<1>8. RunPlacebo => Stays /\ worker.step = "PLACEBO" /\ worker'.step \in {"CLOSE", "SETTLE"}
  BY <1>6 DEF RunPlacebo
<1>9. CloseExecution \/ CloseFails =>
        Stays /\ worker.step = "CLOSE" /\ worker'.step \in {"VERIFY", "SETTLE"}
  BY <1>1, <1>2 DEF CloseExecution, CloseFails
<1>10. ASSUME VerifyResult PROVE Stays /\ worker.step = "VERIFY" /\ worker'.step = "SETTLE"
  <2>1. worker \in Holding /\ worker.step = "VERIFY"
    BY <1>1, <1>10 DEF VerifyResult
  <2>2. CASE GoTo("SETTLE")
    BY <1>2, <2>1, <2>2
  <2>3. CASE worker' = [worker EXCEPT !.step = "SETTLE",
                        !.kind = IF Current(worker.candidate) THEN "COMPLETED" ELSE "FAILED"]
    BY <2>1, <2>3 DEF Holding, SettlementKinds
  <2> QED BY <1>10, <2>1, <2>2, <2>3 DEF VerifyResult
<1>11. AppendEvidence => Stays /\ worker.step = "APPEND" /\ worker'.step = "CHARGE"
  BY <1>1, <1>2 DEF AppendEvidence
<1> QED BY <1>4, <1>5, <1>7, <1>8, <1>9, <1>10, <1>11

-----------------------------------------------------------------------------
(* What each write does to the ledger                                      *)

\* Settlements that are on the chain stay there.
KeepsSettlements ==
  \A c \in Candidates : \A i \in EntriesOf(c, {"COMPLETED"}) :
    ~usage[i].poisoned => i \in EntriesOf(c, {"COMPLETED"})' /\ ~usage'[i].poisoned

(* A charge behind an open chain leaves it a good ledger.                   *)
LEMMA Appended ==
  ASSUME IInv, NEW e \in Entry, usage' = Append(usage, e), ~Poisoned, Chargeable(e)
  PROVE  LedgerInv' /\ KeepsSettlements /\ usage' \in Seq(Entry) /\ Len(usage) <= Len(usage')
<1>1. usage \in Seq(Entry) /\ LedgerInv
  BY DEF IInv, TypeOK
<1>2. /\ usage' \in Seq(Entry) /\ Len(usage') = Len(usage) + 1 /\ (Poisoned' <=> e.poisoned)
      /\ DOMAIN usage' = 1 .. Len(usage) + 1 /\ \A i \in 1 .. Len(usage) : usage'[i] = usage[i]
  BY <1>1, AppendIs
<1>3. Len(usage) \in Nat /\ DOMAIN usage = 1 .. Len(usage)
  BY <1>1, ChainIs
<1>4. LedgerInv'
  BY <1>1, <1>2, ReplayStays DEF LedgerInv
<1>5. KeepsSettlements
  BY <1>2, <1>3 DEF KeepsSettlements, EntriesOf
<1> QED BY <1>2, <1>3, <1>4, <1>5

(* Reserving charges the candidate's probes once.                          *)
LEMMA ReserveEffect ==
  ASSUME IInv, ReserveProbe
  PROVE  /\ LedgerInv' /\ KeepsSettlements /\ usage' \in Seq(Entry) /\ Len(usage) <= Len(usage')
         /\ ~Poisoned'
         /\ \A c \in Candidates :
              /\ Charged(c)' <=> Charged(c)
              /\ Settled(c)' <=> Settled(c)
              /\ Reserved(c)' <=> Reserved(c) \/ worker.candidate = c
<1>1. /\ usage \in Seq(Entry) /\ LedgerInv /\ ~Poisoned /\ UNCHANGED blocked
      /\ Len(usage) \in Nat
  BY ChainIs DEF IInv, TypeOK, ReserveProbe, AccountingOpen
<1>2. CASE Reserved(worker.candidate)
  <2>1. UNCHANGED usage
    BY <1>2 DEF ReserveProbe
  <2>2. LedgerInv' /\ KeepsSettlements
    BY <1>1, <2>1, ChainStays DEF LedgerInv, KeepsSettlements
  <2> QED BY <1>1, <1>2, <2>1, <2>2, ChainStays
<1>3. CASE ~Reserved(worker.candidate)
  <2>1. PICK e \in Entry :
          /\ usage' = Append(usage, e) /\ Chargeable(e)
          /\ e.candidate = worker.candidate /\ e.kind = "RESERVED" /\ ~e.poisoned
    BY <1>3, ReserveWrites
  <2> QED BY <1>1, <2>1, Appended, AppendIs DEF SettlementKinds
<1> QED BY <1>2, <1>3

(* Settling closes the candidate's reservation.                            *)
LEMMA SettleEffect ==
  ASSUME IInv, SettleProbe \/ SettlementUnseen
  PROVE  /\ LedgerInv' /\ KeepsSettlements /\ usage' \in Seq(Entry) /\ Len(usage) <= Len(usage')
         /\ \A c \in Candidates :
              /\ Charged(c)' <=> Charged(c)
              /\ Settled(c)' <=> Settled(c) \/ worker.candidate = c
              /\ Reserved(c)' <=> Reserved(c)
              /\ worker.candidate = c /\ worker.kind = "COMPLETED" =>
                   \E i \in EntriesOf(c, {"COMPLETED"})' : ~usage'[i].poisoned
<1>1. PICK e \in Entry :
        /\ usage' = Append(usage, e) /\ Chargeable(e)
        /\ e.candidate = worker.candidate /\ e.kind = worker.kind
        /\ worker.kind \in SettlementKinds /\ e.poisoned = worker.poisoned
  BY SettleWrites
<1>2. /\ usage \in Seq(Entry) /\ LedgerInv /\ ~Poisoned
      /\ worker.kind = "COMPLETED" => ~worker.poisoned
  BY LockIs DEF IInv, TypeOK, SettleProbe, SettlementUnseen, AccountingOpen, At, WorkerInv, ProbeHeld
<1>3. /\ LedgerInv' /\ KeepsSettlements /\ usage' \in Seq(Entry) /\ Len(usage) <= Len(usage')
  BY <1>1, <1>2, Appended
<1>4. \A c \in Candidates :
        /\ Charged(c)' <=> Charged(c)
        /\ Settled(c)' <=> Settled(c) \/ worker.candidate = c
        /\ Reserved(c)' <=> Reserved(c)
  BY <1>1, <1>2, AppendIs DEF SettlementKinds
<1>5. ASSUME NEW c \in Candidates, worker.candidate = c, worker.kind = "COMPLETED"
      PROVE  \E i \in EntriesOf(c, {"COMPLETED"})' : ~usage'[i].poisoned
  <2>1. Len(usage) + 1 \in DOMAIN usage' /\ usage'[Len(usage) + 1] = e
    BY <1>1, <1>2, ChainIs, AppendIs
  <2> QED BY <1>1, <1>2, <1>5, <2>1 DEF EntriesOf
<1> QED BY <1>3, <1>4, <1>5

(* Publishing gate evidence charges its candidate.                         *)
LEMMA ChargeEffect ==
  ASSUME IInv, ChargeEvidence
  PROVE  /\ LedgerInv' /\ KeepsSettlements /\ usage' \in Seq(Entry) /\ Len(usage) <= Len(usage')
         /\ \A c \in Candidates :
              /\ Charged(c)' <=> Charged(c) \/ worker.candidate = c
              /\ Settled(c)' <=> Settled(c)
              /\ Reserved(c)' <=> Reserved(c)
<1>1. PICK e \in Entry :
        /\ usage' = Append(usage, e) /\ Chargeable(e)
        /\ e.candidate = worker.candidate /\ e.kind = "GATE" /\ ~e.poisoned
  BY ChargeWrites
<1>2. usage \in Seq(Entry) /\ ~Poisoned
  BY LockIs DEF IInv, TypeOK, ChargeEvidence, At, WorkerInv
<1> QED BY <1>1, <1>2, Appended, AppendIs DEF SettlementKinds

(* A restarted controller has what its caller kept, and nothing else.       *)
LEMMA RestartEffect ==
  ASSUME IInv, Restart
  PROVE  /\ LedgerInv' /\ usage' \in Seq(Entry)
         /\ TotalTokens' \in Nat /\ TotalTokens' <= TotalTokens
         /\ \A c \in Candidates : Reserved(c)' => resumed'
<1> DEFINE kept == IF Unlocked THEN Len(usage) ELSE worker.head
<1>1. PICK n \in 0 .. Len(usage) : n = kept
  <2>1. Len(usage) \in Nat /\ (worker \in Holding => worker.head \in Nat)
    BY ChainIs, LockIs DEF IInv, TypeOK
  <2> QED BY <2>1 DEF IInv, TypeOK, WorkerInv
<1>2. /\ usage' = SubSeq(usage, 1, n)
      /\ blocked' = (usage' # <<>> /\ usage'[Len(usage')].poisoned)
      /\ resumed' = (usage' # <<>>)
  BY <1>1 DEF Restart
<1>3. /\ usage' \in Seq(Entry) /\ Len(usage') = n /\ UsageReplays'
      /\ \A i, j \in DOMAIN usage' : i <= j => usage'[i].tokens <= usage'[j].tokens
      /\ TotalTokens' \in Nat /\ TotalTokens' <= TotalTokens
  BY <1>2, PrefixReplays DEF IInv, TypeOK
<1>4. LedgerInv'
  BY <1>2, <1>3 DEF LedgerInv, Poisoned
<1>5. \A c \in Candidates : Reserved(c)' => resumed'
  <2>1. ASSUME NEW c \in Candidates, Reserved(c)' PROVE usage' # <<>>
    <3>1. PICK i \in 1 .. Len(usage') : usage'[i].candidate = c
      BY <1>3, <2>1, EntriesAreNext
    <3>2. <<>> \in Seq(Entry) /\ Len(<<>>) = 0
      BY EmptySeq
    <3> QED BY <3>1, <3>2
  <2> QED BY <1>2, <2>1
<1> QED BY <1>3, <1>4, <1>5

(* An arm spends within its schedule unless it is poisoned, and moves nothing *)
(* but the lock holder's own account.                                      *)
LEMMA ArmEffect ==
  ASSUME IInv, RunRevert \/ RunPlacebo
  PROVE  /\ UNCHANGED <<controlVars, grant, ledgerVars, resumed, results, unread, boundVars>>
         /\ worker'.kind = worker.kind /\ worker.kind = "FAILED"
         /\ worker'.step = "PLACEBO" => worker'.tokens <= ArmTokens
         /\ ~worker'.poisoned => worker'.tokens <= ProbeTokens
         /\ worker'.step # "SETTLE" => ~worker'.poisoned
<1>1. worker \in Holding /\ worker.step \in {"REVERT", "PLACEBO"} /\ ~Unlocked
  BY LockMoves, LockIs
<1>2. /\ worker.kind = "FAILED" /\ ~worker.poisoned
      /\ worker.step = "REVERT" => worker.tokens = 0
      /\ worker.step = "PLACEBO" => worker.tokens <= ArmTokens
  BY <1>1 DEF IInv, WorkerInv, ProbeHeld, ProbeSteps
<1>3. ASSUME NEW arm \in {"REVERT", "PLACEBO"}, NEW next \in {"PLACEBO", "CLOSE"},
             arm = "REVERT" <=> next = "PLACEBO", NEW e \in ArmCharges,
             ArmSettles(arm, next, e)
      PROVE  /\ worker'.kind = worker.kind /\ worker'.poisoned = worker.poisoned
             /\ worker'.tokens <= ProbeTokens
             /\ worker'.step = "PLACEBO" => worker'.tokens <= ArmTokens
  BY <1>1, <1>2, <1>3, LockIs, BudgetsAre DEF ArmSettles, At, Holding
<1>4. ASSUME NEW arm \in {"REVERT", "PLACEBO"}, NEW e \in ArmCharges, NEW p \in BOOLEAN,
             ArmFails(arm, e, p)
      PROVE  /\ worker'.kind = worker.kind /\ worker'.step = "SETTLE"
             /\ ~worker'.poisoned => worker'.tokens <= ProbeTokens
  <2>1. worker.tokens + e \in Nat /\ worker.tokens <= ArmTokens /\ worker.tokens \in Nat
    BY <1>1, <1>2, BudgetsAre DEF Holding
  <2>2. worker' = [worker EXCEPT !.step = "SETTLE", !.tokens = @ + e, !.poisoned = p]
    BY <1>4 DEF ArmFails
  <2>3. worker'.kind = worker.kind /\ worker'.step = "SETTLE"
        /\ worker'.tokens = worker.tokens + e /\ worker'.poisoned = p
    BY <1>1, <2>2 DEF Holding
  <2>4. ~p => e <= ArmTokens
    BY <1>4 DEF ArmFails
  <2> QED BY <2>1, <2>3, <2>4, BudgetsAre
<1>5. UNCHANGED <<controlVars, grant, ledgerVars, resumed, results, unread, boundVars>>
  BY DEF RunRevert, RunPlacebo, ArmSettles, ArmFails
<1> QED BY <1>2, <1>3, <1>4, <1>5 DEF RunRevert, RunPlacebo

(* A settlement has its reservation before it.                             *)
LEMMA SettledIsReserved ==
  ASSUME usage \in Seq(Entry), LedgerInv, NEW c, Settled(c)
  PROVE  Reserved(c)
<1>1. PICK i \in 1 .. Len(usage) : usage[i].candidate = c /\ usage[i].kind \in SettlementKinds
  BY EntriesAre
<1>2. \E j \in 1 .. i - 1 : usage[j].candidate = c /\ usage[j].kind = "RESERVED"
  BY <1>1, ChainIs, ClaimsAre DEF LedgerInv, UsageReplays
<1>3. 1 .. i - 1 \subseteq 1 .. Len(usage)
  BY ChainIs
<1> QED BY <1>2, <1>3, EntriesAre

(* Reserving leaves the call ready to burn a grant that has never run, or to refuse *)
(* one whose execution was settled.                                        *)
LEMMA ReserveReady == ASSUME IInv, ReserveProbe PROVE WorkerInv'
<1> DEFINE w == worker.candidate
<1>1. /\ worker \in Holding /\ worker' \in Holding /\ worker.step = "RESERVE" /\ worker'.step = "BEGIN"
      /\ worker'.candidate = worker.candidate /\ worker'.head = worker.head
      /\ ~Unlocked /\ worker.candidate \in Candidates
  BY LockMoves, LockIs
<1>2. /\ worker' = [worker EXCEPT !.step = "BEGIN"]
      /\ UNCHANGED <<experiment, candidate, grant, blocked, resumed, unread>>
  BY DEF ReserveProbe, GoTo
<1>3. worker'.kind = worker.kind /\ worker'.tokens = worker.tokens /\ worker'.poisoned = worker.poisoned
  BY <1>1, <1>2 DEF Holding
<1>4. /\ experiment \in {"SEARCHING", "INVALIDATED"} /\ ~blocked /\ ~resumed
      /\ worker.head <= Len(usage) /\ worker.head \in Nat
      /\ worker.kind = "FAILED" /\ worker.tokens = 0 /\ ~worker.poisoned /\ grant[w] # "NONE"
  BY <1>1, LockIs DEF IInv, WorkerInv, ProbeHeld, ProbeSteps
<1>5. grant[w] = "ISSUED" <=> ~Settled(w)' /\ w \notin unread
  <2>1. Settled(w) => Reserved(w)
    BY SettledIsReserved DEF IInv, TypeOK
  <2>2. CASE grant[w] = "ISSUED"
    <3>1. ~Reserved(w) /\ w \notin unread
      BY <1>1, <2>2, LockIs DEF IInv, GrantInv, GrantStands, SpendingAccounted, ReservationSettled
    <3> QED BY <1>1, <2>1, <2>2, <3>1, ReserveEffect
  <2>3. CASE grant[w] \in {"STARTED", "CLOSED"}
    <3>1. Reserved(w)
      BY <1>1, <2>3 DEF IInv, GrantInv, GrantStands
    <3>2. Settled(w) \/ w \in unread
      BY <1>1, <1>4, <3>1, LockIs DEF IInv, SpendingAccounted, ReservationSettled, Decided
    <3> QED BY <1>1, <2>3, <3>2, ReserveEffect
  <2> QED BY <1>1, <1>4, <2>2, <2>3 DEF IInv, TypeOK
<1>6. EvidenceHeld' /\ ProbeHeld'
  BY <1>1, <1>2, <1>3, <1>4, <1>5, BudgetsAre, ReserveEffect DEF EvidenceHeld, ProbeHeld, EvidenceSteps, ProbeSteps, ExecutionSteps, SettlementKinds
<1>7. Len(usage) \in Nat /\ Len(usage') \in Nat
  BY ReserveEffect, ChainIs DEF IInv, TypeOK
<1> QED BY <1>1, <1>2, <1>4, <1>6, <1>7, ReserveEffect DEF WorkerInv

-----------------------------------------------------------------------------
(* Every step keeps the invariant                                          *)

(* Types are kept.                                                         *)
LEMMA TypeKept ==
  ASSUME IInv, [Next]_vars PROVE TypeOK'
<1> USE LockIs DEF IInv, TypeOK
<1>1. CASE \/ Freeze \/ StartSearch \/ CloseSelection
           \/ StartSealed \/ CompleteExperiment \/ InvalidateExperiment
  BY <1>1, ChainIs DEF Freeze, StartSearch, CloseSelection, StartSealed, CompleteExperiment,
       Advance, InvalidateExperiment, ExperimentStates, Unlocked
<1>2. ASSUME NEW c \in Candidates, \/ RegisterCandidate(c) \/ AdmitCandidate(c) \/ StartProbes(c)
                                   \/ StartGate(c) \/ FinalizeCandidate(c)
      PROVE  TypeOK'
  BY <1>2 DEF RegisterCandidate, AdmitCandidate, StartProbes, StartGate, FinalizeCandidate, Move,
       CandidateStates, Harnesses, Unlocked
<1>3. ASSUME NEW c \in Candidates, IssueGrant(c)
      PROVE  TypeOK'
  BY <1>3 DEF IssueGrant, Unlocked
<1>4. ASSUME NEW c \in Candidates, BeginExecution(c)
      PROVE  TypeOK'
  BY <1>4, ChainIs DEF BeginExecution, Lock, Holding, ProbeSteps, SettlementKinds
<1>5. ASSUME NEW c \in Candidates, NEW tokens \in GateTokens, CheckEvidence(c, tokens)
      PROVE  TypeOK'
  BY <1>5, ChainIs, BudgetsAre DEF CheckEvidence, Lock, Holding, EvidenceSteps
<1>6. CASE \/ ReservationFails \/ RefuseStartedGrant
           \/ SettlementUnread \/ SettlementFails \/ AppendEvidenceFails
  <2>1. /\ UNCHANGED <<controlVars, grant, usage, resumed, results, restarts>>
        /\ blocked' \in BOOLEAN /\ worker' = Idle /\ unread' \subseteq Candidates
    BY <1>6 DEF ReservationFails, RefuseStartedGrant, SettlementUnread, SettlementFails,
         AppendEvidenceFails, Unlock, Fault, At
  <2>2. faults' \in 0 .. MaxFaults
    BY <1>6, BoundAssumption DEF ReservationFails, RefuseStartedGrant, SettlementUnread,
         SettlementFails, AppendEvidenceFails, Fault, BoundAssumption
  <2> QED BY <2>1, <2>2 DEF Unlocked
<1>7. CASE BeginGrant
  BY <1>7, LockMoves, BoundAssumption DEF BeginGrant, Fault, BoundAssumption
<1>8. CASE RunRevert \/ RunPlacebo
  BY <1>8, ArmEffect, LockMoves
<1>9. CASE CloseExecution \/ CloseFails \/ VerifyResult
  <2>1. /\ UNCHANGED <<controlVars, ledgerVars, resumed, results, unread, restarts>>
        /\ grant' \in [Candidates -> {"NONE", "ISSUED", "STARTED", "CLOSED"}]
    BY <1>9 DEF CloseExecution, CloseFails, VerifyResult, Fault
  <2>2. faults' \in 0 .. MaxFaults
    BY <1>9, BoundAssumption DEF CloseExecution, CloseFails, VerifyResult, Fault, BoundAssumption
  <2> QED BY <1>9, <2>1, <2>2, LockMoves
<1>10. CASE AppendEvidence
  BY <1>10, LockMoves DEF AppendEvidence, CandidateStates
<1>11. CASE ReserveProbe
  BY <1>11, LockMoves, ReserveEffect DEF ReserveProbe
<1>12. CASE SettleProbe \/ SettlementUnseen
  <2>1. worker \in Holding /\ worker' = Idle
    BY <1>12 DEF SettleProbe, SettlementUnseen, At, Unlock
  <2>2. faults' \in 0 .. MaxFaults
    BY <1>12, BoundAssumption DEF SettleProbe, SettlementUnseen, Fault, BoundAssumption
  <2> QED BY <1>12, <2>1, <2>2, SettleEffect DEF SettleProbe, SettlementUnseen, Holding, Unlocked, Fault
<1>13. CASE ChargeEvidence
  BY <1>13, ChargeEffect DEF ChargeEvidence, Unlock, Unlocked
<1>14. CASE Restart
  <2>1. /\ experiment' \in ExperimentStates /\ closure' \in [champion : Harnesses, usage : Nat]
        /\ candidate' \in [Candidates -> CandidateStates] /\ parent' \in [Candidates -> Harnesses]
        /\ champion' \in Harnesses /\ worker' = Idle /\ results' = {} /\ unread' = {} /\ UNCHANGED faults
        /\ grant' \in [Candidates -> {"NONE", "ISSUED", "STARTED", "CLOSED"}]
    BY <1>14 DEF Restart, NewController, ExperimentStates, CandidateStates, Harnesses
  <2>2. usage' \in Seq(Entry)
    BY <1>14, RestartEffect
  <2>3. blocked' \in BOOLEAN
    BY <1>14 DEF Restart
  <2>4. resumed' \in BOOLEAN /\ restarts' \in 0 .. MaxRestarts
    BY <1>14, BoundAssumption DEF Restart, BoundAssumption
  <2> QED BY <2>1, <2>2, <2>3, <2>4 DEF Unlocked
<1>15. CASE UNCHANGED vars
  BY <1>15 DEF vars, Unlocked
<1>16. CASE FindPoison
  BY <1>16 DEF FindPoison, Unlocked
<1> QED BY <1>1, <1>2, <1>3, <1>4, <1>5, <1>6, <1>7, <1>8, <1>9, <1>10, <1>11, <1>12, <1>13,
           <1>14, <1>15, <1>16 DEF Next, LifecycleStep, TakeLock, WorkerStep

(* The ledger stays good: three actions append to it, a restart cuts it.    *)
LEMMA LedgerKept ==
  ASSUME IInv, [Next]_vars PROVE LedgerInv'
<1>1. CASE ReserveProbe \/ SettleProbe \/ SettlementUnseen \/ ChargeEvidence \/ Restart
  BY <1>1, ReserveEffect, SettleEffect, ChargeEffect, RestartEffect
<1>2. ASSUME UNCHANGED usage
      PROVE  LedgerInv'
  BY <1>2, ChainStays DEF IInv, LedgerInv
<1>3. CASE LifecycleStep \/ TakeLock \/ UNCHANGED vars
  BY <1>2, <1>3 DEF vars, LifecycleStep, TakeLock, Freeze, StartSearch, CloseSelection, StartSealed,
       CompleteExperiment, Advance, InvalidateExperiment, FindPoison, RegisterCandidate,
       AdmitCandidate, StartProbes, StartGate, IssueGrant, FinalizeCandidate, Move, BeginExecution,
       CheckEvidence
<1>4. CASE \/ ReservationFails \/ BeginGrant \/ RefuseStartedGrant \/ CloseExecution
           \/ CloseFails \/ VerifyResult \/ SettlementUnread \/ SettlementFails \/ AppendEvidence
           \/ AppendEvidenceFails
  BY <1>2, <1>4 DEF ReservationFails, BeginGrant, RefuseStartedGrant, CloseExecution, CloseFails,
       VerifyResult, SettlementUnread, SettlementFails, AppendEvidence, AppendEvidenceFails
<1>5. CASE RunRevert \/ RunPlacebo
  BY <1>2, <1>5, ArmEffect
<1> QED BY <1>1, <1>3, <1>4, <1>5 DEF Next, WorkerStep

(* Only a promotion makes a harness that a champion or parent may be.       *)
LEMMA LineageKept ==
  ASSUME IInv, [Next]_vars PROVE LineageInv'
<1> USE DEF IInv, At, LineageInv, TypeOK, Promoted, WorkerInv, EvidenceHeld, EvidenceSteps
<1>1. CASE \/ Freeze \/ StartSearch \/ CloseSelection
           \/ StartSealed \/ CompleteExperiment \/ InvalidateExperiment
  BY <1>1, ChainStays DEF Freeze, StartSearch, CloseSelection, StartSealed,
       CompleteExperiment, Advance, InvalidateExperiment
<1>2. ASSUME NEW c \in Candidates, \/ RegisterCandidate(c) \/ AdmitCandidate(c) \/ StartProbes(c)
                                  \/ StartGate(c) \/ FinalizeCandidate(c)
      PROVE  LineageInv'
  BY <1>2, ChainStays DEF RegisterCandidate, AdmitCandidate, StartProbes, StartGate,
       FinalizeCandidate, Move
<1>3. ASSUME NEW c \in Candidates, IssueGrant(c)
      PROVE  LineageInv'
  BY <1>3, ChainStays DEF IssueGrant, Current
<1>4. ASSUME NEW c \in Candidates, BeginExecution(c)
      PROVE  LineageInv'
  BY <1>4, ChainStays DEF BeginExecution, Lock, Current, Searching, AccountingOpen
<1>5. ASSUME NEW c \in Candidates, NEW tokens \in GateTokens, CheckEvidence(c, tokens)
      PROVE  LineageInv'
  BY <1>5, ChainStays DEF CheckEvidence, Lock, Searching, AccountingOpen
<1>6. CASE \/ ReservationFails \/ RefuseStartedGrant
           \/ SettlementUnread \/ SettlementFails \/ AppendEvidenceFails
  BY <1>6, ChainStays DEF ReservationFails, RefuseStartedGrant, SettlementUnread,
       SettlementFails, AppendEvidenceFails, Unlock, Fault
<1>7. CASE BeginGrant
  BY <1>7, ChainStays, LockMoves DEF BeginGrant, GoTo, Fault
<1>8. CASE RunRevert \/ RunPlacebo
  BY <1>8, ArmEffect, ChainStays, LockMoves DEF vars
<1>9. CASE CloseExecution \/ CloseFails \/ VerifyResult
  BY <1>9, ChainStays, LockMoves DEF CloseExecution, CloseFails, VerifyResult, GoTo, Fault
<1>10. CASE AppendEvidence
  BY <1>10, ChainStays, LockMoves DEF AppendEvidence, GoTo
<1>11. CASE ReserveProbe
  BY <1>11, LockMoves, ReserveEffect, ReserveReady DEF ReserveProbe, GoTo
<1>12. CASE SettleProbe \/ SettlementUnseen
  BY <1>12, SettleEffect DEF SettleProbe, SettlementUnseen, Unlock, Fault
<1>13. CASE ChargeEvidence
  BY <1>13, ChargeEffect DEF ChargeEvidence, Unlock
<1>14. CASE Restart
  BY <1>14, RestartEffect DEF Restart, NewController
<1>15. CASE UNCHANGED vars
  BY <1>15, ChainStays DEF vars
<1>16. CASE FindPoison
  BY <1>16, ChainStays DEF FindPoison
<1> QED BY <1>1, <1>2, <1>3, <1>4, <1>5, <1>6, <1>7, <1>8, <1>9, <1>10, <1>11, <1>12, <1>13, <1>14, <1>15, <1>16
       DEF Next, LifecycleStep, TakeLock, WorkerStep

(* A grant is burned under its reservation and under no other call.         *)
LEMMA GrantKept ==
  ASSUME IInv, [Next]_vars PROVE GrantInv'
<1> USE DEF IInv, At, Working, Unlocked, Idle, GrantInv, GrantStands, WorkerInv,
       ProbeHeld, TypeOK, ExecutionSteps, ProbeSteps, Searching
<1>1. CASE \/ Freeze \/ StartSearch \/ CloseSelection
           \/ StartSealed \/ CompleteExperiment \/ InvalidateExperiment
  BY <1>1, ChainStays DEF Freeze, StartSearch, CloseSelection, StartSealed,
       CompleteExperiment, Advance, InvalidateExperiment
<1>2. ASSUME NEW c \in Candidates, \/ RegisterCandidate(c) \/ AdmitCandidate(c) \/ StartProbes(c)
                                  \/ StartGate(c) \/ FinalizeCandidate(c)
      PROVE  GrantInv'
  BY <1>2, ChainStays DEF RegisterCandidate, AdmitCandidate, StartProbes, StartGate,
       FinalizeCandidate, Move
<1>3. ASSUME NEW c \in Candidates, IssueGrant(c)
      PROVE  GrantInv'
  BY <1>3, ChainStays DEF IssueGrant, Current
<1>4. ASSUME NEW c \in Candidates, BeginExecution(c)
      PROVE  GrantInv'
  BY <1>4, ChainStays DEF BeginExecution, Lock, Current, Searching, AccountingOpen
<1>5. ASSUME NEW c \in Candidates, NEW tokens \in GateTokens, CheckEvidence(c, tokens)
      PROVE  GrantInv'
  BY <1>5, ChainStays DEF CheckEvidence, Lock, Searching, AccountingOpen
<1>6. CASE \/ ReservationFails \/ RefuseStartedGrant
           \/ SettlementUnread \/ SettlementFails \/ AppendEvidenceFails
  BY <1>6, ChainStays DEF ReservationFails, RefuseStartedGrant, SettlementUnread,
       SettlementFails, AppendEvidenceFails, Unlock, Fault
<1>7. CASE BeginGrant
  BY <1>7, ChainStays, LockMoves DEF BeginGrant, GoTo, Fault
<1>8. CASE RunRevert \/ RunPlacebo
  BY <1>8, ArmEffect, ChainStays, LockMoves DEF vars
<1>9. CASE CloseExecution \/ CloseFails \/ VerifyResult
  BY <1>9, ChainStays, LockMoves DEF CloseExecution, CloseFails, VerifyResult, GoTo, Fault
<1>10. CASE AppendEvidence
  BY <1>10, ChainStays, LockMoves DEF AppendEvidence, GoTo
<1>11. CASE ReserveProbe
  BY <1>11, LockMoves, ReserveEffect, ReserveReady DEF ReserveProbe, GoTo
<1>12. CASE SettleProbe \/ SettlementUnseen
  BY <1>12, SettleEffect DEF SettleProbe, SettlementUnseen, Unlock, Fault
<1>13. CASE ChargeEvidence
  BY <1>13, ChargeEffect DEF ChargeEvidence, Unlock
<1>14. CASE Restart
  BY <1>14, RestartEffect DEF Restart, NewController
<1>15. CASE UNCHANGED vars
  BY <1>15, ChainStays DEF vars
<1>16. CASE FindPoison
  BY <1>16, ChainStays DEF FindPoison
<1> QED BY <1>1, <1>2, <1>3, <1>4, <1>5, <1>6, <1>7, <1>8, <1>9, <1>10, <1>11, <1>12, <1>13, <1>14, <1>15, <1>16
       DEF Next, LifecycleStep, TakeLock, WorkerStep

(* What the lock holder checked stays so until it lets the lock go.         *)
LEMMA WorkerKept ==
  ASSUME IInv, [Next]_vars PROVE WorkerInv'
<1> USE LockIs, BudgetsAre DEF IInv, At, Unlocked, Idle, WorkerInv, EvidenceHeld,
       ProbeHeld, TypeOK, Fits, ExecutionSteps, ProbeSteps, EvidenceSteps, Holding,
       SettlementKinds, SpendingAccounted, ReservationSettled, Decided
<1>1. CASE \/ Freeze \/ StartSearch \/ CloseSelection
           \/ StartSealed \/ CompleteExperiment \/ InvalidateExperiment
  BY <1>1, ChainStays DEF Freeze, StartSearch, CloseSelection, StartSealed,
       CompleteExperiment, Advance, InvalidateExperiment
<1>2. ASSUME NEW c \in Candidates, \/ RegisterCandidate(c) \/ AdmitCandidate(c) \/ StartProbes(c)
                                  \/ StartGate(c) \/ FinalizeCandidate(c)
      PROVE  WorkerInv'
  BY <1>2, ChainStays DEF RegisterCandidate, AdmitCandidate, StartProbes, StartGate,
       FinalizeCandidate, Move
<1>3. ASSUME NEW c \in Candidates, IssueGrant(c)
      PROVE  WorkerInv'
  BY <1>3, ChainStays DEF IssueGrant, Current
<1>4. ASSUME NEW c \in Candidates, BeginExecution(c)
      PROVE  WorkerInv'
  BY <1>4, ChainStays DEF BeginExecution, Lock, Current, Searching, AccountingOpen
<1>5. ASSUME NEW c \in Candidates, NEW tokens \in GateTokens, CheckEvidence(c, tokens)
      PROVE  WorkerInv'
  BY <1>5, ChainStays DEF CheckEvidence, Lock, Searching, AccountingOpen
<1>6. CASE \/ ReservationFails \/ RefuseStartedGrant
           \/ SettlementUnread \/ SettlementFails \/ AppendEvidenceFails
  BY <1>6, ChainStays DEF ReservationFails, RefuseStartedGrant, SettlementUnread,
       SettlementFails, AppendEvidenceFails, Unlock, Fault
<1>7. CASE BeginGrant
  BY <1>7, ChainStays, LockMoves DEF BeginGrant, GoTo, Fault
<1>8. CASE RunRevert \/ RunPlacebo
  BY <1>8, ArmEffect, ChainStays, LockMoves DEF vars
<1>9. CASE CloseExecution \/ CloseFails \/ VerifyResult
  <2>1. CASE CloseExecution
    BY <2>1, ChainStays, LockMoves DEF CloseExecution, GoTo
  <2>2. CASE CloseFails
    BY <2>2, ChainStays, LockMoves DEF CloseFails, GoTo, Fault
  <2>3. CASE VerifyResult
    BY <2>3, ChainStays, LockMoves DEF VerifyResult, GoTo, Fault
  <2> QED BY <1>9, <2>1, <2>2, <2>3
<1>10. CASE AppendEvidence
  BY <1>10, ChainStays, LockMoves DEF AppendEvidence, GoTo
<1>11. CASE ReserveProbe
  BY <1>11, LockMoves, ReserveEffect, ReserveReady DEF ReserveProbe, GoTo
<1>12. CASE SettleProbe \/ SettlementUnseen
  BY <1>12, SettleEffect DEF SettleProbe, SettlementUnseen, Unlock, Fault
<1>13. CASE ChargeEvidence
  BY <1>13, ChargeEffect DEF ChargeEvidence, Unlock
<1>14. CASE Restart
  BY <1>14, RestartEffect DEF Restart, NewController
<1>15. CASE UNCHANGED vars
  BY <1>15, ChainStays DEF vars
<1>16. CASE FindPoison
  BY <1>16, ChainStays DEF FindPoison
<1> QED BY <1>1, <1>2, <1>3, <1>4, <1>5, <1>6, <1>7, <1>8, <1>9, <1>10, <1>11, <1>12, <1>13, <1>14, <1>15, <1>16
       DEF Next, LifecycleStep, TakeLock, WorkerStep

(* Selection closes over a quiet experiment, which then takes no more work. *)
LEMMA FrozenKept ==
  ASSUME IInv, [Next]_vars PROVE SelectionFrozen'
<1> USE LockIs DEF IInv, Unlocked, SelectionFrozen, Active, Selected, Searching
<1>1. CASE \/ Freeze \/ StartSearch \/ CloseSelection
           \/ StartSealed \/ CompleteExperiment \/ InvalidateExperiment
  BY <1>1, ChainStays DEF Freeze, StartSearch, CloseSelection, StartSealed,
       CompleteExperiment, Advance, InvalidateExperiment
<1>2. ASSUME NEW c \in Candidates, \/ RegisterCandidate(c) \/ AdmitCandidate(c) \/ StartProbes(c)
                                  \/ StartGate(c) \/ FinalizeCandidate(c)
      PROVE  SelectionFrozen'
  BY <1>2, ChainStays DEF RegisterCandidate, AdmitCandidate, StartProbes, StartGate,
       FinalizeCandidate, Move
<1>3. ASSUME NEW c \in Candidates, IssueGrant(c)
      PROVE  SelectionFrozen'
  BY <1>3, ChainStays DEF IssueGrant, Current
<1>4. ASSUME NEW c \in Candidates, BeginExecution(c)
      PROVE  SelectionFrozen'
  BY <1>4, ChainStays DEF BeginExecution, Lock, Current, Searching, AccountingOpen
<1>5. ASSUME NEW c \in Candidates, NEW tokens \in GateTokens, CheckEvidence(c, tokens)
      PROVE  SelectionFrozen'
  BY <1>5, ChainStays DEF CheckEvidence, Lock, Searching, AccountingOpen
<1>6. CASE \/ ReservationFails \/ RefuseStartedGrant
           \/ SettlementUnread \/ SettlementFails \/ AppendEvidenceFails
  BY <1>6, ChainStays DEF ReservationFails, RefuseStartedGrant, SettlementUnread,
       SettlementFails, AppendEvidenceFails, Unlock, Fault
<1>7. CASE BeginGrant
  BY <1>7, ChainStays, LockMoves DEF BeginGrant, GoTo, Fault
<1>8. CASE RunRevert \/ RunPlacebo
  BY <1>8, ArmEffect, ChainStays, LockMoves DEF vars
<1>9. CASE CloseExecution \/ CloseFails \/ VerifyResult
  BY <1>9, ChainStays, LockMoves DEF CloseExecution, CloseFails, VerifyResult, GoTo, Fault
<1>10. CASE AppendEvidence
  BY <1>10, ChainStays, LockMoves DEF AppendEvidence, GoTo
<1>11. CASE ReserveProbe
  BY <1>11, LockMoves, ReserveEffect, ReserveReady DEF ReserveProbe, GoTo
<1>12. CASE SettleProbe \/ SettlementUnseen
  BY <1>12, SettleEffect DEF SettleProbe, SettlementUnseen, Unlock, Fault
<1>13. CASE ChargeEvidence
  BY <1>13, ChargeEffect DEF ChargeEvidence, Unlock
<1>14. CASE Restart
  BY <1>14, RestartEffect DEF Restart, NewController
<1>15. CASE UNCHANGED vars
  BY <1>15, ChainStays DEF vars
<1>16. CASE FindPoison
  BY <1>16, ChainStays DEF FindPoison
<1> QED BY <1>1, <1>2, <1>3, <1>4, <1>5, <1>6, <1>7, <1>8, <1>9, <1>10, <1>11, <1>12, <1>13, <1>14, <1>15, <1>16
       DEF Next, LifecycleStep, TakeLock, WorkerStep

(* Evidence is complete only when it is paid.                              *)
LEMMA PaidKept ==
  ASSUME IInv, [Next]_vars PROVE (\A x \in Candidates : GateEvidencePaid(x))'
<1> USE DEF IInv, At, Working, Unlocked, Idle, GateEvidencePaid, TypeOK, SpendingAccounted
<1>1. CASE \/ Freeze \/ StartSearch \/ CloseSelection
           \/ StartSealed \/ CompleteExperiment \/ InvalidateExperiment
  BY <1>1, ChainStays DEF Freeze, StartSearch, CloseSelection, StartSealed,
       CompleteExperiment, Advance, InvalidateExperiment
<1>2. ASSUME NEW c \in Candidates, \/ RegisterCandidate(c) \/ AdmitCandidate(c) \/ StartProbes(c)
                                  \/ StartGate(c) \/ FinalizeCandidate(c)
      PROVE  (\A x \in Candidates : GateEvidencePaid(x))'
  BY <1>2, ChainStays DEF RegisterCandidate, AdmitCandidate, StartProbes, StartGate,
       FinalizeCandidate, Move
<1>3. ASSUME NEW c \in Candidates, IssueGrant(c)
      PROVE  (\A x \in Candidates : GateEvidencePaid(x))'
  BY <1>3, ChainStays DEF IssueGrant, Current
<1>4. ASSUME NEW c \in Candidates, BeginExecution(c)
      PROVE  (\A x \in Candidates : GateEvidencePaid(x))'
  BY <1>4, ChainStays DEF BeginExecution, Lock, Current, Searching, AccountingOpen
<1>5. ASSUME NEW c \in Candidates, NEW tokens \in GateTokens, CheckEvidence(c, tokens)
      PROVE  (\A x \in Candidates : GateEvidencePaid(x))'
  BY <1>5, ChainStays DEF CheckEvidence, Lock, Searching, AccountingOpen
<1>6. CASE \/ ReservationFails \/ RefuseStartedGrant
           \/ SettlementUnread \/ SettlementFails \/ AppendEvidenceFails
  BY <1>6, ChainStays DEF ReservationFails, RefuseStartedGrant, SettlementUnread,
       SettlementFails, AppendEvidenceFails, Unlock, Fault
<1>7. CASE BeginGrant
  BY <1>7, ChainStays, LockMoves DEF BeginGrant, GoTo, Fault
<1>8. CASE RunRevert \/ RunPlacebo
  BY <1>8, ArmEffect, ChainStays, LockMoves DEF vars
<1>9. CASE CloseExecution \/ CloseFails \/ VerifyResult
  BY <1>9, ChainStays, LockMoves DEF CloseExecution, CloseFails, VerifyResult, GoTo, Fault
<1>10. CASE AppendEvidence
  BY <1>10, ChainStays, LockMoves DEF AppendEvidence, GoTo
<1>11. CASE ReserveProbe
  BY <1>11, LockMoves, ReserveEffect, ReserveReady DEF ReserveProbe, GoTo
<1>12. CASE SettleProbe \/ SettlementUnseen
  BY <1>12, SettleEffect DEF SettleProbe, SettlementUnseen, Unlock, Fault
<1>13. CASE ChargeEvidence
  BY <1>13, ChargeEffect DEF ChargeEvidence, Unlock
<1>14. CASE Restart
  BY <1>14, RestartEffect DEF Restart, NewController
<1>15. CASE UNCHANGED vars
  BY <1>15, ChainStays DEF vars
<1>16. CASE FindPoison
  BY <1>16, ChainStays DEF FindPoison
<1> QED BY <1>1, <1>2, <1>3, <1>4, <1>5, <1>6, <1>7, <1>8, <1>9, <1>10, <1>11, <1>12, <1>13, <1>14, <1>15, <1>16
       DEF Next, LifecycleStep, TakeLock, WorkerStep

(* No path leaves a reservation open, but a settlement that reads nothing.  *)
LEMMA SettledKept ==
  ASSUME IInv, [Next]_vars PROVE (\A x \in Candidates : ReservationSettled(x))'
<1> USE DEF IInv, At, Working, Unlocked, Idle, ReservationSettled, Decided, SpendingAccounted,
       WorkerInv, ProbeHeld, ExecutionSteps, ProbeSteps, EvidenceHeld, EvidenceSteps
<1>1. CASE \/ Freeze \/ StartSearch \/ CloseSelection
           \/ StartSealed \/ CompleteExperiment \/ InvalidateExperiment
  BY <1>1, ChainStays DEF Freeze, StartSearch, CloseSelection, StartSealed,
       CompleteExperiment, Advance, InvalidateExperiment
<1>2. ASSUME NEW c \in Candidates, \/ RegisterCandidate(c) \/ AdmitCandidate(c) \/ StartProbes(c)
                                  \/ StartGate(c) \/ FinalizeCandidate(c)
      PROVE  (\A x \in Candidates : ReservationSettled(x))'
  BY <1>2, ChainStays DEF RegisterCandidate, AdmitCandidate, StartProbes, StartGate,
       FinalizeCandidate, Move
<1>3. ASSUME NEW c \in Candidates, IssueGrant(c)
      PROVE  (\A x \in Candidates : ReservationSettled(x))'
  BY <1>3, ChainStays DEF IssueGrant, Current
<1>4. ASSUME NEW c \in Candidates, BeginExecution(c)
      PROVE  (\A x \in Candidates : ReservationSettled(x))'
  BY <1>4, ChainStays DEF BeginExecution, Lock, Current, Searching, AccountingOpen
<1>5. ASSUME NEW c \in Candidates, NEW tokens \in GateTokens, CheckEvidence(c, tokens)
      PROVE  (\A x \in Candidates : ReservationSettled(x))'
  BY <1>5, ChainStays DEF CheckEvidence, Lock, Searching, AccountingOpen
<1>6. CASE \/ ReservationFails \/ RefuseStartedGrant
           \/ SettlementUnread \/ SettlementFails \/ AppendEvidenceFails
  <2>1. CASE ReservationFails
    BY <2>1, ChainStays DEF ReservationFails, Unlock, Fault
  <2>2. CASE RefuseStartedGrant
    BY <2>2, ChainStays DEF RefuseStartedGrant, Unlock
  <2>3. CASE SettlementUnread
    <3>1. /\ UNCHANGED <<grant, usage, blocked, resumed, results>> /\ worker' = Idle
          /\ unread' = unread \cup {worker.candidate} /\ ~Unlocked /\ worker.step = "SETTLE"
      BY <2>3 DEF SettlementUnread, Unlock, Fault
    <3>2. /\ Reserved(worker.candidate) /\ ~Settled(worker.candidate)
          /\ grant[worker.candidate] \in {"STARTED", "CLOSED"}
      BY <3>1
    <3>3. ASSUME worker.candidate \in results PROVE Settled(worker.candidate)
      <4>1. worker.candidate \in Candidates
        BY <3>1, LockIs DEF TypeOK
      <4>2. ResultSettled(worker.candidate)
        BY <4>1
      <4> QED BY <3>3, <4>2 DEF ResultSettled, Settled, EntriesOf, SettlementKinds
    <3>4. ASSUME NEW x \in Candidates PROVE ReservationSettled(x)'
      <4>1. Reserved(x)' = Reserved(x) /\ Settled(x)' = Settled(x)
        BY <3>1, ChainStays
      <4>2. CASE x = worker.candidate
        BY <3>1, <3>2, <3>3, <4>1, <4>2
      <4>3. CASE x # worker.candidate
        <5>1. ReservationSettled(x)
          BY <3>4
        <5> QED BY <3>1, <4>1, <4>3, <5>1
      <4> QED BY <4>2, <4>3
    <3> QED BY <3>4
  <2>4. CASE SettlementFails \/ AppendEvidenceFails
    BY <2>4, ChainStays DEF SettlementFails, AppendEvidenceFails, Unlock, Fault
  <2> QED BY <1>6, <2>1, <2>2, <2>3, <2>4
<1>7. CASE BeginGrant
  BY <1>7, ChainStays, LockMoves DEF BeginGrant, GoTo, Fault
<1>8. CASE RunRevert \/ RunPlacebo
  BY <1>8, ArmEffect, ChainStays, LockMoves DEF vars
<1>9. CASE CloseExecution \/ CloseFails \/ VerifyResult
  <2>1. CASE CloseExecution
    BY <2>1, ChainStays, LockMoves DEF CloseExecution, GoTo
  <2>2. CASE CloseFails
    BY <2>2, ChainStays, LockMoves DEF CloseFails, GoTo, Fault
  <2>3. CASE VerifyResult
    BY <2>3, ChainStays, LockMoves DEF VerifyResult, GoTo, Fault
  <2> QED BY <1>9, <2>1, <2>2, <2>3
<1>10. CASE AppendEvidence
  BY <1>10, ChainStays, LockMoves DEF AppendEvidence, GoTo
<1>11. CASE ReserveProbe
  BY <1>11, LockMoves, ReserveEffect, ReserveReady DEF ReserveProbe, GoTo
<1>12. CASE SettleProbe \/ SettlementUnseen
  BY <1>12, SettleEffect DEF SettleProbe, SettlementUnseen, Unlock, Fault
<1>13. CASE ChargeEvidence
  BY <1>13, ChargeEffect DEF ChargeEvidence, Unlock
<1>14. CASE Restart
  BY <1>14, RestartEffect DEF Restart, NewController
<1>15. CASE UNCHANGED vars
  BY <1>15, ChainStays DEF vars
<1>16. CASE FindPoison
  BY <1>16, ChainStays DEF FindPoison
<1> QED BY <1>1, <1>2, <1>3, <1>4, <1>5, <1>6, <1>7, <1>8, <1>9, <1>10, <1>11, <1>12, <1>13, <1>14, <1>15, <1>16
       DEF Next, LifecycleStep, TakeLock, WorkerStep

(* A result is returned with its settlement.                               *)
LEMMA ReturnedKept ==
  ASSUME IInv, [Next]_vars PROVE (\A x \in Candidates : ResultSettled(x))'
<1> USE DEF IInv, At, ResultSettled, TypeOK, SpendingAccounted, WorkerInv, ProbeHeld,
       KeepsSettlements
<1>1. CASE \/ Freeze \/ StartSearch \/ CloseSelection
           \/ StartSealed \/ CompleteExperiment \/ InvalidateExperiment
  BY <1>1, ChainStays DEF Freeze, StartSearch, CloseSelection, StartSealed,
       CompleteExperiment, Advance, InvalidateExperiment
<1>2. ASSUME NEW c \in Candidates, \/ RegisterCandidate(c) \/ AdmitCandidate(c) \/ StartProbes(c)
                                  \/ StartGate(c) \/ FinalizeCandidate(c)
      PROVE  (\A x \in Candidates : ResultSettled(x))'
  BY <1>2, ChainStays DEF RegisterCandidate, AdmitCandidate, StartProbes, StartGate,
       FinalizeCandidate, Move
<1>3. ASSUME NEW c \in Candidates, IssueGrant(c)
      PROVE  (\A x \in Candidates : ResultSettled(x))'
  BY <1>3, ChainStays DEF IssueGrant, Current
<1>4. ASSUME NEW c \in Candidates, BeginExecution(c)
      PROVE  (\A x \in Candidates : ResultSettled(x))'
  BY <1>4, ChainStays DEF BeginExecution, Lock, Current, Searching, AccountingOpen
<1>5. ASSUME NEW c \in Candidates, NEW tokens \in GateTokens, CheckEvidence(c, tokens)
      PROVE  (\A x \in Candidates : ResultSettled(x))'
  BY <1>5, ChainStays DEF CheckEvidence, Lock, Searching, AccountingOpen
<1>6. CASE \/ ReservationFails \/ RefuseStartedGrant
           \/ SettlementUnread \/ SettlementFails \/ AppendEvidenceFails
  BY <1>6, ChainStays DEF ReservationFails, RefuseStartedGrant, SettlementUnread,
       SettlementFails, AppendEvidenceFails, Unlock, Fault
<1>7. CASE BeginGrant
  BY <1>7, ChainStays, LockMoves DEF BeginGrant, GoTo, Fault
<1>8. CASE RunRevert \/ RunPlacebo
  BY <1>8, ArmEffect, ChainStays, LockMoves DEF vars
<1>9. CASE CloseExecution \/ CloseFails \/ VerifyResult
  BY <1>9, ChainStays, LockMoves DEF CloseExecution, CloseFails, VerifyResult, GoTo, Fault
<1>10. CASE AppendEvidence
  BY <1>10, ChainStays, LockMoves DEF AppendEvidence, GoTo
<1>11. CASE ReserveProbe
  BY <1>11, LockMoves, ReserveEffect, ReserveReady DEF ReserveProbe, GoTo
<1>12. CASE SettleProbe \/ SettlementUnseen
  BY <1>12, SettleEffect DEF SettleProbe, SettlementUnseen, Unlock, Fault
<1>13. CASE ChargeEvidence
  BY <1>13, ChargeEffect DEF ChargeEvidence, Unlock
<1>14. CASE Restart
  BY <1>14, RestartEffect DEF Restart, NewController
<1>15. CASE UNCHANGED vars
  BY <1>15, ChainStays DEF vars
<1>16. CASE FindPoison
  BY <1>16, ChainStays DEF FindPoison
<1> QED BY <1>1, <1>2, <1>3, <1>4, <1>5, <1>6, <1>7, <1>8, <1>9, <1>10, <1>11, <1>12, <1>13, <1>14, <1>15, <1>16
       DEF Next, LifecycleStep, TakeLock, WorkerStep

(* The lock holder calls backends under the one open reservation.           *)
LEMMA CoveredNext ==
  ASSUME TypeOK', WorkerInv', NEW c \in Candidates
  PROVE  ExecutionCovered(c)'
<1>1. SUFFICES ASSUME worker' # Idle, worker'.candidate = c, worker'.step \in ExecutionSteps
               PROVE  /\ Reserved(c)' /\ ~Settled(c)'
                      /\ grant'[c] \in {"STARTED", "CLOSED"}
                      /\ worker'.tokens > ProbeTokens => worker'.poisoned
  BY DEF ExecutionCovered, Working, At, Unlocked
<1>2. ProbeHeld' /\ worker' \in Holding
  BY <1>1 DEF TypeOK, WorkerInv, Unlocked
<1>3. worker'.tokens \in Nat /\ (worker'.tokens <= ProbeTokens => ~(worker'.tokens > ProbeTokens))
  BY <1>2, BudgetsAre DEF Holding
<1> QED BY <1>1, <1>2, <1>3 DEF ProbeHeld, ExecutionSteps

(* So the invariant is inductive.                                          *)
LEMMA NextKeeps ==
  ASSUME IInv, [Next]_vars PROVE IInv'
<1>1. TypeOK' /\ LedgerInv' /\ LineageInv' /\ GrantInv' /\ WorkerInv' /\ SelectionFrozen'
  BY TypeKept, LedgerKept, LineageKept, GrantKept, WorkerKept, FrozenKept
<1>2. ASSUME NEW c \in Candidates PROVE ExecutionCovered(c)'
  BY <1>1, CoveredNext
<1>3. SpendingAccounted'
  BY <1>2, PaidKept, SettledKept, ReturnedKept DEF SpendingAccounted
<1> QED BY <1>1, <1>3 DEF IInv

(* It holds of a new controller.                                           *)
LEMMA InitHolds == Init => IInv
<1> SUFFICES ASSUME Init PROVE IInv
  OBVIOUS
<1>1. usage = <<>> /\ usage \in Seq(Entry) /\ DOMAIN usage = {} /\ Unlocked /\ experiment = "NONE"
  BY EmptySeq DEF Init, Unlocked
<1>2. TypeOK
  <2>1. faults \in 0 .. MaxFaults /\ restarts \in 0 .. MaxRestarts
    BY BoundAssumption DEF Init, BoundAssumption
  <2> QED BY <1>1, <2>1 DEF Init, TypeOK, ExperimentStates, CandidateStates, Harnesses
<1>3. LedgerInv
  BY <1>1 DEF LedgerInv, UsageReplays, Poisoned
<1>4. LineageInv /\ SelectionFrozen /\ WorkerInv
  BY <1>1 DEF Init, LineageInv, SelectionFrozen, Selected, WorkerInv
<1>5. GrantInv
  BY <1>1 DEF Init, GrantInv, GrantStands, Reserved, EntriesOf
<1>6. SpendingAccounted
  BY <1>1, LockIs DEF Init, SpendingAccounted, GateEvidencePaid, ReservationSettled, Decided,
       ExecutionCovered, ResultSettled, Reserved, EntriesOf
<1> QED BY <1>2, <1>3, <1>4, <1>5, <1>6 DEF IInv

(* It holds in every reachable state.                                      *)
LEMMA ControllerInvariant == Spec => []IInv
BY InitHolds, NextKeeps, PTL DEF Spec

(* What a controller writes never locks out the next one: every variable    *)
(* stays in its type, and the usage chain, replayed from its genesis, passes *)
(* every check the ledger makes of a chain it is given.                    *)
THEOREM ChainReplays == Spec => []UsageInv
<1>1. IInv => UsageInv
  BY DEF IInv, LedgerInv, UsageInv
<1> QED BY <1>1, ControllerInvariant, PTL

(* From the closing of selection to completion nothing it binds moves,      *)
(* although the lifecycle methods take no lock.                            *)
THEOREM SelectionStaysFrozen == Spec => []SelectionFrozen
<1>1. IInv => SelectionFrozen
  BY DEF IInv
<1> QED BY <1>1, ControllerInvariant, PTL

(* Gate evidence is paid, probe reservations are settled or, when the        *)
(* settlement could not read the ledger, stay charged with their grant burned; *)
(* backends run under one open reservation, results come after their         *)
(* settlement.                                                             *)
THEOREM SpendingIsAccounted == Spec => []SpendingAccounted
<1>1. IInv => SpendingAccounted
  BY DEF IInv
<1> QED BY <1>1, ControllerInvariant, PTL

-----------------------------------------------------------------------------
(* The promise                                                             *)

Past == {parent[c] : c \in Promoted}

(* The promise begins when the controller does.                            *)
LEMMA PromiseInit == Init => Promise!Init
BY DEF Init, Promise!Init, Promoted, TotalTokens, TokensAt


(* While nobody is promoted the past champions are the same.                *)
LEMMA PastStays ==
  ASSUME candidate \in [Candidates -> CandidateStates], parent \in [Candidates -> Harnesses],
         NEW c \in Candidates, NEW to \in CandidateStates, NEW h \in Harnesses,
         candidate[c] # "PROMOTED", to # "PROMOTED",
         candidate' = [candidate EXCEPT ![c] = to],
         parent' = parent \/ parent' = [parent EXCEPT ![c] = h]
  PROVE  Promoted' = Promoted /\ Past' = Past
<1>1. Promoted' = Promoted
  BY DEF Promoted
<1>2. \A x \in Promoted : parent'[x] = parent[x]
  BY DEF Promoted
<1> QED BY <1>1, <1>2 DEF Past

(* Every step of the controller is a step of the promise, or none.          *)
LEMMA PromiseStep ==
  ASSUME IInv, [Next]_vars PROVE [Promise!Next]_(Promise!vars)
<1> USE DEF IInv
<1>1. TypeOK /\ TotalTokens \in Nat
  BY ChainIs DEF TypeOK
<1>2. ASSUME UNCHANGED <<experiment, champion>>, Past' = Past, TotalTokens' = TotalTokens
      PROVE  UNCHANGED Promise!vars
  BY <1>2 DEF Promise!vars, Past
<1>3. ASSUME UNCHANGED <<experiment, champion>>, Past' = Past, TotalTokens' \in Nat,
             TotalTokens' > TotalTokens, experiment \in {"SEARCHING", "INVALIDATED"}
      PROVE  Promise!Spend
  BY <1>3 DEF Promise!Spend, Past
<1>4. CASE \/ Freeze \/ StartSearch \/ CloseSelection
           \/ StartSealed \/ CompleteExperiment \/ InvalidateExperiment
  <2>1. UNCHANGED <<champion, usage>> /\ Past' = Past /\ TotalTokens' = TotalTokens
    BY <1>4, ChainStays DEF Freeze, StartSearch, CloseSelection, StartSealed, CompleteExperiment,
         Advance, InvalidateExperiment, Past, Promoted
  <2>2. CASE Freeze
    BY <2>1, <2>2 DEF Freeze, Promise!vars, Past
  <2>3. CASE StartSearch
    BY <2>1, <2>3 DEF StartSearch, Promise!Next, Promise!Open, Past, TotalTokens, TokensAt
  <2>4. CASE CloseSelection
    BY <2>1, <2>4 DEF CloseSelection, Searching, Promise!Next, Promise!Select, Past
  <2>5. CASE StartSealed
    BY <2>1, <2>5 DEF StartSealed, Advance, Promise!vars, Past
  <2>6. CASE CompleteExperiment
    BY <2>1, <2>6 DEF CompleteExperiment, Advance, Promise!Next, Promise!Finish, Past
  <2>7. CASE InvalidateExperiment
    BY <1>1, <2>1, <2>7 DEF InvalidateExperiment, TerminalExperiment, TypeOK, ExperimentStates,
         Promise!Next, Promise!Void, Past
  <2> QED BY <1>4, <2>2, <2>3, <2>4, <2>5, <2>6, <2>7
<1>5. ASSUME NEW c \in Candidates,
             \/ RegisterCandidate(c) \/ AdmitCandidate(c) \/ StartProbes(c) \/ StartGate(c)
      PROVE  UNCHANGED Promise!vars
  <2>1. UNCHANGED <<experiment, champion, usage>>
    BY <1>5 DEF RegisterCandidate, AdmitCandidate, StartProbes, StartGate, Move
  <2>2. \E to \in CandidateStates \ {"PROMOTED"} :
          candidate[c] # "PROMOTED" /\ candidate' = [candidate EXCEPT ![c] = to]
    BY <1>5 DEF RegisterCandidate, AdmitCandidate, StartProbes, StartGate, Move, CandidateStates
  <2>3. parent' = parent \/ parent' = [parent EXCEPT ![c] = champion]
    BY <1>5 DEF RegisterCandidate, AdmitCandidate, StartProbes, StartGate, Move
  <2>4. Past' = Past
    BY <1>1, <2>2, <2>3, PastStays DEF TypeOK
  <2> QED BY <1>2, <2>1, <2>4, ChainStays
<1>6. ASSUME NEW c \in Candidates, FinalizeCandidate(c)
      PROVE  [Promise!Next]_(Promise!vars)
  <2>1. /\ UNCHANGED <<experiment, parent, usage>> /\ experiment = "SEARCHING"
        /\ candidate[c] = "EVIDENCE_COMPLETE"
    BY <1>6 DEF FinalizeCandidate, Move, Searching
  <2>2. CASE candidate' = [candidate EXCEPT ![c] = "PROMOTED"] /\ champion' = c /\ parent[c] = champion
    <3>1. Promoted' = Promoted \cup {c}
      BY <1>1, <2>2 DEF Promoted, TypeOK, CandidateStates
    <3>2. Past' = Past \cup {champion}
      BY <2>1, <2>2, <3>1 DEF Past
    <3>3. c \notin Promoted \cup {Seed}
      BY <2>1, CandidateAssumption DEF CandidateAssumption, Promoted
    <3>4. c \notin Past \cup {champion}
      BY <3>3 DEF Past, LineageInv, Promoted
    <3> QED BY <2>1, <2>2, <3>2, <3>4, ChainStays DEF Promise!Next, Promise!Advance, Harnesses, Past
  <2>3. CASE /\ UNCHANGED champion
             /\ \E to \in {"REJECTED", "INCONCLUSIVE"} : candidate' = [candidate EXCEPT ![c] = to]
    <3>1. Past' = Past
      BY <1>1, <2>1, <2>3, PastStays DEF TypeOK, CandidateStates
    <3> QED BY <1>2, <2>1, <2>3, <3>1, ChainStays
  <2> QED BY <1>6, <2>2, <2>3 DEF FinalizeCandidate, Move
<1>7. CASE TakeLock \/ \E c \in Candidates : IssueGrant(c)
  BY <1>2, <1>7, ChainStays DEF TakeLock, BeginExecution, CheckEvidence, IssueGrant, Past, Promoted
<1>8. CASE \/ ReservationFails \/ BeginGrant \/ RefuseStartedGrant \/ CloseExecution
           \/ CloseFails \/ VerifyResult \/ SettlementUnread \/ SettlementFails
           \/ AppendEvidenceFails \/ FindPoison
  BY <1>2, <1>8, ChainStays DEF ReservationFails, BeginGrant, RefuseStartedGrant, CloseExecution,
       CloseFails, VerifyResult, SettlementUnread, SettlementFails, AppendEvidenceFails, FindPoison,
       Past, Promoted
<1>9. CASE RunRevert \/ RunPlacebo
  BY <1>2, <1>9, ArmEffect, ChainStays DEF Past, Promoted
<1>10. CASE AppendEvidence
  <2>1. /\ UNCHANGED <<experiment, champion, parent, usage>> /\ worker.candidate \in Candidates
        /\ candidate' = [candidate EXCEPT ![worker.candidate] = "EVIDENCE_COMPLETE"]
        /\ candidate[worker.candidate] = "RUNNING_GATE"
    BY <1>1, <1>10, LockMoves, LockIs DEF AppendEvidence, WorkerInv, EvidenceHeld, EvidenceSteps
  <2>2. Past' = Past
    BY <1>1, <2>1, PastStays DEF TypeOK, CandidateStates
  <2> QED BY <1>2, <2>1, <2>2, ChainStays
<1>11. CASE ReserveProbe \/ SettleProbe \/ SettlementUnseen \/ ChargeEvidence
  <2>1. UNCHANGED <<experiment, champion>> /\ Past' = Past
    BY <1>11 DEF ReserveProbe, SettleProbe, SettlementUnseen, ChargeEvidence, Past, Promoted
  <2>2. experiment \in {"SEARCHING", "INVALIDATED"}
    BY <1>11 DEF ReserveProbe, SettleProbe, SettlementUnseen, ChargeEvidence, At, WorkerInv
  <2>3. UNCHANGED usage \/ \E e \in Entry : usage' = Append(usage, e) /\ Chargeable(e)
    BY <1>11, ReserveWrites, SettleWrites, ChargeWrites DEF ReserveProbe
  <2>4. TotalTokens' = TotalTokens \/ (TotalTokens' \in Nat /\ TotalTokens' >= TotalTokens)
    <3>1. CASE UNCHANGED usage
      BY <3>1, ChainStays
    <3>2. ASSUME NEW e \in Entry, usage' = Append(usage, e), Chargeable(e)
          PROVE  TotalTokens' \in Nat /\ TotalTokens' >= TotalTokens
      BY <1>1, <3>2, AppendIs DEF Chargeable, Entry, TypeOK
    <3> QED BY <2>3, <3>1, <3>2
  <2> QED BY <1>1, <1>2, <1>3, <2>1, <2>2, <2>4 DEF Promise!Next
<1>12. CASE Restart
  <2>1. TotalTokens' \in Nat /\ TotalTokens' <= TotalTokens
    BY <1>12, RestartEffect
  <2>2. experiment' = "NONE" /\ champion' = Seed
    BY <1>12 DEF Restart, NewController
  <2>3. Past' = {}
    BY <1>12 DEF Restart, NewController, Past, Promoted
  <2> QED BY <2>1, <2>2, <2>3 DEF Promise!Next, Promise!Restart, Past
<1>13. CASE UNCHANGED vars
  BY <1>2, <1>13, ChainStays DEF vars, Past, Promoted
<1> QED BY <1>4, <1>5, <1>6, <1>7, <1>8, <1>9, <1>10, <1>11, <1>12, <1>13
           DEF Next, LifecycleStep, WorkerStep

(* The controller keeps its promise: the champion moves forward only, while  *)
(* selection is open, and spending is never given back to a live controller. *)
THEOREM ControllerKeepsPromise == Spec => PromiseKept
<1>1. Spec => Promise!Init /\ [][Promise!Next]_Promise!vars
  BY PromiseInit, PromiseStep, ControllerInvariant, PTL DEF Spec
<1> QED BY <1>1 DEF PromiseKept, Promise!Spec

-----------------------------------------------------------------------------
(* The gate decision                                                       *)

\* What the producers signed holds checks and trials that can be.
SignedStands ==
  /\ IsFiniteSet(evidences) /\ IsFiniteSet(batches)
  /\ \A e \in evidences : e.checks \in CheckSets
  /\ \A b \in batches : \E arm \in Arms : b.trials \in TrialSets[arm]

\* A verdict of promotion rests on an evaluation that was joined and decided so.
VerdictStands(c) ==
  verdicts[c].state = "PROMOTED" =>
    /\ verdicts[c].on \in Evaluations
    /\ Stands(c, verdicts[c].on)
    /\ DecisionOf(c, verdicts[c].on).decision = "PROMOTE"

GateInv ==
  /\ DecisionTypeOK /\ SignedStands
  /\ verdicts = [c \in Contenders |-> verdicts[c]]
  /\ \A c \in Contenders : VerdictStands(c)

(* A decision to promote has every check of the gate passed                *)
(* (PromotionGate.evaluate).                                               *)
LEMMA PromoteMeansPass ==
  ASSUME NEW policy, NEW p, NEW q, NEW evidence, NEW harness,
         EvaluateGate(policy, p, q, evidence, harness).decision = "PROMOTE"
  PROVE  /\ IntegrityCheck(policy, p, q) = "PASS" /\ PolicyCheck(p, q) = "PASS"
         /\ SampleSizeCheck(policy, CompareTrials(policy, p, q)) = "PASS"
         /\ MechanismCheck(policy, evidence, harness) = "PASS"
<1> DEFINE m == CompareTrials(policy, p, q)
           outcomes == <<IntegrityCheck(policy, p, q), SampleSizeCheck(policy, m), PolicyCheck(p, q),
                         MechanismCheck(policy, evidence, harness), PrimaryEffectCheck(policy, m),
                         ProtectedSlicesCheck(policy, m), TaskRegressionCheck(policy, m),
                         ResourceCheck(policy, m)>>
           some == {outcomes[i] : i \in DOMAIN outcomes}
<1>1. EvaluateGate(policy, p, q, evidence, harness)
        = [decision |-> IF "FAIL" \in some THEN "REJECT"
                        ELSE IF "INCONCLUSIVE" \in some THEN "INCONCLUSIVE" ELSE "PROMOTE",
           checks |-> outcomes, comparison |-> m]
  BY DEF EvaluateGate
<1>2. {outcomes[1], outcomes[2], outcomes[3], outcomes[4]} \subseteq some
  OBVIOUS
<1>3. /\ outcomes[1] = IntegrityCheck(policy, p, q) /\ outcomes[2] = SampleSizeCheck(policy, m)
      /\ outcomes[3] = PolicyCheck(p, q) /\ outcomes[4] = MechanismCheck(policy, evidence, harness)
  OBVIOUS
<1> HIDE DEF outcomes, some
<1>4. "FAIL" \notin some /\ "INCONCLUSIVE" \notin some
  BY <1>1
<1> HIDE DEF m
<1>5. /\ IntegrityCheck(policy, p, q) \in {"FAIL", "INCONCLUSIVE", "PASS"}
      /\ SampleSizeCheck(policy, m) \in {"FAIL", "INCONCLUSIVE", "PASS"}
      /\ PolicyCheck(p, q) \in {"FAIL", "INCONCLUSIVE", "PASS"}
      /\ MechanismCheck(policy, evidence, harness) \in {"FAIL", "INCONCLUSIVE", "PASS"}
  BY DEF IntegrityCheck, SampleSizeCheck, PolicyCheck, MechanismCheck
<1>6. /\ IntegrityCheck(policy, p, q) = "PASS" /\ SampleSizeCheck(policy, m) = "PASS"
      /\ PolicyCheck(p, q) = "PASS" /\ MechanismCheck(policy, evidence, harness) = "PASS"
  BY <1>2, <1>3, <1>4, <1>5
<1> QED BY <1>6 DEF m

(* The tasks of a comparison are those of its valid pairs.                  *)
LEMMA ComparedTasks ==
  ASSUME NEW policy, NEW p, NEW q
  PROVE  DOMAIN CompareTrials(policy, p, q).deltas = TasksIn(ValidPairs(policy, p, q))
BY DEF CompareTrials

(* What the checks of a promoted contender say of its trials, whether the   *)
(* policy has a roster of tasks and seeds, of tasks, or none                *)
(* (compare_trials, _integrity_check, _sample_size_check, _policy_check).   *)
LEMMA ChecksMeanRosterRan ==
  ASSUME NEW policy, NEW p, NEW q, IsFiniteSet(DOMAIN p), policy.minTasks \in Nat,
         IntegrityCheck(policy, p, q) = "PASS", PolicyCheck(p, q) = "PASS",
         SampleSizeCheck(policy, CompareTrials(policy, p, q)) = "PASS"
  PROVE  RosterRan(policy, p, q)
<1>1. Unexpected(policy, p) = {} /\ Unexpected(policy, q) = {} /\ Mismatched(policy, p, q) = {}
  BY DEF IntegrityCheck
<1>2. policy.complete => /\ MissingPairs(policy, p, q) = {} /\ IncompletePairs(policy, p, q) = {}
                         /\ ExpectedMissing(policy, p, q) = {}
  BY <1>1 DEF IntegrityCheck
<1>3. /\ Rostered(policy, p) = DOMAIN p /\ Rostered(policy, q) = DOMAIN q
      /\ Common(policy, p, q) = DOMAIN p \cap DOMAIN q
  BY <1>1 DEF Rostered, Common
<1>4. \A key \in DOMAIN p \cup DOMAIN q : OnRoster(policy, key)
  BY <1>1 DEF Unexpected
<1>5. \A key \in DOMAIN p \cap DOMAIN q : p[key].print = q[key].print
  BY <1>1, <1>3 DEF Mismatched
<1>6. policy.complete => DOMAIN p = DOMAIN q
  BY <1>2, <1>3 DEF MissingPairs
<1>7. policy.complete =>
        \A key \in DOMAIN p \cap DOMAIN q : {p[key].status, q[key].status} = {"COMPLETED"}
  BY <1>1, <1>2, <1>3 DEF IncompletePairs
<1>8. \A key \in DOMAIN p \cap DOMAIN q : "POLICY_VIOLATION" \notin {p[key].status, q[key].status}
  BY DEF PolicyCheck, Violated
<1>9. ASSUME policy.complete, policy.seeds # {}
      PROVE  DOMAIN p = policy.tasks \X policy.seeds /\ policy.tasks \ TasksIn(DOMAIN p) = {}
  <2>1. (policy.tasks \X policy.seeds) \subseteq DOMAIN p
    BY <1>2, <1>3, <1>9 DEF ExpectedMissing
  <2>2. DOMAIN p \subseteq policy.tasks \X policy.seeds
    BY <1>4, <1>9 DEF OnRoster
  <2>3. ASSUME NEW t \in policy.tasks PROVE t \in TasksIn(DOMAIN p)
    <3>1. PICK s \in policy.seeds : TRUE
      BY <1>9
    <3>2. <<t, s>> \in DOMAIN p /\ <<t, s>>[1] = t
      BY <2>1, <3>1
    <3> QED BY <3>2 DEF TasksIn
  <2> QED BY <2>1, <2>2, <2>3
<1>10. ASSUME policy.complete, policy.seeds = {} PROVE policy.tasks \ TasksIn(DOMAIN p) = {}
  BY <1>2, <1>3, <1>10 DEF ExpectedMissing
<1>11. Cardinality(TasksIn(DOMAIN p)) >= policy.minTasks
  <2> DEFINE valid == ValidPairs(policy, p, q)
  <2>1. valid \subseteq DOMAIN p
    BY <1>3 DEF ValidPairs
  <2>2. TasksIn(valid) \subseteq TasksIn(DOMAIN p)
    BY <2>1 DEF TasksIn
  <2>3. IsFiniteSet(TasksIn(DOMAIN p))
    <3> DEFINE f == [key \in DOMAIN p |-> key[1]]
    <3>1. f \in Surjection(DOMAIN p, TasksIn(DOMAIN p))
      BY DEF Surjection, TasksIn
    <3> QED BY <3>1, FS_Surjection
  <2> HIDE DEF valid
  <2>4. /\ Cardinality(TasksIn(valid)) <= Cardinality(TasksIn(DOMAIN p))
        /\ Cardinality(TasksIn(valid)) \in Nat /\ Cardinality(TasksIn(DOMAIN p)) \in Nat
    BY <2>2, <2>3, FS_Subset, FS_CardinalityType
  <2>5. ~(Cardinality(TasksIn(valid)) < policy.minTasks)
    BY ComparedTasks DEF SampleSizeCheck, valid
  <2> QED BY <2>4, <2>5
<1>12. policy.tasks \ TasksIn(DOMAIN p) = {} \/ ~policy.complete
  BY <1>9, <1>10
<1> QED BY <1>4, <1>5, <1>6, <1>7, <1>8, <1>9, <1>11, <1>12 DEF RosterRan

(* Signing, by whoever and under whatever binding, leaves the verdicts.     *)
LEMMA SigningKeeps ==
  ASSUME GateInv, evidences \subseteq evidences', batches \subseteq batches', UNCHANGED verdicts,
         DecisionTypeOK', SignedStands'
  PROVE  GateInv'
<1>1. Evaluations \subseteq Evaluations'
  BY DEF Evaluations
<1>2. \A c \in Contenders : VerdictStands(c)'
  BY <1>1 DEF GateInv, VerdictStands
<1>3. (verdicts = [c \in Contenders |-> verdicts[c]])'
  BY DEF GateInv
<1> QED BY <1>2, <1>3 DEF GateInv

(* A bounded set below its bound may grow by one.                           *)
LEMMA GrowsByOne ==
  ASSUME NEW S, IsFiniteSet(S), NEW x, NEW n \in Nat, Cardinality(S) < n
  PROVE  IsFiniteSet(S \cup {x}) /\ Cardinality(S \cup {x}) <= n
<1>1. Cardinality(S) \in Nat
  BY FS_CardinalityType
<1>2. IsFiniteSet(S \cup {x})
  BY FS_AddElement
<1>3. Cardinality(S \cup {x}) = IF x \in S THEN Cardinality(S) ELSE Cardinality(S) + 1
  BY FS_AddElement
<1> QED BY <1>1, <1>2, <1>3

(* Every step of producers and deciders keeps the invariant.                *)
LEMMA GateStep ==
  ASSUME GateInv, [DecisionNext]_decisionVars PROVE GateInv'
<1>0. /\ IsFiniteSet(evidences) /\ IsFiniteSet(batches) /\ slips \in 0 .. MaxSlips
      /\ Cardinality(evidences) \in Nat /\ Cardinality(batches) \in Nat
      /\ {MaxBatches, MaxEvidence, MaxSlips} \subseteq Nat
  BY FS_CardinalityType, GateDecisionAssumption DEF GateInv, DecisionTypeOK, SignedStands
<1>1. ASSUME NEW c \in Contenders, NEW protocol, NEW checks \in CheckSets,
             SignEvidence(c, protocol, checks)
      PROVE  GateInv'
  <2> DEFINE x == [protocol |-> protocol, contender |-> c, harness |-> c, checks |-> checks]
  <2>1. evidences' = evidences \cup {x} /\ Cardinality(evidences) < MaxEvidence
    BY <1>1 DEF SignEvidence
  <2>2. x.checks \in CheckSets
    OBVIOUS
  <2> HIDE DEF x
  <2>3. slips' \in 0 .. MaxSlips
    BY <1>0, <1>1 DEF SignEvidence
  <2>4. UNCHANGED <<batches, verdicts>>
    BY <1>1 DEF SignEvidence
  <2>5. IsFiniteSet(evidences') /\ Cardinality(evidences') <= MaxEvidence
    BY <1>0, <2>1, GrowsByOne
  <2>6. DecisionTypeOK' /\ SignedStands'
    BY <2>1, <2>2, <2>3, <2>4, <2>5 DEF GateInv, DecisionTypeOK, SignedStands
  <2> QED BY <2>1, <2>4, <2>6, SigningKeeps
<1>2. ASSUME NEW c \in Contenders, NEW arm \in Arms, NEW evidence \in evidences,
             NEW trials \in TrialSets[arm], SignBatch(c, arm, evidence, trials)
      PROVE  GateInv'
  <2>1. PICK binding : batches' = batches \cup {[binding |-> binding, trials |-> trials]}
    BY <1>2 DEF SignBatch
  <2>2. Cardinality(batches) < MaxBatches /\ slips' \in 0 .. MaxSlips
    BY <1>0, <1>2 DEF SignBatch
  <2>3. IsFiniteSet(batches') /\ Cardinality(batches') <= MaxBatches
    BY <1>0, <2>1, <2>2, GrowsByOne
  <2>4. UNCHANGED <<evidences, verdicts>>
    BY <1>2 DEF SignBatch
  <2>5. \A b \in batches' : \E side \in Arms : b.trials \in TrialSets[side]
    BY <2>1 DEF GateInv, SignedStands
  <2>6. DecisionTypeOK' /\ SignedStands'
    BY <1>0, <2>2, <2>3, <2>4, <2>5 DEF GateInv, DecisionTypeOK, SignedStands
  <2> QED BY <2>1, <2>4, <2>6, SigningKeeps
<1>3. ASSUME NEW c \in Contenders, NEW state \in TerminalStates, Conclude(c, state)
      PROVE  GateInv'
  <2>1. PICK evaluation \in Evaluations :
          /\ Stands(c, evaluation)
          /\ \E decided \in Evaluations :
               /\ DecisionOf(c, decided) = DecisionOf(c, evaluation)
               /\ state = DecisionState(DecisionOf(c, decided).decision)
          /\ verdicts' = [verdicts EXCEPT ![c] = [state |-> state, on |-> evaluation]]
    BY <1>3 DEF Conclude
  <2>2. UNCHANGED <<evidences, batches, slips>>
    BY <1>3 DEF Conclude
  <2>3. \A d \in Contenders :
          verdicts'[d] = IF d = c THEN [state |-> state, on |-> evaluation] ELSE verdicts[d]
    BY <2>1 DEF GateInv
  <2>4. (verdicts = [d \in Contenders |-> verdicts[d]])'
    BY <2>1 DEF GateInv
  <2>5. state = "PROMOTED" => DecisionOf(c, evaluation).decision = "PROMOTE"
    BY <2>1 DEF DecisionState
  <2>6. Evaluations' = Evaluations
    BY <2>2 DEF Evaluations
  <2>7. ASSUME NEW d \in Contenders PROVE VerdictStands(d)'
    <3>1. CASE d = c
      <4>1. verdicts'[d].state = state /\ verdicts'[d].on = evaluation
        BY <2>3, <3>1
      <4> QED BY <2>1, <2>5, <2>6, <3>1, <4>1 DEF VerdictStands
    <3>2. CASE d # c
      <4>1. verdicts'[d] = verdicts[d] /\ VerdictStands(d)
        BY <2>3, <3>2 DEF GateInv
      <4> QED BY <2>6, <4>1 DEF VerdictStands
    <3> QED BY <3>1, <3>2
  <2>8. DecisionTypeOK' /\ SignedStands'
    <3>1. \A d \in Contenders : verdicts'[d].state \in TerminalStates \cup {"RUNNING"}
      BY <2>3 DEF GateInv, DecisionTypeOK
    <3> QED BY <2>2, <3>1 DEF GateInv, DecisionTypeOK, SignedStands
  <2> QED BY <2>4, <2>7, <2>8 DEF GateInv
<1>4. CASE UNCHANGED decisionVars
  <2>1. UNCHANGED <<evidences, batches, verdicts, slips>>
    BY <1>4 DEF decisionVars
  <2>2. DecisionTypeOK' /\ SignedStands'
    BY <2>1 DEF GateInv, DecisionTypeOK, SignedStands
  <2> QED BY <2>1, <2>2, SigningKeeps
<1> QED BY <1>1, <1>2, <1>3, <1>4 DEF DecisionNext

(* Whatever batches, evidence and decisions an evaluation is put together   *)
(* from, and however wrongly they were bound, a contender is promoted only  *)
(* on its own trials, under its own evidence with every required check      *)
(* passed, over a roster that ran (decision.py, gate.py).                   *)
THEOREM PromotionsRestOnOwnTrials == DecisionSpec => [](DecisionTypeOK /\ PromotedOnOwnTrials)
<1>1. DecisionInit => GateInv
  BY FS_EmptySet, GateDecisionAssumption
     DEF DecisionInit, GateInv, DecisionTypeOK, SignedStands, VerdictStands
<1>2. GateInv /\ [DecisionNext]_decisionVars => GateInv'
  BY GateStep
<1>3. ASSUME GateInv PROVE PromotedOnOwnTrials
  <2> SUFFICES ASSUME NEW c \in Contenders, verdicts[c].state = "PROMOTED"
               PROVE  LET on == verdicts[c].on
                      IN  /\ on.parent.binding.contender = c /\ on.candidate.binding.contender = c
                          /\ on.parent.binding.evidence = on.evidence
                          /\ on.candidate.binding.evidence = on.evidence
                          /\ on.evidence.harness = c
                          /\ \A check \in PolicyOf(c).required :
                               Observed1(on.evidence, check) = "PASSED"
                          /\ RosterRan(PolicyOf(c), on.parent.trials, on.candidate.trials)
    BY DEF PromotedOnOwnTrials
  <2> DEFINE on == verdicts[c].on
  <2>1. /\ on \in Evaluations /\ Stands(c, on) /\ DecisionOf(c, on).decision = "PROMOTE"
    BY <1>3 DEF GateInv, VerdictStands
  <2> HIDE DEF on
  <2>2. on.parent.binding = [protocol |-> ProtocolOf[c], contender |-> c, arm |-> "PARENT",
                             harness |-> HarnessOf(c, "PARENT"), evidence |-> on.evidence]
    BY <2>1 DEF Stands, BatchStands
  <2>3. on.candidate.binding = [protocol |-> ProtocolOf[c], contender |-> c, arm |-> "CANDIDATE",
                                harness |-> HarnessOf(c, "CANDIDATE"), evidence |-> on.evidence]
    BY <2>1 DEF Stands, BatchStands
  <2>4. on.evidence.harness = c
    BY <2>1 DEF Stands, EvidenceStands
  <2>5. /\ IntegrityCheck(PolicyOf(c), on.parent.trials, on.candidate.trials) = "PASS"
        /\ PolicyCheck(on.parent.trials, on.candidate.trials) = "PASS"
        /\ SampleSizeCheck(PolicyOf(c), CompareTrials(PolicyOf(c), on.parent.trials, on.candidate.trials)) = "PASS"
        /\ MechanismCheck(PolicyOf(c), on.evidence, c) = "PASS"
    BY <2>1, PromoteMeansPass DEF DecisionOf
  <2>6. \A check \in PolicyOf(c).required : Observed1(on.evidence, check) = "PASSED"
    <3> SUFFICES ASSUME NEW check \in PolicyOf(c).required
                 PROVE  Observed1(on.evidence, check) = "PASSED"
      OBVIOUS
    <3> DEFINE seen == {Observed1(on.evidence, required) : required \in PolicyOf(c).required}
    <3>1. Observed1(on.evidence, check) \in seen
      OBVIOUS
    <3>2. "FAILED" \notin seen /\ "UNOBSERVED" \notin seen
      BY <2>5 DEF MechanismCheck
    <3>3. Observed1(on.evidence, check) \in {"PASSED", "FAILED", "UNOBSERVED"}
      BY <1>3, <2>1, GateDecisionAssumption DEF Observed1, Evaluations, GateInv, SignedStands
    <3> QED BY <3>1, <3>2, <3>3
  <2>7. RosterRan(PolicyOf(c), on.parent.trials, on.candidate.trials)
    <3>1. PICK arm \in Arms : on.parent.trials \in TrialSets[arm]
      BY <1>3, <2>1 DEF Evaluations, GateInv, SignedStands
    <3>2. IsFiniteSet(DOMAIN on.parent.trials) /\ PolicyOf(c).minTasks \in Nat
      BY <3>1, GateDecisionAssumption DEF PolicyOf
    <3> QED BY <2>5, <3>2, ChecksMeanRosterRan
  <2>8. on.parent.binding.contender = c /\ on.parent.binding.evidence = on.evidence
    BY <2>2
  <2>9. on.candidate.binding.contender = c /\ on.candidate.binding.evidence = on.evidence
    BY <2>3
  <2> QED BY <2>4, <2>6, <2>7, <2>8, <2>9 DEF on
<1>4. GateInv => DecisionTypeOK
  BY DEF GateInv
<1> QED BY <1>1, <1>2, <1>3, <1>4, PTL DEF DecisionSpec
=============================================================================
