--------------------------- MODULE PayScriptsProofs ---------------------------
(***************************************************************************)
(* For any number of runs, calm or not: what condominium.mjs recorded has  *)
(* happened, a step is done twice only where the return of the first was   *)
(* lost, no account outlives its keys, and a run that finished paid once.  *)
(*                                                                         *)
(* The argument: the sequence numbers of an account's transactions do not  *)
(* go down in the order they were built, so once the call of a step has    *)
(* returned, whatever an earlier run left in the pool is dead.  What was   *)
(* sent is in the file, or is the step of this moment, or was lost.        *)
(***************************************************************************)
EXTENDS PayScripts, FiniteSetTheorems, TLAPS

Gens    == 1 .. MaxRuns + CalmRuns
Running == phase \in {"step", "calling", "saving"}
Active  == call[Me].phase \in {"simulate", "send", "poll", "returned"}

\* Transactions the network has or had, and the one on its way.
Sent == pool \cup {l.tx : l \in landed}
Out  == Sent \cup (IF Active THEN {call[Me].tx} ELSE {})

Kinds == {"register", "deposit", "merge", "transfer"}
Pays  == CallStep("transfer", "payer")

-----------------------------------------------------------------------------
(* The invariant. *)

\* The script: where a run is, and that its file is not ahead of it.
ScriptInv ==
  /\ script \in Scripts /\ script \in {"condominium", "live", "seeded", "guest"}
  /\ runs \in 0 .. MaxRuns + CalmRuns
  /\ DOMAIN call = {Me}
  /\ phase \in {"off", "step", "calling", "saving", "finished"}
  /\ Running => pc \in DOMAIN Program /\ runs \in 1 .. MaxRuns + CalmRuns
  /\ phase # "calling" => call[Me] = NotCalling
  /\ phase = "calling" => /\ Step.do = "call" /\ Name(Step) \notin mem.done
                          /\ call[Me].phase \in {"simulate", "send", "poll", "returned", "threw"}
  /\ call[Me].phase = "poll" =>
       call[Me] = [phase |-> "poll", tx |-> call[Me].tx, polls |-> call[Me].polls]
  /\ phase = "saving" => Step.do = "save" \/ (Step.do = "call" /\ Name(Step) \in mem.done)
  /\ mem = [gen |-> mem.gen, done |-> mem.done] /\ mem.gen \in Gens
  /\ file.is \in {"absent", "torn", "kept"}
  /\ file.is = "torn" => phase = "off"
  /\ file.is = "kept" => file.state = [gen |-> file.state.gen, done |-> file.state.done]
                         /\ file.state.gen \in Gens
  /\ file.is = "kept" /\ Running => file.state.gen = mem.gen /\ file.state.done \subseteq mem.done

IsAccount(r) ==
  r = [ registered |-> r.registered, seq |-> r.seq,
        receiving |-> r.receiving, openings |-> r.openings ]

PayeeOf(gen) == <<"payee", gen>>

\* The ledger: who is registered, and what the payees received, is from what landed.
LedgerInv ==
  /\ DOMAIN account = Accounts /\ IsFiniteSet(landed)
  /\ \A a \in Accounts :
       /\ IsAccount(account[a]) /\ account[a].seq \in Nat
       /\ account[a].registered =>
            \E l \in landed : l.ok /\ l.tx.name[1] = <<"register", a[1], a[2]>>
  /\ \A gen \in Gens :
       account[PayeeOf(gen)].receiving = Dues * Cardinality(Landed("transfer", gen))

\* A transaction is for the step it is named after.
IsCall(t) ==
  /\ t.op.kind \in Kinds /\ t.op.of \in Accounts /\ t.source = t.op.of
  /\ t.name = <<<<t.op.kind, t.op.of[1], t.op.of[2]>>, t.name[2]>> /\ t.name[2] \in 1 .. runs
  /\ t.op.kind # "register" => t.op.of[1] = "payer"
  /\ t.op.kind = "transfer" => t.op.to = <<"payee", t.op.of[2]>> /\ t.op.amount = Dues
  /\ t.seq \in Nat /\ t.seq <= account[t.source].seq + 1

\* The call of this moment was built last.
TransactionsInv ==
  /\ \A t \in Out : IsCall(t)
  /\ \A l \in landed : Dead(l.tx)
  /\ Active => /\ call[Me].tx.name = <<Name(Step), runs>>
               /\ \A t \in Out : t.source = call[Me].tx.source => t.seq <= call[Me].tx.seq
  /\ call[Me].phase = "returned" => \E l \in landed : l.ok /\ l.tx = call[Me].tx

\* No transfer left in the pool can land.
AllDead(gen) ==
  \A t \in pool : t.op.kind = "transfer" /\ t.op.of[2] = gen => Dead(t)

\* What is recorded has landed; once the transfer is, no other one can follow.
States == {mem} \cup (IF file.is = "kept" THEN {file.state} ELSE {})
Recorded(state) ==
  /\ \A name \in state.done : \E l \in landed : l.ok /\ l.tx.name[1] = name
  /\ <<"transfer", "payer", state.gen>> \in state.done => AllDead(state.gen)
RecordInv == \A state \in States : Recorded(state)

\* Steps the run has behind it.
Behind ==
  IF phase = "finished" THEN DOMAIN Program ELSE IF Running THEN 1 .. pc - 1 ELSE {}

StageInv ==
  \A i \in Behind :
    /\ Program[i] = Pays => AllDead(mem.gen)
    /\ Program[i] = CheckStep => AllDead(mem.gen) /\ account[Payee].receiving = Dues

\* Keys are in the file before anything is sent.
KeysInv ==
  /\ script = "condominium" /\ file.is # "torn" =>
       /\ Running /\ pc > 1 => file.is = "kept"
       /\ \A t \in Out : file.is = "kept" /\ file.state.gen = t.op.of[2]
  /\ script = "guest" /\ phase = "finished" => file.is = "kept" /\ file.state.gen = mem.gen

\* What was sent is recorded in the file, or is of the step of this moment, or is lost.
InFile(name) == file.is = "kept" /\ name \in file.state.done
AtStep(name) == phase \in {"calling", "saving"} /\ Step.do = "call" /\ name = <<Name(Step), runs>>

LostInv ==
  /\ \A x \in lost : x[2] \in 1 .. runs /\ (Running => x[2] < runs)
  /\ script = "condominium" =>
       /\ file.is # "torn" =>
            \A t \in Sent : t.name \in lost \/ InFile(t.name[1]) \/ AtStep(t.name)
       /\ \A t \in Sent, u \in Out :
            t.name[1] = u.name[1] /\ t.name[2] < u.name[2] => t.name \in lost
       /\ call[Me].phase \in {"simulate", "send"} =>
            \A t \in Sent : t.name # call[Me].tx.name

ScriptsInv ==
  ScriptInv /\ LedgerInv /\ TransactionsInv /\ RecordInv /\ StageInv /\ KeysInv /\ LostInv

-----------------------------------------------------------------------------
(* The scripts, step by step. *)

CallSteps == {CallStep(kind, "payer") : kind \in Kinds} \cup {CallStep("register", "payee")}

\* Every call but a registration is the payer's; the transfer is the last call, and
\* only then is anything checked.
IsScript(steps) ==
  /\ Len(steps) \in Nat \ {0} /\ DOMAIN steps = 1 .. Len(steps)
  /\ \A i \in DOMAIN steps : steps[i] \in {SaveStep, CheckStep} \cup CallSteps
  /\ \A i, j \in DOMAIN steps : steps[i] = Pays /\ steps[j] \in CallSteps => j <= i
  /\ \A i \in DOMAIN steps : steps[i] = CheckStep => \E j \in 1 .. i - 1 : steps[j] = Pays

LEMMA StepsDiffer ==
  /\ SaveStep.do = "save" /\ CheckStep.do = "check"
  /\ \A s \in CallSteps : /\ s.do = "call" /\ s = CallStep(s.kind, s.role)
                          /\ s.kind \in Kinds /\ s.role \in {"payer", "payee"}
                          /\ s.kind # "register" => s.role = "payer"
                          /\ s.kind = "transfer" => s = Pays
  /\ Pays \in CallSteps /\ Pays.kind = "transfer" /\ Pays.role = "payer"
BY DEF CallSteps, CallStep, SaveStep, CheckStep, Pays, Kinds

LEMMA CondominiumIs ==
  /\ IsScript(CondominiumSteps) /\ CondominiumSteps[1] = SaveStep
  /\ \E i \in DOMAIN CondominiumSteps : CondominiumSteps[i] = CheckStep
<1>. DEFINE steps == CondominiumSteps
<1>1. /\ Len(steps) = 8 /\ DOMAIN steps = 1 .. 8
      /\ steps[1] = SaveStep /\ steps[2] = CallStep("register", "payee")
      /\ steps[3] = CallStep("register", "payer") /\ steps[4] = CallStep("deposit", "payer")
      /\ steps[5] = CallStep("merge", "payer") /\ steps[6] = Pays
      /\ steps[7] = CheckStep /\ steps[8] = SaveStep
  BY DEF CondominiumSteps, Condominium, Pays
<1>. HIDE DEF steps
<1>2. \A i \in 1 .. 8 : steps[i] \in {SaveStep, CheckStep} \cup CallSteps
  <2>1. \A i \in {2, 3, 4, 5, 6} : steps[i] \in CallSteps
    BY <1>1 DEF CallSteps, Kinds, Pays
  <2>. QED BY <1>1, <2>1
<1>3. \A i, j \in 1 .. 8 : steps[i] = Pays /\ steps[j] \in CallSteps => j <= i
  <2>1. \A i \in 1 .. 5 \cup {7, 8} : steps[i] # Pays
    BY <1>1 DEF CallStep, SaveStep, CheckStep, Pays
  <2>2. \A j \in {7, 8} : steps[j] \notin CallSteps
    BY <1>1, StepsDiffer
  <2>. QED BY <2>1, <2>2
<1>4. \A i \in 1 .. 8 : steps[i] = CheckStep => \E j \in 1 .. i - 1 : steps[j] = Pays
  <2>1. \A i \in 1 .. 6 : steps[i] # CheckStep
    BY <1>1 DEF CallStep, SaveStep, CheckStep, Pays
  <2>. QED BY <1>1, <2>1
<1>. QED BY <1>1, <1>2, <1>3, <1>4 DEF IsScript, steps

LEMMA LivePaymentIs ==
  /\ IsScript(LivePayment)
  /\ \E i \in DOMAIN LivePayment : LivePayment[i] = CheckStep
  /\ \A i \in DOMAIN LivePayment : LivePayment[i] # SaveStep
<1>. DEFINE steps == LivePayment
<1>1. /\ Len(steps) = 6 /\ DOMAIN steps = 1 .. 6
      /\ steps[1] = CallStep("register", "payer") /\ steps[2] = CallStep("register", "payee")
      /\ steps[3] = CallStep("deposit", "payer") /\ steps[4] = CallStep("merge", "payer")
      /\ steps[5] = Pays /\ steps[6] = CheckStep
  BY DEF LivePayment, Pays
<1>. HIDE DEF steps
<1>2. \A i \in 1 .. 5 : steps[i] \in CallSteps
  BY <1>1 DEF CallSteps, Kinds, Pays
<1>3. \A i \in 1 .. 4 \cup {6} : steps[i] # Pays
  BY <1>1 DEF CallStep, CheckStep, Pays
<1>4. steps[6] \notin CallSteps /\ \A i \in 1 .. 5 : steps[i] # CheckStep
  BY <1>1, <1>2, StepsDiffer
<1>5. \A i \in 1 .. 6 : steps[i] # SaveStep
  BY <1>1, <1>2, StepsDiffer
<1>6. IsScript(steps)
  <2>1. \A i \in 1 .. 6 : steps[i] \in {SaveStep, CheckStep} \cup CallSteps
    BY <1>1, <1>2
  <2>2. \A i, j \in 1 .. 6 : steps[i] = Pays /\ steps[j] \in CallSteps => j <= i
    BY <1>3, <1>4
  <2>3. \A i \in 1 .. 6 : steps[i] = CheckStep => \E j \in 1 .. i - 1 : steps[j] = Pays
    BY <1>1, <1>4
  <2>. QED BY <1>1, <2>1, <2>2, <2>3 DEF IsScript
<1>. QED BY <1>1, <1>5, <1>6 DEF steps

LEMMA SetupGuestIs ==
  /\ IsScript(SetupGuest)
  /\ \A i \in DOMAIN SetupGuest : SetupGuest[i] # CheckStep /\ SetupGuest[i] # Pays
  /\ SetupGuest[Len(SetupGuest)] = SaveStep
<1>. DEFINE steps == SetupGuest
<1>1. /\ Len(steps) = 4 /\ DOMAIN steps = 1 .. 4
      /\ steps[1] = CallStep("register", "payer") /\ steps[2] = CallStep("deposit", "payer")
      /\ steps[3] = CallStep("merge", "payer") /\ steps[4] = SaveStep
  BY DEF SetupGuest
<1>. HIDE DEF steps
<1>2. \A i \in 1 .. 3 : steps[i] \in CallSteps
  BY <1>1 DEF CallSteps, Kinds
<1>3. \A i \in 1 .. 4 : steps[i] # CheckStep /\ steps[i] # Pays
  BY <1>1 DEF CallStep, CheckStep, SaveStep, Pays
<1>4. IsScript(steps)
  <2>1. \A i \in 1 .. 4 : steps[i] \in {SaveStep, CheckStep} \cup CallSteps
    BY <1>1, <1>2
  <2>. QED BY <1>1, <1>3, <2>1 DEF IsScript
<1>. QED BY <1>1, <1>3, <1>4 DEF steps

\* What is used of the script that runs.
LEMMA ProgramIs ==
  ASSUME ScriptInv
  PROVE  /\ IsScript(Program)
         /\ script = "condominium" => Program[1] = SaveStep
         /\ script # "guest" => \E i \in DOMAIN Program : Program[i] = CheckStep
         /\ script \in {"live", "seeded"} => \A i \in DOMAIN Program : Program[i] # SaveStep
         /\ script = "guest" => Program[Len(Program)] = SaveStep
BY CondominiumIs, LivePaymentIs, SetupGuestIs DEF ScriptInv, Program

\* The step of this moment.
LEMMA StepIs ==
  ASSUME ScriptInv, Running
  PROVE  /\ pc \in DOMAIN Program /\ pc \in 1 .. Len(Program) /\ Len(Program) \in Nat
         /\ Step \in {SaveStep, CheckStep} \cup CallSteps
         /\ Step.do = "save" <=> Step = SaveStep
         /\ Step.do = "check" <=> Step = CheckStep
         /\ Step.do = "call" <=> Step \in CallSteps
         /\ Step = Pays \/ Step = CheckStep => script # "guest"
<1>1. pc \in DOMAIN Program /\ pc \in 1 .. Len(Program) /\ Len(Program) \in Nat
  BY ProgramIs DEF ScriptInv, IsScript
<1>2. Step \in {SaveStep, CheckStep} \cup CallSteps
  BY <1>1, ProgramIs DEF IsScript, Step
<1>3. Step = Pays \/ Step = CheckStep => script # "guest"
  BY <1>1, SetupGuestIs DEF Step, Program
<1>. QED BY <1>1, <1>2, <1>3, StepsDiffer

LEMMA GensAre ==
  /\ Gens = 1 .. MaxRuns + CalmRuns /\ MaxRuns \in Nat /\ CalmRuns \in Nat /\ Dues \in Nat \ {0}
  /\ Accounts = {"payer", "payee"} \X Gens
  /\ Me \in Callers /\ Callers = {Me}
<1>1. Accounts = {"payer", "payee"} \X (1 .. MaxRuns + CalmRuns)
  BY PayScriptsAssumption
<1>2. MaxRuns \in Nat /\ CalmRuns \in Nat /\ Callers = {Me} /\ Dues \in Nat \ {0}
  BY PayScriptsAssumption
<1>3. Me \in Callers
  BY <1>2
<1>. QED BY <1>1, <1>2, <1>3, Zenon DEF Gens

\* A step is behind.
LEMMA AdvanceIs ==
  ASSUME ScriptInv, Running, Advance, UNCHANGED script
  PROVE  /\ Program' = Program /\ Behind' = Behind \cup {pc} /\ Behind = 1 .. pc - 1
         /\ phase' \in {"step", "finished"}
         /\ phase' = "step" => Running' /\ pc' \in DOMAIN Program /\ pc' = pc + 1
         /\ phase' = "finished" => ~ Running' /\ pc = Len(Program)
<1>1. Program' = Program
  BY DEF Program
<1>2. pc \in 1 .. Len(Program) /\ Len(Program) \in Nat /\ DOMAIN Program = 1 .. Len(Program)
  BY StepIs, ProgramIs DEF IsScript
<1>3. phase # "finished" /\ Behind = 1 .. pc - 1
  BY DEF Running, Behind
<1>. HIDE DEF Program
<1>4. CASE pc = Len(Program)
  BY <1>1, <1>2, <1>3, <1>4 DEF Advance, Running, Behind
<1>5. CASE pc # Len(Program)
  <2>1. phase' = "step" /\ pc' = pc + 1 /\ pc' \in 1 .. Len(Program) /\ Running'
    <3>1. phase' = "step" /\ pc' = pc + 1
      BY <1>5 DEF Advance
    <3>2. pc' \in 1 .. Len(Program)
      <4>1. \A len \in Nat : \A n \in 1 .. len : n # len => n + 1 \in 1 .. len
        OBVIOUS
      <4>. QED BY <3>1, <1>2, <1>5, <4>1, Zenon
    <3>. QED BY <3>1, <3>2 DEF Running
  <2>2. Behind' = 1 .. pc
    <3>1. pc \in Int /\ pc' - 1 = pc
      BY <1>2, <2>1
    <3>2. Behind' = 1 .. pc' - 1
      BY <2>1 DEF Behind
    <3>. QED BY <3>1, <3>2
  <2>3. 1 .. pc = (1 .. pc - 1) \cup {pc}
    BY <1>2
  <2>. QED BY <1>1, <1>2, <1>3, <2>1, <2>2, <2>3
<1>. QED BY <1>4, <1>5

-----------------------------------------------------------------------------
(* What steps that do not touch the chain leave as it is. *)

LEMMA ChainKept ==
  ASSUME ScriptsInv, UNCHANGED ledgerVars, phase # "calling" \/ call'[Me] = NotCalling,
         call' = call \/ call'[Me] = NotCalling, runs' \in Nat, runs <= runs'
  PROVE  LedgerInv' /\ TransactionsInv' /\ Sent' = Sent /\ Out' \subseteq Out /\ ~ Active'
<1>. USE DEF ScriptsInv
<1>1. call'[Me].phase = "idle" /\ ~ Active'
  BY DEF ScriptInv, NotCalling, Active
<1>2. Sent' = Sent /\ Out' \subseteq Out
  BY <1>1 DEF Sent, Out, ledgerVars
<1>3. LedgerInv'
  BY DEF LedgerInv, Landed, ledgerVars
<1>4. \A t \in Out' : IsCall(t)'
  <2>. SUFFICES ASSUME NEW t \in Out' PROVE IsCall(t)'
    OBVIOUS
  <2>1. IsCall(t) /\ runs \in Nat
    BY <1>2, GensAre DEF TransactionsInv, ScriptInv
  <2>2. t.name[2] \in 1 .. runs'
    BY <2>1 DEF IsCall
  <2>. QED BY <2>1, <2>2 DEF IsCall, ledgerVars
<1>5. (\A t \in Out : IsCall(t))'
  BY <1>4
<1>6. (\A l \in landed : Dead(l.tx))'
  BY DEF TransactionsInv, Dead, ledgerVars
<1>7. TransactionsInv'
  BY <1>1, <1>5, <1>6 DEF TransactionsInv
<1>. QED BY <1>1, <1>2, <1>3, <1>7

LEMMA AllDeadKept ==
  ASSUME UNCHANGED <<account, pool>>
  PROVE  \A gen : AllDead(gen) <=> AllDead(gen)'
BY DEF AllDead, Dead

LEMMA RecordKept ==
  ASSUME RecordInv, UNCHANGED ledgerVars,
         \A state \in States' : state \in States \/ state.done = {}
  PROVE  RecordInv'
<1>1. \A state \in States : Recorded(state) => Recorded(state)'
  BY DEF ledgerVars, Recorded, AllDead, Dead
<1>2. \A state : state.done = {} => Recorded(state)'
  BY DEF Recorded
<1>3. \A state \in States' : Recorded(state)'
  BY <1>1, <1>2 DEF RecordInv
<1>. QED BY <1>3 DEF RecordInv

LEMMA StageKept ==
  ASSUME StageInv, UNCHANGED <<account, pool, script>>, Behind' = {} \/ (Behind' = Behind /\ mem'.gen = mem.gen)
  PROVE  StageInv'
<1>1. \A gen : AllDead(gen) <=> AllDead(gen)'
  BY AllDeadKept
<1>2. Program' = Program
  BY DEF Program
<1>. QED BY <1>1, <1>2 DEF StageInv, Payee

LEMMA StageAdvances ==
  ASSUME ScriptsInv, Running, Advance, UNCHANGED <<account, pool, script>>, mem'.gen = mem.gen,
         Step = Pays \/ Step = CheckStep => AllDead(mem.gen),
         Step = CheckStep => account[Payee].receiving = Dues
  PROVE  StageInv'
<1>1. \A gen : AllDead(gen) <=> AllDead(gen)'
  BY AllDeadKept
<1>2. Program' = Program /\ Behind' = Behind \cup {pc}
  BY AdvanceIs DEF ScriptsInv
<1>. QED BY <1>1, <1>2 DEF StageInv, Payee, ScriptsInv, Step

\* What is said of what was lost, when nothing new is sent or built.
Remembered(name) == name \in lost \/ InFile(name[1]) \/ AtStep(name)

LEMMA LostKept ==
  ASSUME ScriptsInv, UNCHANGED <<pool, landed, script>>, lost \subseteq lost', ~ Active',
         Out' \subseteq Out,
         \A x \in lost' : x[2] \in 1 .. runs' /\ (Running' => x[2] < runs'),
         file.is = "torn" => file'.is = "torn",
         \/ file'.is = "torn"
         \/ script # "condominium"
         \/ \A t \in Sent : Remembered(t.name) => Remembered(t.name)'
  PROVE  LostInv'
<1>1. Sent' = Sent
  BY DEF Sent
<1>2. (\A x \in lost : x[2] \in 1 .. runs /\ (Running => x[2] < runs))'
  OBVIOUS
<1>3. ASSUME script = "condominium", file'.is # "torn"
      PROVE  (\A t \in Sent : t.name \in lost \/ InFile(t.name[1]) \/ AtStep(t.name))'
  <2>1. \A t \in Sent : Remembered(t.name)
    BY <1>3 DEF ScriptsInv, LostInv, Remembered
  <2>2. \A t \in Sent' : Remembered(t.name)'
    BY <1>1, <1>3, <2>1
  <2>. QED BY <2>2 DEF Remembered
<1>4. ASSUME script = "condominium"
      PROVE  (\A t \in Sent, u \in Out :
                t.name[1] = u.name[1] /\ t.name[2] < u.name[2] => t.name \in lost)'
  BY <1>1, <1>4 DEF ScriptsInv, LostInv
<1>5. call'[Me].phase \notin {"simulate", "send"}
  BY DEF Active
<1>. QED BY <1>2, <1>3, <1>4, <1>5 DEF LostInv

-----------------------------------------------------------------------------
(* The steps of the script that leave the chain alone. *)

\* The step of this moment is done, and nothing is recorded.
StepDone ==
  /\ Running /\ Step.do # "save" /\ Advance
  /\ call'[Me] = NotCalling /\ DOMAIN call' = {Me}
  /\ UNCHANGED <<account, pool, landed, script, runs, mem, file, lost>>
  /\ Step = Pays \/ Step = CheckStep => AllDead(mem.gen)
  /\ Step = CheckStep => account[Payee].receiving = Dues
  /\ script = "condominium" => phase = "step"

LEMMA StepDoneKeeps ==
  ASSUME ScriptsInv, StepDone
  PROVE  ScriptsInv'
<1>. USE DEF ScriptsInv
<1>1. /\ Running /\ Step.do # "save" /\ Advance /\ call'[Me] = NotCalling /\ DOMAIN call' = {Me}
      /\ UNCHANGED <<account, pool, landed, script, runs, mem, file, lost>>
  BY DEF StepDone
<1>2. /\ Program' = Program /\ phase' \in {"step", "finished"}
      /\ phase' = "step" => Running' /\ pc' \in DOMAIN Program /\ pc' = pc + 1
      /\ phase' = "finished" => ~ Running' /\ pc = Len(Program)
  BY <1>1, AdvanceIs
<1>3. file.is # "torn" /\ call'[Me].phase = "idle"
  BY <1>1 DEF ScriptInv, Running, NotCalling
<1>4. ScriptInv'
  BY <1>1, <1>2, <1>3 DEF ScriptInv, Running
<1>5. LedgerInv' /\ TransactionsInv' /\ Sent' = Sent /\ Out' \subseteq Out /\ ~ Active'
  <2>1. runs \in Nat
    BY GensAre DEF ScriptInv
  <2>. QED BY <1>1, <2>1, ChainKept DEF ledgerVars
<1>6. RecordInv'
  BY <1>1, RecordKept DEF ledgerVars, States
<1>7. StageInv'
  BY <1>1, StageAdvances DEF StepDone
<1>8. KeysInv'
  <2>1. pc # 1 \/ script # "condominium"
    BY <1>1, ProgramIs, StepsDiffer DEF Step
  <2>2. script = "guest" => pc # Len(Program)
    BY <1>1, ProgramIs, StepsDiffer DEF Step
  <2>3. pc \in 1 .. Len(Program) /\ Len(Program) \in Nat
    BY <1>1, StepIs
  <2>4. script = "condominium" => file.is = "kept"
    BY <1>1, <1>3, <2>1, <2>3 DEF KeysInv
  <2>5. \A t \in Out' : t \in Out
    BY <1>5
  <2>. QED BY <1>1, <1>2, <1>3, <2>2, <2>4, <2>5 DEF KeysInv
<1>9. LostInv'
  <2>1. \A x \in lost' : x[2] \in 1 .. runs' /\ (Running' => x[2] < runs')
    BY <1>1 DEF LostInv
  <2>2. script = "condominium" => \A t \in Sent : Remembered(t.name) => Remembered(t.name)'
    BY <1>1 DEF StepDone, Remembered, InFile, AtStep
  <2>. QED BY <1>1, <1>3, <1>5, <2>1, <2>2, LostKept
<1>. QED BY <1>4, <1>5, <1>6, <1>7, <1>8, <1>9

\* The step of this moment is recorded, and will be saved.
StepRecorded ==
  /\ phase \in {"step", "calling"} /\ Step.do = "call" /\ script = "condominium"
  /\ mem' = [mem EXCEPT !.done = @ \cup {Name(Step)}] /\ phase' = "saving"
  /\ call'[Me] = NotCalling /\ DOMAIN call' = {Me}
  /\ UNCHANGED <<account, pool, landed, script, pc, runs, file, lost>>
  /\ \E l \in landed : l.ok /\ l.tx.name[1] = Name(Step)
  /\ Step = Pays => AllDead(mem.gen)

LEMMA StepRecordedKeeps ==
  ASSUME ScriptsInv, StepRecorded
  PROVE  ScriptsInv'
<1>. USE DEF ScriptsInv
<1>1. /\ Running /\ phase \in {"step", "calling"} /\ Step.do = "call" /\ script = "condominium"
      /\ phase' = "saving" /\ Running'
      /\ call'[Me] = NotCalling /\ DOMAIN call' = {Me}
      /\ UNCHANGED <<account, pool, landed, script, pc, runs, file, lost>>
  BY DEF StepRecorded, Running
<1>2. /\ mem' = [gen |-> mem.gen, done |-> mem.done \cup {Name(Step)}]
      /\ mem'.gen = mem.gen /\ mem'.done = mem.done \cup {Name(Step)}
  BY DEF StepRecorded, ScriptInv
<1>3. Program' = Program /\ Step' = Step /\ Name(Step)' = Name(Step)
  BY <1>1, <1>2 DEF Program, Step, Name
<1>4. file.is # "torn" /\ call'[Me].phase = "idle"
  BY <1>1 DEF ScriptInv, Running, NotCalling
<1>5. ScriptInv'
  BY <1>1, <1>2, <1>3, <1>4 DEF ScriptInv
<1>6. LedgerInv' /\ TransactionsInv' /\ Sent' = Sent /\ Out' \subseteq Out /\ ~ Active'
  <2>1. runs \in Nat
    BY GensAre DEF ScriptInv
  <2>. QED BY <1>1, <2>1, ChainKept DEF ledgerVars
<1>7. RecordInv'
  <2>1. \A state \in States : Recorded(state) => Recorded(state)'
    BY <1>1 DEF Recorded, AllDead, Dead
  <2>2. ASSUME NEW state, state = mem' PROVE Recorded(state)'
    <3>1. Recorded(mem)
      BY DEF RecordInv, States
    <3>2. \A name \in mem'.done : \E l \in landed : l.ok /\ l.tx.name[1] = name
      BY <1>2, <3>1 DEF Recorded, StepRecorded
    <3>3. <<"transfer", "payer", mem.gen>> = Name(Step) => Step = Pays
      BY <1>1, StepIs, StepsDiffer DEF Name
    <3>4. <<"transfer", "payer", mem'.gen>> \in mem'.done => AllDead(mem'.gen)
      BY <1>2, <3>1, <3>3 DEF Recorded, StepRecorded
    <3>. QED BY <1>1, <2>2, <3>2, <3>4 DEF Recorded, AllDead, Dead
  <2>3. \A state \in States' : state \in States \/ state = mem'
    BY <1>1 DEF States
  <2>4. \A state \in States' : Recorded(state)'
    BY <2>1, <2>2, <2>3 DEF RecordInv
  <2>. QED BY <2>4 DEF RecordInv
<1>8. StageInv'
  <2>1. Behind' = Behind
    BY <1>1, <1>3 DEF Behind, Running
  <2>. QED BY <1>1, <1>2, <2>1, StageKept
<1>9. KeysInv'
  BY <1>1, <1>2, <1>4, <1>6 DEF KeysInv
<1>10. LostInv'
  <2>1. \A x \in lost' : x[2] \in 1 .. runs' /\ (Running' => x[2] < runs')
    BY <1>1 DEF LostInv
  <2>2. \A t \in Sent : Remembered(t.name) => Remembered(t.name)'
    BY <1>1, <1>3 DEF Remembered, InFile, AtStep
  <2>. QED BY <1>1, <1>4, <1>6, <2>1, <2>2, LostKept
<1>. QED BY <1>5, <1>6, <1>7, <1>8, <1>9, <1>10

LEMMA StartKeeps ==
  ASSUME ScriptsInv, Start
  PROVE  ScriptsInv'
<1>. USE DEF ScriptsInv
<1>1. /\ phase \in {"off", "finished"} /\ ~ Running /\ runs' = runs + 1
      /\ UNCHANGED <<account, pool, landed, call, script, file, lost>>
  BY DEF Start, Running, chainVars
<1>2. runs \in Nat /\ runs' \in 0 .. MaxRuns + CalmRuns
  BY GensAre DEF ScriptInv, Start
<1>3. call[Me] = NotCalling /\ DOMAIN call = {Me} /\ call[Me].phase = "idle"
  BY <1>1 DEF ScriptInv, NotCalling
<1>4. LedgerInv' /\ TransactionsInv' /\ Sent' = Sent /\ Out' \subseteq Out /\ ~ Active'
  BY <1>1, <1>2, <1>3, ChainKept DEF ledgerVars
<1>5. LostInv'
  <2>1. \A x \in lost' : x[2] \in 1 .. runs' /\ (Running' => x[2] < runs')
    BY <1>1, <1>2 DEF LostInv
  <2>2. \A t \in Sent : Remembered(t.name) => Remembered(t.name)'
    BY <1>1 DEF Remembered, InFile, AtStep
  <2>. QED BY <1>1, <1>4, <2>1, <2>2, LostKept
<1>6. CASE file.is = "torn"
  <2>1. UNCHANGED <<phase, pc, mem>> /\ phase = "off"
    BY <1>6 DEF Start, ScriptInv
  <2>2. Program' = Program /\ Behind' = {} /\ ~ Running'
    BY <1>1, <2>1 DEF Program, Behind, Running
  <2>3. ScriptInv'
    BY <1>1, <1>2, <1>3, <2>1, <2>2 DEF ScriptInv
  <2>4. RecordInv'
    BY <1>1, <2>1, RecordKept DEF ledgerVars, States
  <2>5. StageInv'
    BY <1>1, <2>2, StageKept
  <2>6. KeysInv'
    BY <1>1, <1>6, <2>1 DEF KeysInv
  <2>. QED BY <1>4, <1>5, <2>3, <2>4, <2>5, <2>6
<1>7. CASE file.is # "torn"
  <2>1. phase' = "step" /\ pc' = 1 /\ mem' = Loaded(runs + 1) /\ Running'
    BY <1>7 DEF Start, Running
  <2>2. Program' = Program /\ Behind' = {} /\ 1 \in DOMAIN Program
    <3>1. Program' = Program
      BY <1>1 DEF Program
    <3>2. Behind' = {}
      BY <2>1 DEF Behind
    <3>3. 1 \in DOMAIN Program
      BY ProgramIs DEF IsScript
    <3>. QED BY <3>1, <3>2, <3>3
  <2>3. /\ mem' = [gen |-> mem'.gen, done |-> mem'.done] /\ mem'.gen \in Gens
        /\ file.is = "kept" => mem' = file.state
        /\ file.is # "kept" => mem'.done = {}
    <3>1. runs + 1 \in Gens /\ 1 \in Gens
      BY <1>1, <1>2, GensAre
    <3>. QED BY <2>1, <3>1 DEF Loaded, ScriptInv
  <2>4. ScriptInv'
    BY <1>1, <1>2, <1>3, <1>7, <2>1, <2>2, <2>3 DEF ScriptInv
  <2>5. RecordInv'
    BY <1>1, <2>3, RecordKept DEF ledgerVars, States
  <2>6. StageInv'
    BY <1>1, <2>2, StageKept
  <2>7. KeysInv'
    BY <1>1, <1>4, <2>1 DEF KeysInv
  <2>. QED BY <1>4, <1>5, <2>4, <2>5, <2>6, <2>7
<1>. QED BY <1>6, <1>7

LEMMA SaveKeeps ==
  ASSUME ScriptsInv, Save
  PROVE  ScriptsInv'
<1>. USE DEF ScriptsInv
<1>1. /\ phase = "saving" /\ Running /\ Advance
      /\ file'.is = "kept" /\ file'.state = mem
      /\ UNCHANGED <<account, pool, landed, call, script, mem, runs, lost>>
  BY DEF Save, Saved, Running, chainVars
<1>2. /\ Program' = Program /\ phase' \in {"step", "finished"}
      /\ phase' = "step" => Running' /\ pc' \in DOMAIN Program /\ pc' = pc + 1
      /\ phase' = "finished" => ~ Running' /\ pc = Len(Program)
  BY <1>1, AdvanceIs
<1>3. /\ call[Me] = NotCalling /\ DOMAIN call = {Me} /\ call[Me].phase = "idle"
      /\ file.is # "torn" /\ (file.is = "kept" => file.state.gen = mem.gen)
      /\ (file.is = "kept" => file.state.done \subseteq mem.done)
  BY <1>1 DEF ScriptInv, NotCalling
<1>4. ScriptInv'
  BY <1>1, <1>2, <1>3 DEF ScriptInv
<1>5. LedgerInv' /\ TransactionsInv' /\ Sent' = Sent /\ Out' \subseteq Out /\ ~ Active'
  <2>1. runs \in Nat
    BY GensAre DEF ScriptInv
  <2>. QED BY <1>1, <1>3, <2>1, ChainKept DEF ledgerVars
<1>6. RecordInv'
  BY <1>1, RecordKept DEF ledgerVars, States
<1>7. StageInv'
  <2>1. Step # CheckStep
    BY <1>1, StepsDiffer DEF ScriptInv
  <2>2. Step = Pays => AllDead(mem.gen)
    <3>1. Step = Pays => <<"transfer", "payer", mem.gen>> \in mem.done
      BY <1>1, StepsDiffer DEF ScriptInv, Name
    <3>. QED BY <3>1 DEF RecordInv, Recorded, States
  <2>. QED BY <1>1, <2>1, <2>2, StageAdvances
<1>8. KeysInv'
  BY <1>1, <1>3, <1>5 DEF KeysInv
<1>9. LostInv'
  <2>1. \A x \in lost' : x[2] \in 1 .. runs' /\ (Running' => x[2] < runs')
    BY <1>1 DEF LostInv
  <2>2. \A t \in Sent : Remembered(t.name) => Remembered(t.name)'
    <3>1. \A name : AtStep(name) => name[1] \in mem.done
      BY <1>1, StepsDiffer DEF AtStep, ScriptInv
    <3>. QED BY <1>1, <1>3, <3>1 DEF Remembered, InFile
  <2>. QED BY <1>1, <1>3, <1>5, <2>1, <2>2, LostKept
<1>. QED BY <1>4, <1>5, <1>6, <1>7, <1>8, <1>9

LEMMA BeginSaveKeeps ==
  ASSUME ScriptsInv, BeginSave
  PROVE  ScriptsInv'
<1>. USE DEF ScriptsInv
<1>1. /\ phase = "step" /\ phase' = "saving" /\ Step.do = "save" /\ Running /\ Running'
      /\ UNCHANGED <<account, pool, landed, call, script, pc, mem, file, runs, lost>>
  BY DEF BeginSave, Running, chainVars
<1>2. Program' = Program /\ Step' = Step /\ Behind' = Behind
  BY <1>1 DEF Program, Step, Behind
<1>3. call[Me] = NotCalling /\ DOMAIN call = {Me} /\ call[Me].phase = "idle" /\ file.is # "torn"
  BY <1>1 DEF ScriptInv, NotCalling
<1>4. ScriptInv'
  BY <1>1, <1>2, <1>3 DEF ScriptInv
<1>5. LedgerInv' /\ TransactionsInv' /\ Sent' = Sent /\ Out' \subseteq Out /\ ~ Active'
  <2>1. runs \in Nat
    BY GensAre DEF ScriptInv
  <2>. QED BY <1>1, <1>3, <2>1, ChainKept DEF ledgerVars
<1>6. RecordInv'
  BY <1>1, RecordKept DEF ledgerVars, States
<1>7. StageInv'
  BY <1>1, <1>2, StageKept
<1>8. KeysInv'
  BY <1>1, <1>3, <1>5 DEF KeysInv
<1>9. LostInv'
  <2>1. \A x \in lost' : x[2] \in 1 .. runs' /\ (Running' => x[2] < runs')
    BY <1>1 DEF LostInv
  <2>2. \A t \in Sent : Remembered(t.name) => Remembered(t.name)'
    BY <1>1 DEF Remembered, InFile, AtStep
  <2>. QED BY <1>1, <1>3, <1>5, <2>1, <2>2, LostKept
<1>. QED BY <1>4, <1>5, <1>6, <1>7, <1>8, <1>9

\* A run that ends: what it sent and did not record is lost.
LEMMA EndKeeps ==
  ASSUME ScriptsInv, Running, EndRun,
         file' = file \/ (phase = "saving" /\ file' \in {[is |-> "torn"], Saved})
  PROVE  ScriptsInv'
<1>. USE DEF ScriptsInv
<1>1. /\ phase' = "off" /\ ~ Running' /\ lost' = lost \cup LostNow
      /\ call' = [call EXCEPT ![Me] = NotCalling]
      /\ UNCHANGED <<account, pool, landed, script, pc, mem, runs>>
  BY DEF EndRun, Running, ledgerVars
<1>2. /\ call'[Me] = NotCalling /\ DOMAIN call' = {Me} /\ call'[Me].phase = "idle"
      /\ file.is # "torn" /\ runs \in Nat
      /\ (file.is = "kept" => file.state.gen = mem.gen /\ file.state.done \subseteq mem.done)
  BY <1>1, GensAre DEF ScriptInv, NotCalling, Running
<1>3. /\ file' = file \/ file'.is = "torn" \/ (file'.is = "kept" /\ file'.state = mem)
      /\ file' = file \/ phase = "saving"
  BY DEF Saved
<1>4. Program' = Program /\ Behind' = {}
  BY <1>1 DEF Program, Behind, Running
<1>5. ScriptInv'
  BY <1>1, <1>2, <1>3, <1>4 DEF ScriptInv
<1>6. LedgerInv' /\ TransactionsInv' /\ Sent' = Sent /\ Out' \subseteq Out /\ ~ Active'
  BY <1>1, <1>2, ChainKept DEF ledgerVars
<1>7. RecordInv'
  BY <1>1, <1>3, RecordKept DEF ledgerVars, States
<1>8. StageInv'
  BY <1>1, <1>4, StageKept
<1>9. KeysInv'
  BY <1>1, <1>2, <1>3, <1>6 DEF KeysInv
<1>10. LostInv'
  <2>1. \A x \in lost' : x[2] \in 1 .. runs' /\ (Running' => x[2] < runs')
    <3>1. runs \in 1 .. runs
      BY GensAre DEF ScriptInv
    <3>. QED BY <1>1, <3>1 DEF LostInv, LostNow
  <2>2. ASSUME script = "condominium", file'.is # "torn",
               NEW t \in Sent, Remembered(t.name)
        PROVE  Remembered(t.name)'
    <3>1. InFile(t.name[1]) => InFile(t.name[1])'
      BY <1>2, <1>3, <2>2 DEF InFile
    <3>2. AtStep(t.name) => t.name \in lost'
      <4>. SUFFICES ASSUME AtStep(t.name) PROVE t.name \in LostNow
        BY <1>1
      <4>1. CASE phase = "saving"
        BY <4>1 DEF AtStep, LostNow
      <4>2. CASE phase = "calling"
        <5>1. call[Me].phase \notin {"simulate", "send"}
          <6>1. Active => call[Me].tx.name = <<Name(Step), runs>>
            BY DEF TransactionsInv
          <6>. QED BY <6>1, <2>2 DEF AtStep, LostInv, Active
        <5>. QED BY <4>2, <5>1 DEF AtStep, LostNow, ScriptInv
      <4>. QED BY <4>1, <4>2 DEF AtStep
    <3>. QED BY <1>1, <2>2, <3>1, <3>2 DEF Remembered
  <2>. QED BY <1>1, <1>2, <1>6, <2>1, <2>2, LostKept
<1>. QED BY <1>5, <1>6, <1>7, <1>8, <1>9, <1>10

-----------------------------------------------------------------------------
(* The steps of a call. *)

\* While a call is made the transfer is not behind.
LEMMA NotYetPaid ==
  ASSUME ScriptInv, phase = "step" \/ phase = "calling", Step.do = "call"
  PROVE  \A i \in Behind : Program[i] # Pays /\ Program[i] # CheckStep
<1>1. Running /\ phase # "finished"
  BY DEF Running
<1>2. Step \in CallSteps /\ pc \in 1 .. Len(Program) /\ Len(Program) \in Nat /\ Step = Program[pc]
  BY <1>1, StepIs DEF Step
<1>3. IsScript(Program) /\ Behind = 1 .. pc - 1
  BY <1>1, ProgramIs DEF Behind
<1>. HIDE DEF Program
<1>4. \A i \in 1 .. pc - 1 : Program[i] # Pays
  BY <1>2, <1>3 DEF IsScript
<1>5. \A i \in 1 .. pc - 1 : Program[i] # CheckStep
  <2>. SUFFICES ASSUME NEW i \in 1 .. pc - 1, Program[i] = CheckStep PROVE FALSE
    OBVIOUS
  <2>1. i \in DOMAIN Program
    BY <1>2, <1>3 DEF IsScript
  <2>2. PICK j \in 1 .. i - 1 : Program[j] = Pays
    BY <1>3, <2>1 DEF IsScript
  <2>3. j \in 1 .. pc - 1
    BY <1>2, <2>2
  <2>. QED BY <1>4, <2>2, <2>3
<1>. QED BY <1>3, <1>4, <1>5

LEMMA BeginCallKeeps ==
  ASSUME ScriptsInv, BeginCall
  PROVE  ScriptsInv'
<1>. USE DEF ScriptsInv
<1>. DEFINE new == [ source |-> Holder(Step), seq |-> account[Holder(Step)].seq + 1,
                     op |-> Op(Step), name |-> <<Name(Step), runs>> ]
<1>1. /\ phase = "step" /\ phase' = "calling" /\ Running /\ Running'
      /\ Step.do = "call" /\ Name(Step) \notin mem.done
      /\ call[Me] = NotCalling /\ call' = [call EXCEPT ![Me] = [phase |-> "simulate", tx |-> new]]
      /\ UNCHANGED <<account, pool, landed, script, pc, mem, file, runs, lost>>
  BY DEF BeginCall, Invoke, Done, Running, ledgerVars
<1>2. /\ call'[Me] = [phase |-> "simulate", tx |-> new] /\ DOMAIN call' = {Me}
      /\ ~ Active /\ Active' /\ file.is # "torn"
  BY <1>1 DEF ScriptInv, Active, NotCalling
<1>3. Program' = Program /\ Step' = Step /\ Behind' = Behind /\ Name(Step)' = Name(Step)
  BY <1>1 DEF Program, Step, Behind, Name
<1>4. ScriptInv'
  BY <1>1, <1>2, <1>3 DEF ScriptInv
<1>5. LedgerInv'
  BY <1>1 DEF LedgerInv, Landed
<1>6. Sent' = Sent /\ Out = Sent /\ Out' = Out \cup {new}
  BY <1>1, <1>2 DEF Sent, Out
<1>7. /\ new.source = new.op.of /\ new.op.of = <<Step.role, mem.gen>>
      /\ new.seq = account[new.source].seq + 1
      /\ new.op.kind = Step.kind /\ Step.kind \in Kinds /\ Step.role \in {"payer", "payee"}
      /\ Step.kind # "register" => Step.role = "payer"
      /\ Step.kind = "transfer" => new.op.to = <<"payee", mem.gen>> /\ new.op.amount = Dues
      /\ new.name = <<Name(Step), runs>>
  <2>1. /\ Step.kind \in Kinds /\ Step.role \in {"payer", "payee"}
        /\ Step.kind # "register" => Step.role = "payer"
    BY <1>1, StepIs, StepsDiffer
  <2>2. CASE Step.kind = "register"
    BY <2>1, <2>2 DEF Op, Holder, Register
  <2>3. CASE Step.kind = "deposit"
    BY <2>1, <2>3 DEF Op, Holder, Deposit
  <2>4. CASE Step.kind = "merge"
    BY <2>1, <2>4 DEF Op, Holder, Merge
  <2>5. CASE Step.kind = "transfer"
    BY <2>1, <2>5 DEF Op, Holder, Transfer, Payee
  <2>. QED BY <2>1, <2>2, <2>3, <2>4, <2>5 DEF Kinds
<1>. HIDE DEF new
<1>8. IsCall(new) /\ new.op.of[2] = mem.gen
  <2>1. new.op.of \in Accounts /\ account[new.op.of].seq \in Nat
    BY <1>7, GensAre DEF LedgerInv, ScriptInv
  <2>2. runs \in 1 .. runs
    BY <1>1, GensAre DEF ScriptInv
  <2>. QED BY <1>7, <2>1, <2>2 DEF IsCall, Name
<1>9. TransactionsInv'
  <2>1. \A t \in Out' : IsCall(t)
    BY <1>6, <1>8 DEF TransactionsInv
  <2>2. (\A t \in Out : IsCall(t))'
    BY <1>1, <2>1 DEF IsCall
  <2>3. (\A l \in landed : Dead(l.tx))'
    BY <1>1 DEF TransactionsInv, Dead
  <2>4. \A t \in Out' : t.source = new.source => t.seq <= new.seq
    BY <1>7, <2>1 DEF IsCall
  <2>. QED BY <1>1, <1>2, <1>3, <1>7, <2>2, <2>3, <2>4 DEF TransactionsInv
<1>10. RecordInv'
  BY <1>1, RecordKept DEF ledgerVars, States
<1>11. StageInv'
  BY <1>1, <1>3, StageKept
<1>12. KeysInv'
  <2>1. script = "condominium" => pc # 1
    BY <1>1, ProgramIs, StepsDiffer DEF Step
  <2>2. pc \in 1 .. Len(Program) /\ Len(Program) \in Nat
    BY <1>1, StepIs
  <2>3. script = "condominium" => file.is = "kept" /\ file.state.gen = mem.gen
    BY <1>1, <1>2, <2>1, <2>2 DEF KeysInv, ScriptInv
  <2>. QED BY <1>1, <1>2, <1>6, <1>8, <2>3 DEF KeysInv
<1>13. LostInv'
  <2>1. (\A x \in lost : x[2] \in 1 .. runs /\ (Running => x[2] < runs))'
    BY <1>1 DEF LostInv
  <2>2. ASSUME script = "condominium", NEW t \in Sent, t.name[1] = Name(Step)
        PROVE  t.name \in lost
    <3>1. ~ InFile(t.name[1])
      BY <1>1, <2>2 DEF InFile, ScriptInv
    <3>2. ~ AtStep(t.name)
      BY <1>1 DEF AtStep
    <3>. QED BY <1>2, <2>2, <3>1, <3>2 DEF LostInv
  <2>3. ASSUME script = "condominium", file.is # "torn"
        PROVE  (\A t \in Sent : t.name \in lost \/ InFile(t.name[1]) \/ AtStep(t.name))'
    <3>1. \A t \in Sent : t.name \in lost \/ InFile(t.name[1])
      BY <1>1, <2>3 DEF LostInv, AtStep
    <3>. QED BY <1>1, <1>6, <3>1 DEF InFile
  <2>4. ASSUME script = "condominium"
        PROVE  (\A t \in Sent, u \in Out :
                  t.name[1] = u.name[1] /\ t.name[2] < u.name[2] => t.name \in lost)'
    BY <1>1, <1>6, <1>7, <2>2, <2>4 DEF LostInv
  <2>5. ASSUME script = "condominium", NEW t \in Sent PROVE t.name # new.name
    <3>1. t.name = new.name => t.name \in lost /\ t.name[2] = runs
      BY <1>7, <2>2, <2>5
    <3>2. runs \in Int
      BY GensAre DEF ScriptInv
    <3>. QED BY <1>1, <3>1, <3>2 DEF LostInv
  <2>6. script = "condominium" => (\A t \in Sent : t.name # call[Me].tx.name)'
    BY <1>2, <1>6, <2>5
  <2>. QED BY <1>1, <2>1, <2>3, <2>4, <2>6 DEF LostInv
<1>. QED BY <1>4, <1>5, <1>9, <1>10, <1>11, <1>12, <1>13

\* The call moves on, or throws; it returns only what landed.
CallMoves ==
  /\ call[Me].phase \in {"simulate", "send", "poll"} /\ DOMAIN call' = {Me}
  /\ call'[Me].phase \in {"send", "poll", "returned", "threw"}
  /\ call'[Me].phase \in {"send", "poll", "returned"} => call'[Me].tx = call[Me].tx
  /\ call'[Me].phase = "poll" =>
       call'[Me] = [phase |-> "poll", tx |-> call'[Me].tx, polls |-> call'[Me].polls]
  /\ call'[Me].phase = "send" => call[Me].phase = "simulate" /\ pool' = pool
  /\ call'[Me].phase = "returned" => \E l \in landed : l.ok /\ l.tx = call[Me].tx
  /\ pool' = pool \/ (call[Me].phase = "send" /\ pool' = pool \cup {call[Me].tx})
  /\ UNCHANGED <<account, landed, script, phase, pc, mem, file, runs, lost>>

LEMMA CallMovesKeeps ==
  ASSUME ScriptsInv, CallMoves
  PROVE  ScriptsInv'
<1>. USE DEF ScriptsInv
<1>. DEFINE tx == call[Me].tx
<1>1. /\ call[Me].phase \in {"simulate", "send", "poll"} /\ DOMAIN call' = {Me}
      /\ call'[Me].phase \in {"send", "poll", "returned", "threw"}
      /\ call'[Me].phase \in {"send", "poll", "returned"} => call'[Me].tx = tx
      /\ pool' = pool \/ (call[Me].phase = "send" /\ pool' = pool \cup {tx})
      /\ UNCHANGED <<account, landed, script, phase, pc, mem, file, runs, lost>>
  BY DEF CallMoves
<1>2. /\ phase = "calling" /\ Running /\ Active /\ Step.do = "call"
      /\ Name(Step) \notin mem.done /\ tx \in Out /\ tx.name = <<Name(Step), runs>>
      /\ file.is # "torn"
  BY <1>1 DEF ScriptInv, Running, Active, NotCalling, TransactionsInv, Out
<1>3. Program' = Program /\ Step' = Step /\ Behind' = Behind /\ Name(Step)' = Name(Step)
  BY <1>1 DEF Program, Step, Behind, Name, Running
<1>4. ScriptInv'
  BY <1>1, <1>2, <1>3 DEF ScriptInv, CallMoves, Running
<1>5. LedgerInv'
  BY <1>1 DEF LedgerInv, Landed
<1>6. Sent' \subseteq Sent \cup {tx} /\ Sent \subseteq Out /\ Sent' \subseteq Out /\ Out' \subseteq Out
  <2>1. Sent' \subseteq Sent \cup {tx} /\ Sent \subseteq Out
    BY <1>1 DEF Sent, Out
  <2>2. Active' => call'[Me].tx = tx
    BY <1>1 DEF Active
  <2>. QED BY <1>2, <2>1, <2>2 DEF Out
<1>. HIDE DEF tx
<1>7. IsCall(tx)
  BY <1>2 DEF TransactionsInv
<1>8. TransactionsInv'
  <2>1. (\A t \in Out : IsCall(t))'
    BY <1>1, <1>6 DEF TransactionsInv, IsCall
  <2>2. (\A l \in landed : Dead(l.tx))'
    BY <1>1 DEF TransactionsInv, Dead
  <2>3. Active' => call'[Me].tx = tx
    BY <1>1 DEF Active
  <2>4. \A t \in Out' : t.source = tx.source => t.seq <= tx.seq
    BY <1>2, <1>6 DEF TransactionsInv, tx
  <2>5. call'[Me].phase = "returned" => call'[Me].tx = tx /\ \E l \in landed : l.ok /\ l.tx = tx
    BY <1>1 DEF CallMoves, tx
  <2>. QED BY <1>1, <1>2, <1>3, <2>1, <2>2, <2>3, <2>4, <2>5 DEF TransactionsInv
<1>9. tx.op.kind = "transfer" => Name(Step) = <<"transfer", "payer", tx.op.of[2]>> /\ tx.op.of[2] = mem.gen
  BY <1>2, <1>7 DEF IsCall, Name
<1>10. RecordInv'
  <2>1. ASSUME NEW state \in States' PROVE Recorded(state)'
    <3>1. state \in States /\ Recorded(state)
      BY <1>1, <2>1 DEF States, RecordInv
    <3>2. <<"transfer", "payer", state.gen>> \in state.done =>
            \A t \in pool' : t.op.kind = "transfer" /\ t.op.of[2] = state.gen => Dead(t)
      <4>1. state.done \subseteq mem.done
        BY <1>2, <3>1 DEF States, ScriptInv
      <4>2. \A t \in pool' : t \in pool \/ t = tx
        BY <1>1
      <4>. QED BY <1>2, <1>9, <3>1, <4>1, <4>2 DEF Recorded, AllDead
    <3>. QED BY <1>1, <3>1, <3>2 DEF Recorded, AllDead, Dead
  <2>. QED BY <2>1 DEF RecordInv
<1>11. StageInv'
  BY <1>2, <1>3, NotYetPaid DEF StageInv
<1>12. KeysInv'
  BY <1>1, <1>2, <1>6 DEF KeysInv, Running
<1>13. LostInv'
  <2>1. (\A x \in lost : x[2] \in 1 .. runs /\ (Running => x[2] < runs))'
    BY <1>1 DEF LostInv, Running
  <2>2. ASSUME script = "condominium"
        PROVE  (\A t \in Sent : t.name \in lost \/ InFile(t.name[1]) \/ AtStep(t.name))'
    <3>1. \A t \in Sent' : t.name \in lost \/ InFile(t.name[1]) \/ AtStep(t.name)
      BY <1>2, <1>6, <2>2 DEF LostInv, AtStep
    <3>. QED BY <1>1, <1>3, <3>1 DEF InFile, AtStep
  <2>3. ASSUME script = "condominium"
        PROVE  (\A t \in Sent, u \in Out :
                  t.name[1] = u.name[1] /\ t.name[2] < u.name[2] => t.name \in lost)'
    <3>1. \A u \in Out : u.name[2] \in 1 .. runs
      BY DEF TransactionsInv, IsCall
    <3>2. tx.name[2] = runs /\ runs \in Int
      BY <1>2, GensAre DEF ScriptInv
    <3>3. \A u \in Out : ~ (tx.name[2] < u.name[2])
      BY <3>1, <3>2
    <3>. QED BY <1>1, <1>6, <2>3, <3>3 DEF LostInv
  <2>4. script = "condominium" /\ call'[Me].phase \in {"simulate", "send"} =>
          (\A t \in Sent : t.name # call[Me].tx.name)'
    <3>1. call'[Me].phase \in {"simulate", "send"} =>
            Sent' = Sent /\ call[Me].phase = "simulate" /\ call'[Me].tx = call[Me].tx
      BY <1>1 DEF CallMoves, Sent
    <3>. QED BY <3>1 DEF LostInv
  <2>. QED BY <1>1, <2>1, <2>2, <2>3, <2>4 DEF LostInv
<1>. QED BY <1>4, <1>5, <1>8, <1>10, <1>11, <1>12, <1>13
-----------------------------------------------------------------------------
(* The ledger closes. *)

Account(registered, seq, receiving, openings) ==
  [registered |-> registered, seq |-> seq, receiving |-> receiving, openings |-> openings]

WithRegistered(r, x) == [r EXCEPT !.registered = x]
WithSeq(r, x)        == [r EXCEPT !.seq = x]
WithReceiving(r, x)  == [r EXCEPT !.receiving = x]
WithOpenings(r, x)   == [r EXCEPT !.openings = x]

LEMMA FieldsSet ==
  ASSUME NEW a, NEW b, NEW c, NEW d, NEW x
  PROVE  /\ WithRegistered(Account(a, b, c, d), x) = Account(x, b, c, d)
         /\ WithSeq(Account(a, b, c, d), x)        = Account(a, x, c, d)
         /\ WithReceiving(Account(a, b, c, d), x)  = Account(a, b, x, d)
         /\ WithOpenings(Account(a, b, c, d), x)   = Account(a, b, c, x)
<1>1. WithRegistered(Account(a, b, c, d), x) = Account(x, b, c, d)
  BY DEF Account, WithRegistered
<1>2. WithSeq(Account(a, b, c, d), x) = Account(a, x, c, d)
  BY DEF Account, WithSeq
<1>3. WithReceiving(Account(a, b, c, d), x) = Account(a, b, x, d)
  BY DEF Account, WithReceiving
<1>4. WithOpenings(Account(a, b, c, d), x) = Account(a, b, c, x)
  BY DEF Account, WithOpenings
<1>. QED BY <1>1, <1>2, <1>3, <1>4

LEMMA FieldsOf ==
  ASSUME NEW a, NEW b, NEW c, NEW d
  PROVE  /\ IsAccount(Account(a, b, c, d))
         /\ Account(a, b, c, d).registered = a /\ Account(a, b, c, d).seq = b
         /\ Account(a, b, c, d).receiving = c /\ Account(a, b, c, d).openings = d
<1>1. /\ Account(a, b, c, d).registered = a /\ Account(a, b, c, d).seq = b
      /\ Account(a, b, c, d).receiving = c /\ Account(a, b, c, d).openings = d
  BY DEF Account
<1>2. IsAccount(Account(a, b, c, d))
  BY <1>1, Zenon DEF IsAccount, Account
<1>. QED BY <1>1, <1>2

\* What an accepted call does to each account.
LEMMA AppliedIs ==
  ASSUME LedgerInv, NEW t, IsCall(t), NEW next, next = Applied(t.op)
  PROVE  /\ DOMAIN next = Accounts
         /\ \A a \in Accounts :
              /\ IsAccount(next[a]) /\ next[a].seq = account[a].seq
              /\ next[a].registered => account[a].registered \/ (t.op.kind = "register" /\ a = t.source)
         /\ \A gen \in Gens :
              next[PayeeOf(gen)].receiving =
                IF t.op.kind = "transfer" /\ t.op.of[2] = gen
                THEN account[PayeeOf(gen)].receiving + Dues
                ELSE account[PayeeOf(gen)].receiving
<1>. DEFINE a == t.op.of
<1>1. a \in Accounts /\ t.source = a /\ DOMAIN account = Accounts /\ t.op.kind \in Kinds
  BY DEF IsCall, LedgerInv
<1>2. \A b \in Accounts : /\ IsAccount(account[b])
                          /\ account[b] = Account(account[b].registered, account[b].seq,
                                                  account[b].receiving, account[b].openings)
  BY DEF LedgerInv, IsAccount, Account
<1>3. \A gen \in Gens : PayeeOf(gen) \in Accounts
  BY GensAre DEF PayeeOf
<1>4. CASE t.op.kind = "register"
  <2>. DEFINE mid == [account EXCEPT ![a].registered = TRUE]
              r   == account[a]
              yes == TRUE
  <2>1. next = [mid EXCEPT ![a].openings = <<0>>]
    BY <1>4 DEF Applied
  <2>2. mid[a] = WithRegistered(r, yes) /\ DOMAIN mid = Accounts
        /\ \A b \in Accounts : b # a => mid[b] = account[b]
    BY <1>1 DEF WithRegistered
  <2>. HIDE DEF mid
  <2>3. next[a] = WithOpenings(mid[a], <<0>>) /\ DOMAIN next = Accounts
        /\ \A b \in Accounts : b # a => next[b] = account[b]
    BY <1>1, <2>1, <2>2 DEF WithOpenings
  <2>. HIDE DEF r, yes
  <2>4. mid[a] = Account(yes, r.seq, r.receiving, r.openings)
    <3>1. r = Account(r.registered, r.seq, r.receiving, r.openings)
      BY <1>1, <1>2 DEF r
    <3>. QED BY <2>2, <3>1, FieldsSet
  <2>5. next[a] = Account(yes, r.seq, r.receiving, <<0>>)
    BY <2>3, <2>4, FieldsSet
  <2>6. IsAccount(next[a]) /\ next[a].seq = r.seq /\ next[a].receiving = r.receiving
    BY <2>5, FieldsOf
  <2>. QED BY <1>1, <1>2, <1>3, <1>4, <2>3, <2>6 DEF r
<1>5. CASE t.op.kind = "deposit"
  <2>. DEFINE r    == account[a]
              more == r.receiving + t.op.amount
  <2>1. next = [account EXCEPT ![a].receiving = more]
    BY <1>5 DEF Applied
  <2>2. next[a] = WithReceiving(r, more) /\ DOMAIN next = Accounts
        /\ \A b \in Accounts : b # a => next[b] = account[b]
    BY <1>1, <2>1 DEF WithReceiving
  <2>. HIDE DEF more, r
  <2>3. next[a] = Account(r.registered, r.seq, more, r.openings)
    <3>1. r = Account(r.registered, r.seq, r.receiving, r.openings)
      BY <1>1, <1>2 DEF r
    <3>. QED BY <2>2, <3>1, FieldsSet
  <2>4. IsAccount(next[a]) /\ next[a].seq = r.seq /\ next[a].registered = r.registered
    BY <2>3, FieldsOf
  <2>5. \A gen \in Gens : PayeeOf(gen) # a
    BY <1>5 DEF IsCall, PayeeOf
  <2>. QED BY <1>1, <1>2, <1>3, <1>5, <2>2, <2>4, <2>5 DEF r
<1>6. CASE t.op.kind = "merge"
  <2>0. \A gen \in Gens : PayeeOf(gen) # a
    BY <1>6 DEF IsCall, PayeeOf
  <2>1. CASE account[a].receiving = 0
    <3>1. next = account
      BY <1>6, <2>1 DEF Applied
    <3>. QED BY <1>1, <1>2, <1>3, <1>6, <3>1
  <2>2. CASE account[a].receiving # 0
    <3>. DEFINE r   == account[a]
                x   == Append(r.openings, Spendable(a) + r.receiving)
                mid == [account EXCEPT ![a].openings = x]
    <3>1. next = [mid EXCEPT ![a].receiving = 0]
      BY <1>6, <2>2 DEF Applied
    <3>. HIDE DEF x
    <3>2. mid[a] = WithOpenings(r, x) /\ DOMAIN mid = Accounts
          /\ \A b \in Accounts : b # a => mid[b] = account[b]
      BY <1>1 DEF WithOpenings
    <3>. HIDE DEF mid
    <3>3. next[a] = WithReceiving(mid[a], 0) /\ DOMAIN next = Accounts
          /\ \A b \in Accounts : b # a => next[b] = account[b]
      BY <1>1, <3>1, <3>2 DEF WithReceiving
    <3>. HIDE DEF r
    <3>4. mid[a] = Account(r.registered, r.seq, r.receiving, x)
      <4>1. r = Account(r.registered, r.seq, r.receiving, r.openings)
        BY <1>1, <1>2 DEF r
      <4>. QED BY <3>2, <4>1, FieldsSet
    <3>5. next[a] = Account(r.registered, r.seq, 0, x)
      BY <3>3, <3>4, FieldsSet
    <3>6. IsAccount(next[a]) /\ next[a].seq = r.seq /\ next[a].registered = r.registered
      BY <3>5, FieldsOf
    <3>. QED BY <1>1, <1>2, <1>3, <1>6, <2>0, <3>3, <3>6 DEF r
  <2>. QED BY <2>1, <2>2
<1>7. CASE t.op.kind = "transfer"
  <2>. DEFINE to   == t.op.to
              r    == account[a]
              q    == account[to]
              x    == Append(r.openings, Spendable(a) - t.op.amount)
              more == q.receiving + t.op.amount
              mid  == [account EXCEPT ![a].openings = x]
  <2>1. to = <<"payee", a[2]>> /\ a[1] = "payer" /\ t.op.amount = Dues /\ a[2] \in Gens /\ a # to
        /\ to \in Accounts
    BY <1>1, <1>7, GensAre DEF IsCall
  <2>2. next = [mid EXCEPT ![to].receiving = @ + t.op.amount]
    BY <1>7 DEF Applied
  <2>. HIDE DEF x
  <2>3. mid[a] = WithOpenings(r, x) /\ DOMAIN mid = Accounts
        /\ \A b \in Accounts : b # a => mid[b] = account[b]
    BY <1>1 DEF WithOpenings
  <2>. HIDE DEF mid
  <2>4. next[to] = [mid[to] EXCEPT !.receiving = @ + t.op.amount] /\ DOMAIN next = Accounts
        /\ \A b \in Accounts : b # to => next[b] = mid[b]
    BY <2>1, <2>2, <2>3
  <2>5. mid[to] = q
    BY <2>1, <2>3
  <2>6. next[to] = WithReceiving(q, more)
    BY <2>4, <2>5 DEF WithReceiving
  <2>. HIDE DEF r, q, more
  <2>7. next[a] = Account(r.registered, r.seq, r.receiving, x)
    <3>1. r = Account(r.registered, r.seq, r.receiving, r.openings)
      BY <1>1, <1>2 DEF r
    <3>2. next[a] = WithOpenings(r, x)
      BY <1>1, <2>1, <2>3, <2>4
    <3>. QED BY <3>1, <3>2, FieldsSet
  <2>8. next[to] = Account(q.registered, q.seq, more, q.openings)
    <3>1. q = Account(q.registered, q.seq, q.receiving, q.openings)
      BY <2>1, <1>2 DEF q
    <3>. QED BY <3>1, <2>6, FieldsSet
  <2>9. /\ IsAccount(next[a]) /\ next[a].seq = r.seq /\ next[a].registered = r.registered
        /\ IsAccount(next[to]) /\ next[to].seq = q.seq /\ next[to].registered = q.registered
        /\ next[to].receiving = more
    BY <2>7, <2>8, FieldsOf
  <2>10. \A b \in Accounts : b \notin {a, to} => next[b] = account[b]
    BY <2>3, <2>4
  <2>11. \A b \in Accounts :
           IsAccount(next[b]) /\ next[b].seq = account[b].seq /\ next[b].registered = account[b].registered
    BY <1>2, <2>9, <2>10 DEF r, q
  <2>12. \A gen \in Gens : /\ PayeeOf(gen) # a
                           /\ PayeeOf(gen) = to <=> gen = a[2]
    BY <2>1 DEF PayeeOf
  <2>13. \A gen \in Gens : gen # a[2] => next[PayeeOf(gen)] = account[PayeeOf(gen)]
    BY <1>3, <2>10, <2>12
  <2>14. next[PayeeOf(a[2])].receiving = account[PayeeOf(a[2])].receiving + Dues
    BY <2>1, <2>9 DEF more, q, PayeeOf
  <2>. QED BY <1>7, <2>4, <2>11, <2>13, <2>14
<1>. QED BY <1>1, <1>4, <1>5, <1>6, <1>7 DEF Kinds

\* The ledger closes, or drops a transaction.
LedgerMoves ==
  /\ UNCHANGED <<call, script, phase, pc, mem, file, runs, lost>>
  /\ pool' \subseteq pool /\ landed \subseteq landed' /\ Sent' \subseteq Sent
  /\ LedgerInv'
  /\ \A a \in Accounts : account'[a].seq >= account[a].seq
  /\ \A l \in landed' : l \in landed \/ l.tx.seq = account'[l.tx.source].seq
  /\ \A gen \in Gens :
       AllDead(gen) => account'[PayeeOf(gen)].receiving = account[PayeeOf(gen)].receiving

LEMMA LedgerMovesKeeps ==
  ASSUME ScriptsInv, LedgerMoves
  PROVE  ScriptsInv'
<1>. USE DEF ScriptsInv
<1>1. /\ UNCHANGED <<call, script, phase, pc, mem, file, runs, lost>>
      /\ pool' \subseteq pool /\ landed \subseteq landed'
      /\ Sent' \subseteq Sent
  BY DEF LedgerMoves
<1>2. LedgerInv'
  BY DEF LedgerMoves
<1>3. Program' = Program /\ Step' = Step /\ Behind' = Behind /\ Name(Step)' = Name(Step)
      /\ States' = States /\ (Running <=> Running') /\ (Active <=> Active')
      /\ Out' \subseteq Out
  <2>1. Program' = Program /\ Behind' = Behind /\ States' = States
        /\ (Running <=> Running') /\ (Active <=> Active')
    BY <1>1 DEF Program, Behind, Running, States, Active
  <2>2. Step' = Step /\ Name(Step)' = Name(Step)
    BY <1>1, <2>1 DEF Step, Name
  <2>. QED BY <1>1, <2>1, <2>2 DEF Out
<1>4. ScriptInv'
  BY <1>1, <1>3 DEF ScriptInv
<1>5. \A t \in Out : IsCall(t) /\ IsCall(t)' /\ (Dead(t) => Dead(t)')
  <2>. SUFFICES ASSUME NEW t \in Out PROVE IsCall(t) /\ IsCall(t)' /\ (Dead(t) => Dead(t)')
    OBVIOUS
  <2>1. IsCall(t) /\ t.source \in Accounts /\ t.seq \in Nat
    BY DEF TransactionsInv, IsCall
  <2>2. /\ account[t.source].seq \in Nat /\ account'[t.source].seq \in Nat
        /\ account'[t.source].seq >= account[t.source].seq
    BY <1>2, <2>1 DEF LedgerInv, LedgerMoves
  <2>3. t.seq <= account'[t.source].seq + 1
    BY <2>1, <2>2 DEF IsCall
  <2>4. IsCall(t)'
    BY <1>1, <2>1, <2>3 DEF IsCall
  <2>. QED BY <2>1, <2>2, <2>4 DEF Dead
<1>6. \A gen : AllDead(gen) => AllDead(gen)'
  <2>1. pool \subseteq Out
    BY DEF Out, Sent
  <2>. QED BY <1>1, <1>5, <2>1 DEF AllDead
<1>7. TransactionsInv'
  <2>1. (\A t \in Out : IsCall(t))'
    BY <1>3, <1>5
  <2>2. \A l \in landed' : Dead(l.tx)'
    <3>1. \A l \in landed : l.tx \in Out /\ Dead(l.tx)
      BY DEF TransactionsInv, Out, Sent
    <3>2. \A l \in landed' : l.tx \in Out' /\ l.tx.source \in Accounts
      <4>1. \A l \in landed' : l.tx \in Out'
        BY DEF Out, Sent
      <4>. QED BY <1>3, <1>5, <4>1 DEF IsCall
    <3>3. ASSUME NEW l \in landed', l.tx.seq = account'[l.tx.source].seq PROVE Dead(l.tx)'
      <4>1. account'[l.tx.source].seq \in Nat
        BY <1>2, <3>2 DEF LedgerInv
      <4>. QED BY <3>3, <4>1 DEF Dead
    <3>. QED BY <1>5, <3>1, <3>3 DEF LedgerMoves
  <2>3. (\A l \in landed : Dead(l.tx))'
    BY <2>2
  <2>4. (Active => /\ call[Me].tx.name = <<Name(Step), runs>>
                   /\ \A t \in Out : t.source = call[Me].tx.source => t.seq <= call[Me].tx.seq)'
    BY <1>1, <1>3 DEF TransactionsInv
  <2>5. (call[Me].phase = "returned" => \E l \in landed : l.ok /\ l.tx = call[Me].tx)'
    BY <1>1 DEF TransactionsInv
  <2>. QED BY <2>1, <2>3, <2>4, <2>5 DEF TransactionsInv
<1>8. RecordInv'
  <2>1. \A state \in States : Recorded(state) => Recorded(state)'
    BY <1>1, <1>6 DEF Recorded
  <2>2. (\A state \in States : Recorded(state))'
    BY <1>3, <2>1 DEF RecordInv
  <2>. QED BY <2>2 DEF RecordInv
<1>9. StageInv'
  <2>1. Payee' = Payee /\ Payee = PayeeOf(mem.gen) /\ mem.gen \in Gens
    BY <1>1 DEF Payee, PayeeOf, ScriptInv
  <2>2. AllDead(mem.gen) => account'[Payee].receiving = account[Payee].receiving
    BY <2>1 DEF LedgerMoves
  <2>. QED BY <1>1, <1>3, <1>6, <2>1, <2>2 DEF StageInv
<1>10. KeysInv'
  BY <1>1, <1>3 DEF KeysInv
<1>11. LostInv'
  <2>1. (\A x \in lost : x[2] \in 1 .. runs /\ (Running => x[2] < runs))'
    BY <1>1, <1>3 DEF LostInv
  <2>2. ASSUME script = "condominium", file.is # "torn"
        PROVE  (\A t \in Sent : t.name \in lost \/ InFile(t.name[1]) \/ AtStep(t.name))'
    BY <1>1, <1>3, <2>2 DEF LostInv, InFile, AtStep
  <2>3. ASSUME script = "condominium"
        PROVE  /\ (\A t \in Sent, u \in Out :
                     t.name[1] = u.name[1] /\ t.name[2] < u.name[2] => t.name \in lost)'
               /\ (call[Me].phase \in {"simulate", "send"} =>
                     \A t \in Sent : t.name # call[Me].tx.name)'
    BY <1>1, <1>3, <2>3 DEF LostInv
  <2>. QED BY <1>1, <2>1, <2>2, <2>3 DEF LostInv
<1>. QED BY <1>2, <1>4, <1>7, <1>8, <1>9, <1>10, <1>11

LEMMA IncludeMoves ==
  ASSUME ScriptsInv, NEW tx \in pool, Include(tx),
         UNCHANGED <<script, phase, pc, mem, file, runs, lost>>
  PROVE  LedgerMoves
<1>. USE DEF ScriptsInv
<1>. DEFINE ok    == Accepts(tx.op)
            next  == IF ok THEN Applied(tx.op) ELSE account
            entry == [tx |-> tx, ok |-> ok]
            s     == tx.source
<1>1. /\ tx.seq = account[s].seq + 1 /\ account' = [next EXCEPT ![s].seq = tx.seq]
      /\ landed' = landed \cup {entry} /\ pool' = pool \ {tx} /\ call' = call
  BY DEF Include
<1>2. IsCall(tx) /\ s \in Accounts /\ tx.op.kind \in Kinds /\ tx.op.of[2] \in Gens /\ ok \in BOOLEAN
  <2>1. IsCall(tx)
    BY DEF TransactionsInv, Out, Sent
  <2>. QED BY <2>1, GensAre DEF IsCall, Accepts
<1>3. DOMAIN account = Accounts /\ \A a \in Accounts : IsAccount(account[a]) /\ account[a].seq \in Nat
  BY DEF LedgerInv
<1>. DEFINE pays(gen) == ok /\ tx.op.kind = "transfer" /\ tx.op.of[2] = gen
<1>4. /\ DOMAIN next = Accounts
      /\ \A a \in Accounts :
           /\ IsAccount(next[a]) /\ next[a].seq = account[a].seq
           /\ next[a].registered =>
                account[a].registered \/ (ok /\ tx.op.kind = "register" /\ a = s)
      /\ \A gen \in Gens :
           next[PayeeOf(gen)].receiving =
             IF pays(gen) THEN account[PayeeOf(gen)].receiving + Dues
                          ELSE account[PayeeOf(gen)].receiving
  <2>1. CASE ok
    BY <1>2, <2>1, AppliedIs
  <2>2. CASE ~ ok
    BY <1>3, <2>2
  <2>. QED BY <2>1, <2>2
<1>. HIDE DEF next, ok
<1>5. /\ DOMAIN account' = Accounts
      /\ account'[s] = WithSeq(next[s], tx.seq)
      /\ \A a \in Accounts \ {s} : account'[a] = next[a]
  BY <1>1, <1>2, <1>4 DEF WithSeq
<1>6. /\ IsAccount(account'[s]) /\ account'[s].seq = tx.seq
      /\ account'[s].registered = next[s].registered /\ account'[s].receiving = next[s].receiving
  <2>. DEFINE r == next[s]
  <2>1. r = Account(r.registered, r.seq, r.receiving, r.openings)
    BY <1>2, <1>4 DEF IsAccount, Account
  <2>. HIDE DEF r
  <2>2. WithSeq(r, tx.seq) = Account(r.registered, tx.seq, r.receiving, r.openings)
    BY <2>1, FieldsSet
  <2>3. /\ IsAccount(WithSeq(r, tx.seq)) /\ WithSeq(r, tx.seq).seq = tx.seq
        /\ WithSeq(r, tx.seq).registered = r.registered /\ WithSeq(r, tx.seq).receiving = r.receiving
    BY <2>2, FieldsOf
  <2>. QED BY <1>5, <2>3 DEF r
<1>7. \A a \in Accounts :
        /\ IsAccount(account'[a])
        /\ account'[a].seq = IF a = s THEN tx.seq ELSE account[a].seq
        /\ account'[a].registered => account[a].registered \/ (ok /\ tx.op.kind = "register" /\ a = s)
        /\ account'[a].receiving = next[a].receiving
  BY <1>4, <1>5, <1>6
<1>8. \A a \in Accounts : account'[a].seq \in Nat /\ account'[a].seq >= account[a].seq
  <2>1. tx.seq \in Nat /\ account[s].seq \in Nat /\ tx.seq >= account[s].seq
    BY <1>1, <1>2, <1>3
  <2>. QED BY <1>3, <1>7, <2>1
<1>9. \A gen \in Gens :
        account'[PayeeOf(gen)].receiving =
          IF pays(gen) THEN account[PayeeOf(gen)].receiving + Dues
                       ELSE account[PayeeOf(gen)].receiving
  <2>1. \A gen \in Gens : PayeeOf(gen) \in Accounts
    BY GensAre DEF PayeeOf
  <2>2. \A gen \in Gens : account'[PayeeOf(gen)].receiving = next[PayeeOf(gen)].receiving
    BY <1>7, <2>1
  <2>. QED BY <1>4, <2>2
<1>10. entry.tx = tx /\ entry.ok = ok /\ entry \notin landed
  <2>1. entry.tx = tx /\ entry.ok = ok
    OBVIOUS
  <2>2. entry \in landed => tx.seq <= account[s].seq
    BY <2>1 DEF TransactionsInv, Dead
  <2>. QED BY <1>1, <1>2, <1>3, <2>1, <2>2
<1>. HIDE DEF entry
<1>. DEFINE later(gen) ==
       {l \in landed' : l.ok /\ l.tx.name[1][1] = "transfer" /\ l.tx.name[1][3] = gen}
<1>11. \A gen \in Gens :
         /\ pays(gen) => later(gen) = Landed("transfer", gen) \cup {entry}
         /\ ~ pays(gen) => later(gen) = Landed("transfer", gen)
  <2>1. tx.name[1][1] = tx.op.kind /\ tx.name[1][3] = tx.op.of[2]
    BY <1>2 DEF IsCall
  <2>2. \A gen : entry.ok /\ entry.tx.name[1][1] = "transfer" /\ entry.tx.name[1][3] = gen <=> pays(gen)
    BY <1>10, <2>1
  <2>. HIDE DEF pays
  <2>. QED BY <1>1, <2>2 DEF Landed
<1>. HIDE DEF later
<1>12. IsFiniteSet(landed')
  BY <1>1, FS_AddElement DEF LedgerInv
<1>13. \A gen \in Gens :
         account'[PayeeOf(gen)].receiving = Dues * Cardinality(later(gen))
  <2>. SUFFICES ASSUME NEW gen \in Gens
       PROVE  account'[PayeeOf(gen)].receiving = Dues * Cardinality(later(gen))
    OBVIOUS
  <2>. DEFINE paid == Landed("transfer", gen)
              n    == Cardinality(paid)
  <2>1. IsFiniteSet(paid) /\ entry \notin paid /\ n \in Nat
    <3>1. paid \subseteq landed /\ IsFiniteSet(landed)
      BY DEF Landed, LedgerInv
    <3>2. IsFiniteSet(paid)
      BY <3>1, FS_Subset
    <3>. QED BY <1>10, <3>1, <3>2, FS_CardinalityType
  <2>2. account[PayeeOf(gen)].receiving = Dues * n
    BY DEF LedgerInv
  <2>3. CASE pays(gen)
    <3>1. later(gen) = paid \cup {entry}
      BY <1>11, <2>3
    <3>. HIDE DEF paid
    <3>2. Cardinality(paid \cup {entry}) = n + 1
      BY <2>1, FS_AddElement
    <3>3. Dues * (n + 1) = Dues * n + Dues
      BY <2>1, GensAre
    <3>4. account'[PayeeOf(gen)].receiving = Dues * n + Dues
      BY <1>9, <2>2, <2>3
    <3>. QED BY <3>1, <3>2, <3>3, <3>4
  <2>4. CASE ~ pays(gen)
    BY <1>9, <1>11, <2>2, <2>4
  <2>. QED BY <2>3, <2>4
<1>14. \A a \in Accounts :
         account'[a].registered =>
           \E l \in landed' : l.ok /\ l.tx.name[1] = <<"register", a[1], a[2]>>
  <2>. SUFFICES ASSUME NEW a \in Accounts, account'[a].registered
       PROVE  \E l \in landed' : l.ok /\ l.tx.name[1] = <<"register", a[1], a[2]>>
    OBVIOUS
  <2>1. CASE account[a].registered
    BY <1>1, <2>1 DEF LedgerInv
  <2>2. CASE ok /\ tx.op.kind = "register" /\ a = s
    <3>1. tx.name[1] = <<"register", a[1], a[2]>>
      BY <1>2, <2>2 DEF IsCall
    <3>. QED BY <1>1, <1>10, <2>2, <3>1
  <2>. QED BY <1>7, <2>1, <2>2
<1>15. LedgerInv'
  <2>1. (\A a \in Accounts :
           /\ IsAccount(account[a]) /\ account[a].seq \in Nat
           /\ account[a].registered =>
                \E l \in landed : l.ok /\ l.tx.name[1] = <<"register", a[1], a[2]>>)'
    <3>1. (\A a \in Accounts : IsAccount(account[a]))'
      BY <1>7, Zenon DEF IsAccount
    <3>2. (\A a \in Accounts :
             /\ account[a].seq \in Nat
             /\ account[a].registered =>
                  \E l \in landed : l.ok /\ l.tx.name[1] = <<"register", a[1], a[2]>>)'
      BY <1>8, <1>14
    <3>. QED BY <3>1, <3>2
  <2>2. (\A gen \in Gens :
           account[PayeeOf(gen)].receiving = Dues * Cardinality(Landed("transfer", gen)))'
    BY <1>13 DEF Gens, Landed, later
  <2>. QED BY <1>5, <1>12, <2>1, <2>2 DEF LedgerInv
<1>16. Sent' \subseteq Sent
  BY <1>1, <1>10 DEF Sent
<1>17. \A l \in landed' : l \in landed \/ l.tx.seq = account'[l.tx.source].seq
  BY <1>1, <1>6, <1>10
<1>18. \A gen \in Gens :
         AllDead(gen) => account'[PayeeOf(gen)].receiving = account[PayeeOf(gen)].receiving
  <2>1. ~ Dead(tx)
    BY <1>1, <1>2, <1>3 DEF Dead
  <2>2. \A gen : AllDead(gen) => ~ pays(gen)
    BY <2>1 DEF AllDead
  <2>. QED BY <1>9, <2>2
<1>19. pool' \subseteq pool /\ landed \subseteq landed' /\ call' = call
  BY <1>1
<1>. QED BY <1>8, <1>15, <1>16, <1>17, <1>18, <1>19 DEF LedgerMoves

LEMMA ExpireMoves ==
  ASSUME ScriptsInv, NEW tx \in pool, Expire(tx),
         UNCHANGED <<script, phase, pc, mem, file, runs, lost>>
  PROVE  LedgerMoves
<1>1. pool' \subseteq pool /\ UNCHANGED <<account, landed, call>>
  BY DEF Expire
<1>2. LedgerInv'
  BY <1>1 DEF ScriptsInv, LedgerInv, Landed
<1>3. Sent' \subseteq Sent
  BY <1>1 DEF Sent
<1>4. \A a \in Accounts : account'[a].seq >= account[a].seq
  BY <1>1 DEF ScriptsInv, LedgerInv
<1>. QED BY <1>1, <1>2, <1>3, <1>4 DEF LedgerMoves

LEMMA LedgerKeeps ==
  ASSUME ScriptsInv, LedgerProceeds
  PROVE  ScriptsInv'
<1>1. PICK tx \in pool : Include(tx) \/ Expire(tx)
  BY DEF LedgerProceeds
<1>2. UNCHANGED <<script, phase, pc, mem, file, runs, lost>>
  BY DEF LedgerProceeds, runVars
<1>3. LedgerMoves
  BY <1>1, <1>2, IncludeMoves, ExpireMoves
<1>. QED BY <1>3, LedgerMovesKeeps

-----------------------------------------------------------------------------
(* Every step of the specification is one of these. *)

\* What a call of the script moves to.
LEMMA CallStepMoves ==
  ASSUME ScriptsInv, phase = "calling", InvokeStep(Me) \/ InvokeFails(Me),
         UNCHANGED <<script, phase, pc, mem, file, runs, lost>>
  PROVE  CallMoves
<1>. DEFINE tx == call[Me].tx
<1>0. DOMAIN call = {Me} /\ UNCHANGED <<script, phase, pc, mem, file, runs, lost>>
  BY DEF ScriptsInv, ScriptInv
<1>1. CASE Simulate(Me)
  <2>1. /\ call[Me].phase = "simulate" /\ UNCHANGED <<account, pool, landed>>
        /\ call'[Me] \in {[phase |-> "send", tx |-> tx], Threw("refused")} /\ DOMAIN call' = {Me}
    BY <1>0, <1>1 DEF Simulate, ledgerVars
  <2>. QED BY <1>0, <2>1 DEF CallMoves, Threw
<1>2. CASE Send(Me)
  <2>1. /\ call[Me].phase = "send" /\ UNCHANGED <<account, landed>>
        /\ pool' \in {pool, pool \cup {tx}}
        /\ call'[Me] = Polling(tx) /\ DOMAIN call' = {Me}
    BY <1>0, <1>2 DEF Send
  <2>. QED BY <1>0, <2>1 DEF CallMoves, Polling
<1>3. CASE Poll(Me)
  <2>1. /\ call[Me].phase = "poll" /\ UNCHANGED <<account, pool, landed>>
        /\ call'[Me] = AfterPoll(call[Me]) /\ DOMAIN call' = {Me}
    BY <1>0, <1>3 DEF Poll, ledgerVars
  <2>2. call[Me] = [phase |-> "poll", tx |-> tx, polls |-> call[Me].polls]
    BY <2>1 DEF ScriptsInv, ScriptInv
  <2>. DEFINE polls == call[Me].polls
              next  == call'[Me]
  <2>3. \/ Result(tx) = {TRUE} /\ next = Returned(tx)
        \/ next = Threw("refused") \/ next = Threw("unanswered")
        \/ next = [call[Me] EXCEPT !.polls = @ + 1]
    BY <2>1 DEF AfterPoll
  <2>4. CASE Result(tx) = {TRUE} /\ next = Returned(tx)
    <3>1. \E l \in landed : l.ok /\ l.tx = tx
      <4>1. TRUE \in Result(tx)
        BY <2>4
      <4>. QED BY <4>1 DEF Result
    <3>. QED BY <1>0, <2>1, <2>4, <3>1 DEF CallMoves, Returned
  <2>5. CASE next = Threw("refused") \/ next = Threw("unanswered")
    BY <1>0, <2>1, <2>5 DEF CallMoves, Threw
  <2>6. CASE next = [call[Me] EXCEPT !.polls = @ + 1]
    <3>1. next = [phase |-> "poll", tx |-> tx, polls |-> polls + 1]
      <4>1. \A x, n, m : [[phase |-> "poll", tx |-> x, polls |-> n] EXCEPT !.polls = m]
                          = [phase |-> "poll", tx |-> x, polls |-> m]
        OBVIOUS
      <4>. QED BY <2>2, <2>6, <4>1
    <3>2. next.phase = "poll" /\ next.tx = tx /\ next.polls = polls + 1
      BY <3>1
    <3>. HIDE DEF next, polls
    <3>3. next = [phase |-> "poll", tx |-> next.tx, polls |-> next.polls]
      BY <3>1, <3>2
    <3>. QED BY <1>0, <2>1, <3>2, <3>3 DEF CallMoves, next
  <2>. QED BY <2>3, <2>4, <2>5, <2>6
<1>4. CASE SimulateFails(Me) \/ SendRejected(Me) \/ PollFails(Me)
  <2>1. /\ call[Me].phase \in {"simulate", "send", "poll"} /\ UNCHANGED <<account, pool, landed>>
        /\ call'[Me] \in {Threw("refused"), Threw("unanswered")} /\ DOMAIN call' = {Me}
    BY <1>0, <1>4 DEF SimulateFails, SendRejected, PollFails, ledgerVars
  <2>. QED BY <1>0, <2>1 DEF CallMoves, Threw
<1>5. CASE SendUnanswered(Me)
  <2>1. /\ call[Me].phase = "send" /\ UNCHANGED <<account, landed>>
        /\ pool' \in {pool, pool \cup {tx}}
        /\ call'[Me] = Threw("unanswered") /\ DOMAIN call' = {Me}
    BY <1>0, <1>5 DEF SendUnanswered
  <2>. QED BY <1>0, <2>1 DEF CallMoves, Threw
<1>. QED BY <1>1, <1>2, <1>3, <1>4, <1>5 DEF InvokeStep, InvokeFails

LEMMA SkipDoneKeeps ==
  ASSUME ScriptsInv, SkipDone
  PROVE  ScriptsInv'
<1>1. /\ phase = "step" /\ Running /\ Step.do = "call" /\ Name(Step) \in mem.done /\ Advance
      /\ UNCHANGED <<account, pool, landed, call, script, runs, mem, file, lost>>
  BY DEF SkipDone, Done, Running, chainVars
<1>2. call'[Me] = NotCalling /\ DOMAIN call' = {Me}
  BY <1>1 DEF ScriptsInv, ScriptInv
<1>3. Step # CheckStep /\ (Step = Pays => Name(Step) = <<"transfer", "payer", mem.gen>>)
  BY <1>1, StepsDiffer DEF Name
<1>4. Step = Pays => AllDead(mem.gen)
  BY <1>1, <1>3 DEF ScriptsInv, RecordInv, States, Recorded
<1>5. StepDone
  BY <1>1, <1>2, <1>3, <1>4 DEF StepDone
<1>. QED BY <1>5, StepDoneKeeps

LEMMA SkipRegisteredKeeps ==
  ASSUME ScriptsInv, SkipRegistered
  PROVE  ScriptsInv'
<1>1. /\ phase = "step" /\ Running /\ Step.do = "call" /\ AlreadyThere(Step)
      /\ UNCHANGED <<account, pool, landed, call, script, runs, file, lost>>
  BY DEF SkipRegistered, Running, chainVars
<1>2. call'[Me] = NotCalling /\ DOMAIN call' = {Me} /\ mem.gen \in Gens
  BY <1>1 DEF ScriptsInv, ScriptInv
<1>3. Step.kind = "register" /\ Step.role \in {"payer", "payee"} /\ Step # CheckStep /\ Step # Pays
  BY <1>1, StepIs, StepsDiffer DEF ScriptsInv, AlreadyThere
<1>4. \E l \in landed : l.ok /\ l.tx.name[1] = Name(Step)
  <2>1. Holder(Step) \in Accounts /\ account[Holder(Step)].registered
    BY <1>1, <1>2, <1>3, GensAre DEF Holder, AlreadyThere
  <2>2. Name(Step) = <<"register", Holder(Step)[1], Holder(Step)[2]>>
    BY <1>3 DEF Name, Holder
  <2>. QED BY <2>1, <2>2 DEF ScriptsInv, LedgerInv
<1>5. CASE Records
  <2>1. StepRecorded
    BY <1>1, <1>2, <1>3, <1>4, <1>5 DEF StepRecorded, SkipRegistered, Records
  <2>. QED BY <2>1, StepRecordedKeeps
<1>6. CASE ~ Records
  <2>1. StepDone
    BY <1>1, <1>2, <1>3, <1>6 DEF StepDone, SkipRegistered
  <2>. QED BY <2>1, StepDoneKeeps
<1>. QED BY <1>5, <1>6

\* The payment has landed: the payer's other transactions were built before it.
LEMMA ReturnKeeps ==
  ASSUME ScriptsInv, Return
  PROVE  ScriptsInv'
<1>. DEFINE tx == call[Me].tx
<1>1. /\ phase = "calling" /\ Running /\ Step.do = "call" /\ call[Me].phase = "returned" /\ Active
      /\ UNCHANGED <<account, pool, landed, script, runs, file, lost>>
  BY DEF Return, HasReturned, Running, Active, ledgerVars, ScriptsInv, ScriptInv
<1>2. call'[Me] = NotCalling /\ DOMAIN call' = {Me} /\ mem.gen \in Gens
  BY DEF ScriptsInv, ScriptInv, Return
<1>3. tx.name = <<Name(Step), runs>> /\ tx \in Out /\ IsCall(tx)
      /\ \A t \in Out : t.source = tx.source => t.seq <= tx.seq
  BY <1>1 DEF ScriptsInv, TransactionsInv, Out
<1>4. PICK l \in landed : l.ok /\ l.tx = tx
  BY <1>1 DEF ScriptsInv, TransactionsInv
<1>. HIDE DEF tx
<1>5. \E m \in landed : m.ok /\ m.tx.name[1] = Name(Step)
  BY <1>3, <1>4
<1>6. Step # CheckStep
  BY <1>1, StepsDiffer
<1>7. ASSUME Step = Pays PROVE AllDead(mem.gen)
  <2>1. tx.op.of = <<"payer", mem.gen>> /\ tx.source = tx.op.of
    <3>1. Name(Step) = <<"transfer", "payer", mem.gen>>
      BY <1>7, StepsDiffer DEF Name
    <3>2. tx.op.of[1] = "payer" /\ tx.op.of[2] = mem.gen
      BY <1>3, <3>1 DEF IsCall
    <3>3. tx.op.of = <<tx.op.of[1], tx.op.of[2]>>
      BY <1>3, GensAre DEF IsCall
    <3>. QED BY <1>3, <3>2, <3>3 DEF IsCall
  <2>2. tx.seq <= account[tx.source].seq
    BY <1>4 DEF ScriptsInv, TransactionsInv, Dead
  <2>3. ASSUME NEW t \in pool, t.op.kind = "transfer", t.op.of[2] = mem.gen PROVE Dead(t)
    <3>1. t \in Out /\ IsCall(t)
      BY DEF Out, Sent, ScriptsInv, TransactionsInv
    <3>2. t.op.of = <<t.op.of[1], t.op.of[2]>> /\ t.op.of[1] = "payer" /\ t.source = t.op.of
      BY <2>3, <3>1, GensAre DEF IsCall
    <3>3. t.source = tx.source /\ t.source \in Accounts
      BY <2>1, <2>3, <3>1, <3>2 DEF IsCall
    <3>4. t.seq <= tx.seq /\ t.seq \in Nat /\ tx.seq \in Nat /\ account[t.source].seq \in Nat
      BY <1>3, <3>1, <3>3 DEF IsCall, ScriptsInv, LedgerInv
    <3>. QED BY <2>2, <3>3, <3>4 DEF Dead
  <2>. QED BY <2>3 DEF AllDead
<1>8. CASE Records
  <2>1. StepRecorded
    BY <1>1, <1>2, <1>5, <1>7, <1>8 DEF StepRecorded, Return, Records
  <2>. QED BY <2>1, StepRecordedKeeps
<1>9. CASE ~ Records
  <2>1. StepDone
    BY <1>1, <1>2, <1>6, <1>7, <1>9 DEF StepDone, Return, Records
  <2>. QED BY <2>1, StepDoneKeeps
<1>. QED BY <1>8, <1>9

\* The balance is looked at after the payment.
LEMMA CheckKeeps ==
  ASSUME ScriptsInv, Check
  PROVE  ScriptsInv'
<1>1. /\ phase = "step" /\ Running /\ Step.do = "check" /\ Advance
      /\ account[Payee].receiving = Dues
      /\ UNCHANGED <<account, pool, landed, call, script, runs, mem, file, lost>>
  BY DEF Check, Adds, Running, chainVars
<1>2. call'[Me] = NotCalling /\ DOMAIN call' = {Me}
  BY <1>1 DEF ScriptsInv, ScriptInv
<1>3. Step = CheckStep /\ pc \in DOMAIN Program /\ Step = Program[pc]
  BY <1>1, StepIs DEF ScriptsInv, Step
<1>4. AllDead(mem.gen)
  <2>1. Behind = 1 .. pc - 1
    BY <1>1 DEF Behind
  <2>2. PICK j \in 1 .. pc - 1 : Program[j] = Pays
    BY <1>3, ProgramIs DEF ScriptsInv, IsScript
  <2>. QED BY <2>1, <2>2 DEF ScriptsInv, StageInv
<1>5. StepDone
  BY <1>1, <1>2, <1>4 DEF StepDone
<1>. QED BY <1>5, StepDoneKeeps

\* Steps that change only what the invariant does not speak of.
LEMMA QuietKeeps ==
  ASSUME ScriptsInv, UNCHANGED <<chainVars, script, runVars>>
  PROVE  ScriptsInv'
<1>1. UNCHANGED <<account, pool, landed, call, script, phase, pc, mem, file, runs, lost>>
  BY DEF chainVars, runVars
<1>2. LedgerInv' /\ Sent' = Sent
  BY <1>1 DEF ScriptsInv, LedgerInv, Landed, Sent
<1>3. \A a \in Accounts : account'[a].seq >= account[a].seq
  BY <1>1 DEF ScriptsInv, LedgerInv
<1>4. LedgerMoves
  BY <1>1, <1>2, <1>3 DEF LedgerMoves
<1>. QED BY <1>4, LedgerMovesKeeps

LEMMA ScriptsNext ==
  ASSUME ScriptsInv, [Next]_vars
  PROVE  ScriptsInv'
<1>1. CASE Start
  BY <1>1, StartKeeps
<1>2. CASE SkipDone
  BY <1>2, SkipDoneKeeps
<1>3. CASE SkipRegistered
  BY <1>3, SkipRegisteredKeeps
<1>4. CASE BeginCall
  BY <1>4, BeginCallKeeps
<1>5. CASE phase = "calling" /\ (InvokeStep(Me) \/ InvokeFails(Me)) /\ UNCHANGED <<script, runVars, calm>>
  <2>1. UNCHANGED <<script, phase, pc, mem, file, runs, lost>>
    BY <1>5 DEF runVars
  <2>2. CallMoves
    BY <1>5, <2>1, CallStepMoves
  <2>. QED BY <2>2, CallMovesKeeps
<1>6. CASE Return
  BY <1>6, ReturnKeeps
<1>7. CASE BeginSave
  BY <1>7, BeginSaveKeeps
<1>8. CASE Save
  BY <1>8, SaveKeeps
<1>9. CASE Check
  BY <1>9, CheckKeeps
<1>10. CASE Throw \/ Refuse
  <2>1. Running /\ EndRun /\ file' = file
    BY <1>10 DEF Throw, Refuse, Running
  <2>. QED BY <2>1, EndKeeps
<1>11. CASE Crash
  <2>1. Running /\ EndRun
    BY <1>11 DEF Crash, Running
  <2>2. file' = file \/ (phase = "saving" /\ file' \in {[is |-> "torn"], Saved})
    BY <1>11 DEF Crash
  <2>. QED BY <2>1, <2>2, EndKeeps
<1>12. CASE LedgerProceeds
  BY <1>12, LedgerKeeps
<1>13. CASE CalmDown \/ UNCHANGED vars
  <2>1. UNCHANGED <<chainVars, script, runVars>>
    BY <1>13 DEF CalmDown, vars
  <2>. QED BY <2>1, QuietKeeps
<1>. QED
  BY <1>1, <1>2, <1>3, <1>4, <1>5, <1>6, <1>7, <1>8, <1>9, <1>10, <1>11, <1>12, <1>13
  DEF Next, RunStep, CallProceeds

LEMMA ScriptsBegin ==
  ASSUME Init
  PROVE  ScriptsInv
<1>1. /\ pool = {} /\ landed = {} /\ DOMAIN call = {Me} /\ call[Me] = NotCalling
      /\ script \in Scripts /\ script \in {"condominium", "live", "seeded", "guest"}
      /\ phase = "off" /\ runs = 0 /\ lost = {} /\ file.is = "absent"
      /\ mem = [gen |-> 1, done |-> {}] /\ mem.gen = 1 /\ mem.done = {}
  BY PayScriptsAssumption DEF Init
<1>2. /\ ~ Running /\ ~ Active /\ Sent = {} /\ Out = {} /\ Behind = {} /\ States = {mem}
      /\ call[Me].phase = "idle" /\ 1 \in Gens /\ MaxRuns \in Nat /\ CalmRuns \in Nat
  <2>1. 1 \in Gens /\ MaxRuns \in Nat /\ CalmRuns \in Nat
    BY PayScriptsAssumption DEF Gens
  <2>2. ~ Running /\ ~ Active /\ Sent = {} /\ Behind = {} /\ States = {mem} /\ call[Me].phase = "idle"
    BY <1>1 DEF Running, Active, Sent, Behind, States, NotCalling
  <2>. QED BY <2>1, <2>2 DEF Out
<1>3. ScriptInv
  BY <1>1, <1>2 DEF ScriptInv
<1>4. LedgerInv
  <2>. DEFINE none == [registered |-> FALSE, seq |-> 0, receiving |-> 0, openings |-> << >>]
  <2>1. ~ none.registered /\ none.seq = 0 /\ none.receiving = 0 /\ IsAccount(none)
    BY DEF IsAccount
  <2>2. DOMAIN account = Accounts /\ \A a \in Accounts : account[a] = none
    BY DEF Init
  <2>. HIDE DEF none
  <2>3. \A gen \in Gens : PayeeOf(gen) \in Accounts /\ Landed("transfer", gen) = {}
    BY <1>1, GensAre DEF PayeeOf, Landed
  <2>4. Dues * Cardinality({}) = 0 /\ IsFiniteSet({})
    BY GensAre, FS_EmptySet
  <2>5. \A a \in Accounts :
          IsAccount(account[a]) /\ account[a].seq \in Nat /\ ~ account[a].registered
    BY <2>1, <2>2
  <2>6. \A gen \in Gens : account[PayeeOf(gen)].receiving = Dues * Cardinality(Landed("transfer", gen))
    BY <2>1, <2>2, <2>3, <2>4
  <2>. QED BY <1>1, <2>2, <2>4, <2>5, <2>6 DEF LedgerInv
<1>5. TransactionsInv
  BY <1>1, <1>2 DEF TransactionsInv
<1>6. RecordInv
  BY <1>1, <1>2 DEF RecordInv, Recorded
<1>7. StageInv
  BY <1>2 DEF StageInv
<1>8. KeysInv
  BY <1>1, <1>2 DEF KeysInv
<1>9. LostInv
  BY <1>1, <1>2 DEF LostInv
<1>. QED BY <1>3, <1>4, <1>5, <1>6, <1>7, <1>8, <1>9 DEF ScriptsInv

\* The invariant holds of every run.
THEOREM ScriptsInvariant == Spec => []ScriptsInv
<1>1. Init => ScriptsInv
  BY ScriptsBegin
<1>2. ScriptsInv /\ [Next]_vars => ScriptsInv'
  BY ScriptsNext
<1>. QED BY <1>1, <1>2, PTL DEF Spec

\* Type correctness: a run is at a step of its script, and its file is not ahead of it.
THEOREM ScriptsTyped == Spec => []TypeOK
<1>1. ScriptsInv => TypeOK
  <2>. SUFFICES ASSUME ScriptsInv PROVE TypeOK
    OBVIOUS
  <2>1. /\ script \in Scripts /\ runs \in 0 .. MaxRuns + CalmRuns
        /\ phase \in {"off", "step", "calling", "saving", "finished"}
        /\ file.is \in {"absent", "torn", "kept"}
    BY DEF ScriptsInv, ScriptInv
  <2>2. /\ Running => pc \in DOMAIN Program
        /\ file.is = "kept" /\ Running => file.state.gen = mem.gen /\ file.state.done \subseteq mem.done
    BY DEF ScriptsInv, ScriptInv
  <2>3. phase = "calling" <=> call[Me] # NotCalling
    BY DEF ScriptsInv, ScriptInv, NotCalling
  <2>4. mem.gen \in 1 .. MaxRuns + CalmRuns
    BY DEF ScriptsInv, ScriptInv, Gens
  <2>. QED BY <2>1, <2>2, <2>3, <2>4 DEF TypeOK, Running
<1>. QED BY <1>1, ScriptsInvariant, PTL

\* Whatever condominium.mjs has recorded, in memory or in its file, has happened on the
\* ledger, whichever of its runs recorded it: what a resumed run skips was done.
THEOREM RecordsAreTrue == Spec => []RecordedIsOnChain
<1>1. ScriptsInv => RecordedIsOnChain
  BY DEF ScriptsInv, RecordInv, Recorded, States, RecordedIsOnChain
<1>. QED BY <1>1, ScriptsInvariant, PTL

\* A step of condominium.mjs lands twice only where the run that sent it first ended
\* before it could record that it had returned.
THEOREM AgainOnlyIfLost == Spec => []AgainOnlyAfterLostReturn
<1>1. ScriptsInv => AgainOnlyAfterLostReturn
  <2>1. \A l \in landed : l.tx \in Sent /\ l.tx \in Out
    BY DEF Sent, Out
  <2>. QED BY <2>1 DEF ScriptsInv, LostInv, AgainOnlyAfterLostReturn
<1>. QED BY <1>1, ScriptsInvariant, PTL

\* No run leaves an account registered whose keys are nowhere, but for a torn file and
\* the scripts that keep none until they are done.
THEOREM KeysAreKept == Spec => []KeysOutliveFunds
<1>1. ScriptsInv => KeysOutliveFunds
  <2>0. ScriptsInv => script \in {"condominium", "live", "seeded", "guest"}
    BY DEF ScriptsInv, ScriptInv
  <2>. SUFFICES ASSUME ScriptsInv, NEW gen \in Gens, NEW role \in {"payer", "payee"},
                       account[<<role, gen>>].registered, file.is # "torn",
                       script \notin {"live", "seeded"}
       PROVE  /\ script = "condominium" => file.is = "kept" /\ file.state.gen = gen
              /\ script = "guest" /\ phase = "finished" /\ mem.gen = gen =>
                   file.is = "kept" /\ file.state.gen = gen
    BY <2>0 DEF KeysOutliveFunds, Gens
  <2>1. <<role, gen>> \in Accounts
    BY GensAre
  <2>2. PICK l \in landed : l.ok /\ l.tx.name[1] = <<"register", <<role, gen>>[1], <<role, gen>>[2]>>
    BY <2>1 DEF ScriptsInv, LedgerInv
  <2>3. l.tx \in Out /\ IsCall(l.tx)
    BY DEF Out, Sent, ScriptsInv, TransactionsInv
  <2>4. l.tx.op.of[2] = gen
    BY <2>2, <2>3 DEF IsCall
  <2>. QED BY <2>3, <2>4 DEF ScriptsInv, KeysInv
<1>. QED BY <1>1, ScriptsInvariant, PTL

\* A run that paid and finished has paid its payee exactly what was due, in exactly one
\* transaction of all that any run sent, and none that is still out can add to it.
THEOREM PaidOnce == Spec => []FinishedMeansPaidOnce
<1>1. ScriptsInv => FinishedMeansPaidOnce
  <2>. SUFFICES ASSUME ScriptsInv, phase = "finished", script # "guest"
       PROVE  /\ account[Payee].receiving = Dues
              /\ Cardinality(Landed("transfer", mem.gen)) = 1
              /\ \A tx \in pool : tx.name[1][1] = "transfer" /\ tx.name[1][3] = mem.gen => Dead(tx)
    BY DEF FinishedMeansPaidOnce
  <2>1. AllDead(mem.gen) /\ account[Payee].receiving = Dues
    <3>1. PICK i \in DOMAIN Program : Program[i] = CheckStep
      BY ProgramIs DEF ScriptsInv
    <3>2. i \in Behind
      BY DEF Behind
    <3>. QED BY <3>1, <3>2 DEF ScriptsInv, StageInv
  <2>. DEFINE n == Cardinality(Landed("transfer", mem.gen))
  <2>2. n \in Nat /\ Dues * n = Dues
    <3>1. mem.gen \in Gens /\ Payee = PayeeOf(mem.gen) /\ IsFiniteSet(landed)
      BY DEF ScriptsInv, ScriptInv, LedgerInv, Payee, PayeeOf
    <3>2. Landed("transfer", mem.gen) \subseteq landed
      BY DEF Landed
    <3>. QED BY <2>1, <3>1, <3>2, FS_Subset, FS_CardinalityType DEF ScriptsInv, LedgerInv
  <2>3. n = 1
    <3>1. \A d \in Nat \ {0}, m \in Nat : d * m = d => m = 1
      <4>. SUFFICES ASSUME NEW d \in Nat \ {0}, NEW m \in Nat, d * m = d, m # 1 PROVE FALSE
        OBVIOUS
      <4>1. CASE m = 0
        BY <4>1
      <4>2. CASE m >= 2
        <5>. DEFINE k == m - 2
        <5>1. k \in Nat /\ m = k + 2
          BY <4>2
        <5>. HIDE DEF k
        <5>2. d * (k + 2) = d * k + d + d
          BY <5>1
        <5>3. d * k \in Nat
          BY <5>1
        <5>. QED BY <5>1, <5>2, <5>3
      <4>. QED BY <4>1, <4>2
    <3>. HIDE DEF n
    <3>. QED BY <2>2, <3>1, GensAre
  <2>4. ASSUME NEW tx \in pool, tx.name[1][1] = "transfer", tx.name[1][3] = mem.gen
        PROVE  Dead(tx)
    <3>1. tx \in Out /\ IsCall(tx)
      BY DEF Out, Sent, ScriptsInv, TransactionsInv
    <3>2. tx.op.kind = "transfer" /\ tx.op.of[2] = mem.gen
      BY <2>4, <3>1 DEF IsCall
    <3>. QED BY <2>1, <3>2 DEF AllDead
  <2>. QED BY <2>1, <2>3, <2>4
<1>. QED BY <1>1, ScriptsInvariant, PTL
=============================================================================
