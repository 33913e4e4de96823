------------------------------ MODULE PayScripts ------------------------------
(***************************************************************************)
(* The example scripts that move funds: condominium.mjs, which writes its  *)
(* progress to a file and resumes from it, live-payment.mjs, which keeps   *)
(* nothing, and setup-guest.mjs, which writes its file at the end.  Each   *)
(* is a list of steps over ChainClient; a run may crash anywhere, also     *)
(* inside writeFileSync, and is started again.                             *)
(***************************************************************************)
EXTENDS ChainClient

CONSTANTS
  Scripts,     \* the scripts considered
  Me,          \* the one caller
  DepositOf,   \* UNIT_DEPOSIT, DEPOSIT_STROOPS, DEPOSIT
  Dues,        \* what the payer owes the payee
  MaxRuns,     \* bound: runs of a script while things go wrong
  CalmRuns     \* bound: runs after that

ASSUME PayScriptsAssumption ==
  /\ Scripts \subseteq {"condominium", "live", "seeded", "guest"}
  /\ Callers = {Me} /\ MaxRuns \in Nat \ {0} /\ CalmRuns \in Nat
  /\ Accounts = {"payer", "payee"} \X (1 .. MaxRuns + CalmRuns)
  /\ {DepositOf, Dues} \subseteq Nat \ {0}

VARIABLES
  script,      \* which script is run, again and again
  phase,       \* off, at a step, calling, saving, or finished
  pc,          \* the step of Program
  mem,         \* the state object in memory: whose keys, which steps are recorded
  file,        \* the state file: absent, torn, or what was saved
  runs,        \* runs so far
  calm,        \* history: nothing goes wrong any more
  lost         \* history: transactions sent whose return was never recorded

runVars == <<phase, pc, mem, file, runs, lost>>
vars    == <<chainVars, script, runVars, calm>>

-----------------------------------------------------------------------------
(* The steps.  Keys are numbered by the run that drew them.                 *)

CallStep(kind, role) == [do |-> "call", kind |-> kind, role |-> role]
SaveStep  == [do |-> "save"]
CheckStep == [do |-> "check"]

Condominium ==
  << SaveStep, CallStep("register", "payee"), CallStep("register", "payer"),
     CallStep("deposit", "payer"), CallStep("merge", "payer"), CallStep("transfer", "payer"),
     CheckStep, SaveStep >>

\* Mutant: the keys are saved with the first recorded step, not before it.
KeysSavedLate == SubSeq(Condominium, 2, Len(Condominium))

CondominiumSteps == Condominium

LivePayment ==
  << CallStep("register", "payer"), CallStep("register", "payee"), CallStep("deposit", "payer"),
     CallStep("merge", "payer"), CallStep("transfer", "payer"), CheckStep >>

SetupGuest ==
  << CallStep("register", "payer"), CallStep("deposit", "payer"), CallStep("merge", "payer"),
     SaveStep >>

Program ==
  CASE script = "condominium" -> CondominiumSteps
    [] script \in {"live", "seeded"} -> LivePayment
    [] script = "guest" -> SetupGuest

Step == Program[pc]
Payer == <<"payer", mem.gen>>
Payee == <<"payee", mem.gen>>
Holder(step) == <<step.role, mem.gen>>
Name(step) == <<step.kind, step.role, mem.gen>>
Op(step) ==
  LET a == Holder(step) IN
  CASE step.kind = "register" -> Register(a)
    [] step.kind = "deposit"  -> Deposit(a, DepositOf)
    [] step.kind = "merge"    -> Merge(a)
    [] step.kind = "transfer" -> Transfer(a, Payee, Dues, Len(account[a].openings))

\* Only condominium.mjs records the steps it has done.
Records == script = "condominium"

Init ==
  /\ account = [a \in Accounts |->
       [registered |-> FALSE, seq |-> 0, receiving |-> 0, openings |-> << >>]]
  /\ pool = {} /\ landed = {}
  /\ call = [c \in Callers |-> NotCalling]
  /\ script \in Scripts
  /\ phase = "off" /\ pc = 1 /\ runs = 0 /\ calm = FALSE /\ lost = {}
  /\ mem = [gen |-> 1, done |-> {}]
  /\ file = [is |-> "absent"]

-----------------------------------------------------------------------------
Loaded(run) ==
  CASE file.is = "kept"  -> file.state
    [] file.is = "absent" /\ script = "seeded" -> [gen |-> 1, done |-> {}]
    [] OTHER             -> [gen |-> run, done |-> {}]

\* main: the state is loaded, or begun with fresh keys (a seeded run is given its
\* keys); a torn file does not parse.
Start ==
  /\ phase \in {"off", "finished"}
  /\ runs < MaxRuns \/ (calm /\ phase = "off" /\ runs < MaxRuns + CalmRuns)
  /\ runs' = runs + 1
  /\ IF file.is = "torn" THEN UNCHANGED <<phase, pc, mem>>
     ELSE /\ phase' = "step" /\ pc' = 1
          /\ mem' = Loaded(runs + 1)
  /\ UNCHANGED <<chainVars, script, file, calm, lost>>

Advance ==
  /\ pc' = pc + 1
  /\ phase' = IF pc = Len(Program) THEN "finished" ELSE "step"

\* Mutant: what the file records is not looked at.
NeverDone(step) == FALSE

\* A recorded step is not done again.
Done(step) == Name(step) \in mem.done

SkipDone ==
  /\ phase = "step" /\ Step.do = "call" /\ Done(Step)
  /\ Advance
  /\ UNCHANGED <<chainVars, script, mem, file, runs, calm, lost>>

\* Mutant: the chain is not asked.
NotAsked(step) == FALSE

AlreadyThere(step) == step.kind = "register" /\ account[Holder(step)].registered

\* isRegistered says yes: nothing to do, but to record it.
SkipRegistered ==
  /\ phase = "step" /\ Step.do = "call" /\ ~ Done(Step)
  /\ AlreadyThere(Step)
  /\ IF Records THEN /\ mem' = [mem EXCEPT !.done = @ \cup {Name(Step)}]
                     /\ phase' = "saving"
                     /\ UNCHANGED pc
     ELSE Advance /\ UNCHANGED mem
  /\ UNCHANGED <<chainVars, script, file, runs, calm, lost>>

\* What must hold of the rebuilt balance before the payment is proved.
CanPay ==
  /\ Spendable(Payer) >= Dues
  /\ script \in {"live", "seeded"} => Spendable(Payer) = DepositOf

\* invoke begins.  isRegistered takes any RPC error for a no, so a registration may
\* be attempted again, which the contract refuses.  Rebuilding, proving and the read of
\* the account are one step: nobody but this script, or a call an earlier run left in the
\* pool, writes these accounts, and the contract compares the commitment in any case.
BeginCall ==
  /\ phase = "step" /\ Step.do = "call" /\ ~ Done(Step)
  /\ AlreadyThere(Step) => ~ calm
  /\ Step.kind = "transfer" => CanPay
  /\ Invoke(Me, Holder(Step), Op(Step), <<Name(Step), runs>>)
  /\ phase' = "calling"
  /\ UNCHANGED <<script, pc, mem, file, runs, calm, lost>>

\* Mutant: the step is recorded when it is sent.
RecordsWhenSent(c) == c.phase \in {"poll", "returned"}

\* The call is over and its return is at hand.
HasReturned(c) == c.phase = "returned"

\* invoke returned: a script that records notes the step, and saves.
Return ==
  /\ phase = "calling" /\ HasReturned(call[Me])
  /\ call' = [call EXCEPT ![Me] = NotCalling]
  /\ IF Records THEN /\ mem' = [mem EXCEPT !.done = @ \cup {Name(Step)}]
                     /\ phase' = "saving"
                     /\ UNCHANGED pc
     ELSE Advance /\ UNCHANGED mem
  /\ UNCHANGED <<ledgerVars, script, file, runs, calm, lost>>

BeginSave ==
  /\ phase = "step" /\ Step.do = "save"
  /\ phase' = "saving"
  /\ UNCHANGED <<chainVars, script, pc, mem, file, runs, calm, lost>>

Saved == [is |-> "kept", state |-> mem]

Save ==
  /\ phase = "saving"
  /\ file' = Saved
  /\ Advance
  /\ UNCHANGED <<chainVars, script, mem, runs, calm, lost>>

\* Mutant: the balance is printed and not compared.
Uncompared == TRUE

\* The balance the payee reconstructs is what was due; live-payment.mjs also checks
\* the payer's commitments, which any rebuilt balance satisfies.
Adds == account[Payee].receiving = Dues

Check ==
  /\ phase = "step" /\ Step.do = "check" /\ Adds
  /\ Advance
  /\ UNCHANGED <<chainVars, script, mem, file, runs, calm, lost>>

-----------------------------------------------------------------------------
(* What ends a run.                                                         *)

\* The transaction of this step, if it was sent and its return is not in the file.
LostNow ==
  IF Step.do = "call" /\ (phase = "saving" \/ call[Me].phase \in {"poll", "returned", "threw"})
  THEN {<<Name(Step), runs>>} ELSE {}

EndRun ==
  /\ phase' = "off"
  /\ lost' = lost \cup LostNow
  /\ call' = [call EXCEPT ![Me] = NotCalling]
  /\ UNCHANGED <<ledgerVars, script, pc, mem, runs, calm>>

\* invoke threw: the script ends, whatever it threw.
Throw ==
  /\ phase = "calling" /\ call[Me].phase = "threw"
  /\ EndRun /\ UNCHANGED file

\* A check of the script's own fails.
Refuse ==
  /\ phase = "step"
  /\ \/ Step.do = "check" /\ ~ Adds
     \/ Step.do = "call" /\ Step.kind = "transfer" /\ ~ Done(Step) /\ ~ CanPay
  /\ EndRun /\ UNCHANGED file

\* The process dies, or friendbot, an event source or a proof throws.  Inside the
\* save the file may be the old one, the new one, or neither.
Crash ==
  /\ ~ calm
  /\ phase \in {"step", "calling", "saving"}
  /\ EndRun
  /\ file' \in IF phase = "saving" THEN {file, [is |-> "torn"], Saved} ELSE {file}

CalmDown ==
  /\ ~ calm
  /\ calm' = TRUE
  /\ UNCHANGED <<chainVars, script, runVars>>

\* The sequence number of tx is used: tx will not land any more.
Dead(tx) == tx.seq <= account[tx.source].seq

\* In the calm the network keeps what it is sent and decides it within the polls: it
\* lands, or one left over from an earlier run takes its sequence number.
Answered ==
  calm => /\ call[Me].phase = "send" => call[Me].tx \in pool'
          /\ call'[Me] = Threw("unanswered") => call[Me].tx \notin pool

CallProceeds ==
  /\ phase = "calling" /\ InvokeStep(Me) /\ Answered
  /\ UNCHANGED <<script, runVars, calm>>

LedgerProceeds ==
  /\ \E tx \in pool : Include(tx) \/ ((calm => Dead(tx)) /\ Expire(tx))
  /\ UNCHANGED <<script, runVars, calm>>

RunStep ==
  \/ Start \/ SkipDone \/ SkipRegistered \/ BeginCall \/ CallProceeds \/ Return
  \/ BeginSave \/ Save \/ Check \/ Throw \/ Refuse

Next ==
  \/ RunStep \/ LedgerProceeds \/ Crash \/ CalmDown
  \/ ~ calm /\ phase = "calling" /\ InvokeFails(Me) /\ UNCHANGED <<script, runVars, calm>>

\* The script is run again until it has finished; ledgers close.
Spec == Init /\ [][Next]_vars /\ WF_vars(RunStep /\ phase # "finished") /\ WF_vars(LedgerProceeds)

-----------------------------------------------------------------------------
(* Properties. *)

Landed(kind, gen) ==
  {l \in landed : l.ok /\ l.tx.name[1][1] = kind /\ l.tx.name[1][3] = gen}

\* Type invariant.
TypeOK ==
  /\ script \in Scripts /\ runs \in 0 .. MaxRuns + CalmRuns
  /\ phase \in {"off", "step", "calling", "saving", "finished"}
  /\ phase \in {"step", "calling", "saving"} => pc \in DOMAIN Program
  /\ (call[Me] # NotCalling) = (phase = "calling")
  /\ mem.gen \in 1 .. MaxRuns + CalmRuns
  /\ file.is \in {"absent", "torn", "kept"}
  /\ file.is = "kept" /\ phase \in {"step", "calling", "saving"} =>
       file.state.gen = mem.gen /\ file.state.done \subseteq mem.done

\* Whatever is recorded has happened: a resumed run skips only what landed.
RecordedIsOnChain ==
  \A state \in {mem} \cup (IF file.is = "kept" THEN {file.state} ELSE {}) :
    \A name \in state.done : \E l \in landed : l.ok /\ l.tx.name[1] = name

\* A run that finished has paid the dues once, in one transaction, and nothing sent
\* by an earlier run can still add to it.
FinishedMeansPaidOnce ==
  phase = "finished" /\ script # "guest" =>
    /\ account[Payee].receiving = Dues
    /\ Cardinality(Landed("transfer", mem.gen)) = 1
    /\ \A tx \in pool : tx.name[1][1] = "transfer" /\ tx.name[1][3] = mem.gen => Dead(tx)

\* A resumed run does a step again only where the return of the first was lost.
AgainOnlyAfterLostReturn ==
  script = "condominium" =>
    \A l, m \in landed :
      l.ok /\ m.ok /\ l.tx.name[1] = m.tx.name[1] /\ l.tx.name[2] < m.tx.name[2] =>
        l.tx.name \in lost

\* The keys of every account the script registered are kept: in the file, unless it
\* was torn.  setup-guest.mjs keeps them only once it is done.
KeysOutliveFunds ==
  \A gen \in 1 .. MaxRuns + CalmRuns :
    (\E role \in {"payer", "payee"} : account[<<role, gen>>].registered) =>
      \/ file.is = "torn"
      \/ file.is = "kept" /\ file.state.gen = gen
      \/ script \in {"live", "seeded"}
      \/ script = "guest" /\ ~ (phase = "finished" /\ mem.gen = gen)

\* Progress survives: once nothing goes wrong any more a run finishes, unless the
\* file was torn or the dues were paid twice, which the last check refuses for ever.
\* A seeded live-payment.mjs that deposited twice refuses too.
ResumesToTheEnd ==
  [](calm => <>(\/ phase = "finished"
                \/ file.is = "torn"
                \/ script = "condominium" /\ Cardinality(Landed("transfer", mem.gen)) > 1
                \/ script = "seeded" /\ Cardinality(Landed("deposit", mem.gen)) > 1))

\* What condominium.mjs says of a run that ended because one call timed out: it is
\* resumed, and no payment is made again.
NoDuePaidTwice ==
  script = "condominium" => \A gen \in 1 .. MaxRuns + CalmRuns : Cardinality(Landed("transfer", gen)) <= 1
=============================================================================
