--------------------------- MODULE RunQueueProofs ---------------------------
(***************************************************************************)
(* Every step of RunQueue preserves IInv, one lemma per action that        *)
(* touches the goroutines, the rows or the log, and one lemma (Frame) for  *)
(* the handlers that touch neither.  The safety theorems follow for any    *)
(* number of messages, goroutines, cancel calls, faults and crashes.       *)
(***************************************************************************)
EXTENDS RunQueueRefinement, TLAPS

\* Post preserves IInv: a handler takes an idle goroutine and a message nobody has posted.
LEMMA PostStep ==
  ASSUME ConstantsAssumption, IInv, NEW p \in Procs, NEW m \in Messages, Post(p, m)
  PROVE  IInv'
<1> USE ConstantsAssumption DEF ConstantsAssumption, Messages, IInv, TypeOK,
      Post, Goto, sessionVars, queueVars, managerVars, handlerVars, logVars
<1>1. TypeOK'
  <2>1. StoreTypes'
    BY DEF StoreTypes
  <2>2. ProcTypes'
    BY DEF ProcTypes, Positions
  <2>3. HandlerTypes'
    BY DEF HandlerTypes
  <2>4. LogTypes'
    BY DEF LogTypes
  <2> QED BY <2>1, <2>2, <2>3, <2>4
<1>2. RunOwnership'
  BY DEF RunOwnership, Owning
<1>3. Carrying'
  BY DEF ProcTypes, Carrying
<1>4. OneCarrier'
  BY DEF OneCarrier, Ledger
<1>5. Shape'
  BY DEF ProcTypes, Shape, Ledger, Launched
<1>6. Ledger'
  BY DEF Ledger
<1>7. Terminals'
  BY DEF Terminals, Launched
<1> QED BY <1>1, <1>2, <1>3, <1>4, <1>5, <1>6, <1>7

\* Enqueue preserves IInv: the carrier of a message without a row inserts its row and returns.
LEMMA EnqueueStep ==
  ASSUME ConstantsAssumption, IInv, NEW p \in Procs, Enqueue(p)
  PROVE  IInv'
<1> USE ConstantsAssumption DEF ConstantsAssumption, Messages, IInv, TypeOK,
      Enqueue, Return, Works, Fails, Pending, sessionVars, queueVars,
      managerVars, handlerVars, logVars
<1>1. TypeOK'
  <2>1. StoreTypes'
    BY DEF StoreTypes, RowStatuses
  <2>2. ProcTypes'
    BY DEF ProcTypes, Positions
  <2>3. HandlerTypes'
    BY DEF HandlerTypes
  <2>4. LogTypes'
    BY DEF LogTypes
  <2> QED BY <2>1, <2>2, <2>3, <2>4
<1>2. RunOwnership'
  BY DEF RunOwnership, Owning
<1>3. Carrying'
  BY DEF ProcTypes, Carrying
<1>4. OneCarrier'
  BY DEF StoreTypes, ProcTypes, OneCarrier
<1>5. Shape'
  BY DEF StoreTypes, ProcTypes, OneCarrier, Carrying, Shape, Holding, Launched
<1>6. Ledger'
  BY DEF StoreTypes, OneCarrier, Shape, Ledger
<1>7. Terminals'
  BY DEF ProcTypes, Terminals
<1> QED BY <1>1, <1>2, <1>3, <1>4, <1>5, <1>6, <1>7

\* Fire preserves IInv: a schedule takes an idle goroutine and an occurrence not yet fired.
LEMMA FireStep ==
  ASSUME ConstantsAssumption, IInv, NEW p \in Procs, NEW m \in Messages, Fire(p, m)
  PROVE  IInv'
<1> USE ConstantsAssumption DEF ConstantsAssumption, Messages, IInv, TypeOK,
      Fire, Goto, sessionVars, queueVars, managerVars, handlerVars, logVars
<1>1. TypeOK'
  <2>1. StoreTypes'
    BY DEF StoreTypes
  <2>2. ProcTypes'
    BY DEF ProcTypes, Positions
  <2>3. HandlerTypes'
    BY DEF HandlerTypes
  <2>4. LogTypes'
    BY DEF LogTypes
  <2> QED BY <2>1, <2>2, <2>3, <2>4
<1>2. RunOwnership'
  BY DEF RunOwnership, Owning
<1>3. Carrying'
  BY DEF ProcTypes, Carrying
<1>4. OneCarrier'
  BY DEF OneCarrier, Ledger
<1>5. Shape'
  BY DEF ProcTypes, Shape, Ledger, Launched
<1>6. Ledger'
  BY DEF Ledger
<1>7. Terminals'
  BY DEF Terminals, Launched
<1> QED BY <1>1, <1>2, <1>3, <1>4, <1>5, <1>6, <1>7

\* Materialize preserves IInv: the carrier becomes a dispatcher that carries nothing.
LEMMA MaterializeStep ==
  ASSUME ConstantsAssumption, IInv, NEW p \in Procs, Materialize(p)
  PROVE  IInv'
<1> USE ConstantsAssumption DEF ConstantsAssumption, Messages, IInv, TypeOK,
      Materialize, Goto, Return, Works, Fails, sessionVars, queueVars,
      managerVars, handlerVars, logVars
<1>1. TypeOK'
  <2>1. StoreTypes'
    BY DEF StoreTypes, RowStatuses, OccStatuses
  <2>2. ProcTypes'
    BY DEF ProcTypes, Positions
  <2>3. HandlerTypes'
    BY DEF HandlerTypes
  <2>4. LogTypes'
    BY DEF LogTypes
  <2> QED BY <2>1, <2>2, <2>3, <2>4
<1>2. RunOwnership'
  BY DEF ProcTypes, RunOwnership, Owning
<1>3. Carrying'
  BY DEF ProcTypes, Carrying
<1>4. OneCarrier'
  BY DEF StoreTypes, ProcTypes, OneCarrier
<1>5. Shape'
  BY DEF StoreTypes, ProcTypes, OneCarrier, Carrying, Shape, Holding, Launched
<1>6. Ledger'
  BY DEF StoreTypes, OneCarrier, Shape, Ledger
<1>7. Terminals'
  BY DEF ProcTypes, Terminals, Launched
<1> QED BY <1>1, <1>2, <1>3, <1>4, <1>5, <1>6, <1>7

\* Claim preserves IInv: a pending message has no carrier, so the dispatcher is its only one.
LEMMA ClaimStep ==
  ASSUME ConstantsAssumption, IInv, NEW p \in Procs, Claim(p)
  PROVE  IInv'
<1> USE ConstantsAssumption DEF ConstantsAssumption, Messages, IInv, TypeOK,
      Claim, Goto, Return, Works, Fails, NextToClaim, Pending, sessionVars,
      managerVars, handlerVars, logVars
<1>1. TypeOK'
  <2>1. StoreTypes'
    BY DEF StoreTypes, RowStatuses
  <2>2. ProcTypes'
    <3>1. (pc \in [Procs -> Positions])'
      BY DEF ProcTypes, Positions
    <3>2. (msg \in [Procs -> Messages \cup {NoMsg}])'
      BY DEF ProcTypes
    <3>3. (outcome \in [Procs -> RunOutcomes \cup {"none"}])'
      BY DEF ProcTypes
    <3>4. (emitted \in [Procs -> BOOLEAN])'
      BY DEF ProcTypes
    <3> QED BY <3>1, <3>2, <3>3, <3>4 DEF ProcTypes
  <2>3. HandlerTypes'
    BY DEF HandlerTypes
  <2>4. LogTypes'
    BY DEF LogTypes
  <2> QED BY <2>1, <2>2, <2>3, <2>4
<1>2. RunOwnership'
  BY DEF ProcTypes, RunOwnership, Owning
<1>3. Carrying'
  BY DEF ProcTypes, Carrying
<1>4. OneCarrier'
  BY DEF StoreTypes, ProcTypes, OneCarrier, Ledger
<1>5. Shape'
  BY DEF StoreTypes, ProcTypes, Carrying, Shape, Ledger, Holding, Launched
<1>6. Ledger'
  BY DEF StoreTypes, Ledger
<1>7. Terminals'
  BY DEF ProcTypes, Terminals, Launched
<1> QED BY <1>1, <1>2, <1>3, <1>4, <1>5, <1>6, <1>7

\* Load preserves IInv.
LEMMA LoadStep ==
  ASSUME ConstantsAssumption, IInv, NEW p \in Procs, Load(p)
  PROVE  IInv'
<1> USE ConstantsAssumption DEF ConstantsAssumption, Messages, IInv, TypeOK,
      Load, Goto, Works, Fails, sessionVars, queueVars, managerVars,
      handlerVars, logVars
<1>1. TypeOK'
  <2>1. StoreTypes'
    BY DEF StoreTypes
  <2>2. ProcTypes'
    BY DEF ProcTypes, Positions
  <2>3. HandlerTypes'
    BY DEF HandlerTypes
  <2>4. LogTypes'
    BY DEF LogTypes
  <2> QED BY <2>1, <2>2, <2>3, <2>4
<1>2. RunOwnership'
  BY DEF ProcTypes, RunOwnership, Owning
<1>3. Carrying'
  BY DEF ProcTypes, Carrying
<1>4. OneCarrier'
  BY DEF OneCarrier
<1>5. Shape'
  BY DEF ProcTypes, Carrying, Shape, Ledger, Launched
<1>6. Ledger'
  BY DEF Ledger
<1>7. Terminals'
  BY DEF ProcTypes, Terminals, Launched
<1> QED BY <1>1, <1>2, <1>3, <1>4, <1>5, <1>6, <1>7

\* Register preserves IInv: the entry is taken only when it is free.
LEMMA RegisterStep ==
  ASSUME ConstantsAssumption, IInv, NEW p \in Procs, Register(p)
  PROVE  IInv'
<1> USE ConstantsAssumption DEF ConstantsAssumption, Messages, IInv, TypeOK,
      Register, Busy, Goto, Return, Queued, Direct, sessionVars, queueVars,
      managerVars, handlerVars, logVars
<1>1. TypeOK'
  <2>1. StoreTypes'
    BY DEF StoreTypes
  <2>2. ProcTypes'
    BY DEF ProcTypes, Positions
  <2>3. HandlerTypes'
    BY DEF HandlerTypes
  <2>4. LogTypes'
    BY DEF LogTypes
  <2> QED BY <2>1, <2>2, <2>3, <2>4
<1>2. RunOwnership'
  BY DEF ProcTypes, RunOwnership, Owning
<1>3. Carrying'
  BY DEF ProcTypes, Carrying
<1>4. OneCarrier'
  BY DEF ProcTypes, OneCarrier
<1>5. Shape'
  BY DEF ProcTypes, Shape, Holding, Launched
<1>6. Ledger'
  BY DEF Ledger
<1>7. Terminals'
  BY DEF ProcTypes, Terminals, Launched
<1> QED BY <1>1, <1>2, <1>3, <1>4, <1>5, <1>6, <1>7

\* AppendUserMessage preserves IInv.
LEMMA AppendUserMessageStep ==
  ASSUME ConstantsAssumption, IInv, NEW p \in Procs, AppendUserMessage(p)
  PROVE  IInv'
<1> USE ConstantsAssumption DEF ConstantsAssumption, Messages, IInv, TypeOK,
      AppendUserMessage, Goto, Works, Fails, Sat, sessionVars, queueVars,
      managerVars, handlerVars
<1>1. TypeOK'
  <2>1. StoreTypes'
    BY DEF StoreTypes
  <2>2. ProcTypes'
    BY DEF ProcTypes, Positions
  <2>3. HandlerTypes'
    BY DEF HandlerTypes
  <2>4. LogTypes'
    BY DEF LogTypes
  <2> QED BY <2>1, <2>2, <2>3, <2>4
<1>2. RunOwnership'
  BY DEF ProcTypes, RunOwnership, Owning
<1>3. Carrying'
  BY DEF ProcTypes, Carrying
<1>4. OneCarrier'
  BY DEF OneCarrier
<1>5. Shape'
  BY DEF ProcTypes, LogTypes, Carrying, Shape, Holding, Launched
<1>6. Ledger'
  BY DEF LogTypes, Ledger
<1>7. Terminals'
  BY DEF ProcTypes, Terminals, Launched
<1> QED BY <1>1, <1>2, <1>3, <1>4, <1>5, <1>6, <1>7

\* SetRunning preserves IInv.
LEMMA SetRunningStep ==
  ASSUME ConstantsAssumption, IInv, NEW p \in Procs, SetRunning(p)
  PROVE  IInv'
<1> USE ConstantsAssumption DEF ConstantsAssumption, Messages, IInv, TypeOK,
      SetRunning, Goto, Works, Fails, queueVars, managerVars, handlerVars,
      logVars
<1>1. TypeOK'
  <2>1. StoreTypes'
    BY DEF StoreTypes, SessionStatuses
  <2>2. ProcTypes'
    BY DEF ProcTypes, Positions
  <2>3. HandlerTypes'
    BY DEF HandlerTypes
  <2>4. LogTypes'
    BY DEF LogTypes
  <2> QED BY <2>1, <2>2, <2>3, <2>4
<1>2. RunOwnership'
  BY DEF ProcTypes, RunOwnership, Owning
<1>3. Carrying'
  BY DEF ProcTypes, Carrying
<1>4. OneCarrier'
  BY DEF OneCarrier
<1>5. Shape'
  BY DEF ProcTypes, Shape, Holding, Launched
<1>6. Ledger'
  BY DEF Ledger
<1>7. Terminals'
  BY DEF ProcTypes, Terminals, Launched
<1> QED BY <1>1, <1>2, <1>3, <1>4, <1>5, <1>6, <1>7

\* Announce preserves IInv: the log of the run starts anew; a direct message is launched here.
LEMMA AnnounceStep ==
  ASSUME ConstantsAssumption, IInv, NEW p \in Procs, Announce(p)
  PROVE  IInv'
<1> USE ConstantsAssumption DEF ConstantsAssumption, Messages, IInv, TypeOK,
      Announce, Goto, Works, Fails, Sat, Queued, sessionVars, queueVars,
      managerVars, handlerVars
<1>1. TypeOK'
  <2>1. StoreTypes'
    BY DEF StoreTypes
  <2>2. ProcTypes'
    BY DEF ProcTypes, Positions
  <2>3. HandlerTypes'
    BY DEF HandlerTypes
  <2>4. LogTypes'
    BY DEF LogTypes
  <2> QED BY <2>1, <2>2, <2>3, <2>4
<1>2. RunOwnership'
  BY DEF ProcTypes, RunOwnership, Owning
<1>3. Carrying'
  BY DEF ProcTypes, Carrying
<1>4. OneCarrier'
  BY DEF OneCarrier
<1>5. Shape'
  BY DEF ProcTypes, LogTypes, OneCarrier, Carrying, Shape, Holding, Launched
<1>6. Ledger'
  BY DEF LogTypes, OneCarrier, Shape, Ledger, Holding
<1>7. Terminals'
  BY DEF ProcTypes, LogTypes, Terminals, Launched
<1> QED BY <1>1, <1>2, <1>3, <1>4, <1>5, <1>6, <1>7

\* MarkSent preserves IInv: a claimed message is launched when its row is sent.
LEMMA MarkSentStep ==
  ASSUME ConstantsAssumption, IInv, NEW p \in Procs, MarkSent(p)
  PROVE  IInv'
<1> USE ConstantsAssumption DEF ConstantsAssumption, Messages, IInv, TypeOK,
      MarkSent, Goto, Works, Fails, Sat, sessionVars, managerVars, handlerVars
<1>1. TypeOK'
  <2>1. StoreTypes'
    BY DEF StoreTypes, RowStatuses
  <2>2. ProcTypes'
    BY DEF ProcTypes, Positions
  <2>3. HandlerTypes'
    BY DEF HandlerTypes
  <2>4. LogTypes'
    BY DEF LogTypes
  <2> QED BY <2>1, <2>2, <2>3, <2>4
<1>2. RunOwnership'
  BY DEF ProcTypes, RunOwnership, Owning
<1>3. Carrying'
  BY DEF ProcTypes, Carrying
<1>4. OneCarrier'
  BY DEF StoreTypes, ProcTypes, OneCarrier
<1>5. Shape'
  BY DEF StoreTypes, ProcTypes, LogTypes, OneCarrier, Carrying, Shape,
     Holding, Launched
<1>6. Ledger'
  BY DEF StoreTypes, LogTypes, Shape, Ledger
<1>7. Terminals'
  BY DEF ProcTypes, Terminals, Launched
<1> QED BY <1>1, <1>2, <1>3, <1>4, <1>5, <1>6, <1>7

\* MarkRunning preserves IInv.
LEMMA MarkRunningStep ==
  ASSUME ConstantsAssumption, IInv, NEW p \in Procs, MarkRunning(p)
  PROVE  IInv'
<1> USE ConstantsAssumption DEF ConstantsAssumption, Messages, IInv, TypeOK,
      MarkRunning, Goto, Works, Fails, sessionVars, queueVars, managerVars,
      handlerVars, logVars
<1>1. TypeOK'
  <2>1. StoreTypes'
    BY DEF StoreTypes, OccStatuses
  <2>2. ProcTypes'
    BY DEF ProcTypes, Positions
  <2>3. HandlerTypes'
    BY DEF HandlerTypes
  <2>4. LogTypes'
    BY DEF LogTypes
  <2> QED BY <2>1, <2>2, <2>3, <2>4
<1>2. RunOwnership'
  BY DEF RunOwnership, Owning
<1>3. Carrying'
  BY DEF Carrying
<1>4. OneCarrier'
  BY DEF OneCarrier
<1>5. Shape'
  BY DEF Shape, Holding, Launched
<1>6. Ledger'
  BY DEF StoreTypes, Ledger
<1>7. Terminals'
  BY DEF Terminals, Launched
<1> QED BY <1>1, <1>2, <1>3, <1>4, <1>5, <1>6, <1>7

\* Undo preserves IInv: the owner gives the entry back.
LEMMA UndoStep ==
  ASSUME ConstantsAssumption, IInv, NEW p \in Procs, Undo(p)
  PROVE  IInv'
<1> USE ConstantsAssumption DEF ConstantsAssumption, Messages, IInv, TypeOK,
      Undo, Goto, Return, DropRun, Queued, sessionVars, queueVars,
      handlerVars, logVars
<1>1. TypeOK'
  <2>1. StoreTypes'
    BY DEF StoreTypes
  <2>2. ProcTypes'
    BY DEF ProcTypes, Positions
  <2>3. HandlerTypes'
    BY DEF HandlerTypes
  <2>4. LogTypes'
    BY DEF LogTypes
  <2> QED BY <2>1, <2>2, <2>3, <2>4
<1>2. RunOwnership'
  BY DEF ProcTypes, RunOwnership, Owning
<1>3. Carrying'
  BY DEF ProcTypes, Carrying
<1>4. OneCarrier'
  BY DEF ProcTypes, OneCarrier
<1>5. Shape'
  BY DEF ProcTypes, Shape, Holding, Launched
<1>6. Ledger'
  BY DEF Ledger
<1>7. Terminals'
  BY DEF ProcTypes, Terminals, Launched
<1> QED BY <1>1, <1>2, <1>3, <1>4, <1>5, <1>6, <1>7

\* Release preserves IInv: the holder puts the row back and carries nothing.
LEMMA ReleaseStep ==
  ASSUME ConstantsAssumption, IInv, NEW p \in Procs, Release(p)
  PROVE  IInv'
<1> USE ConstantsAssumption DEF ConstantsAssumption, Messages, IInv, TypeOK,
      Release, Return, Works, Fails, sessionVars, managerVars, handlerVars,
      logVars
<1>1. TypeOK'
  <2>1. StoreTypes'
    BY DEF StoreTypes, RowStatuses
  <2>2. ProcTypes'
    BY DEF ProcTypes, Positions
  <2>3. HandlerTypes'
    BY DEF HandlerTypes
  <2>4. LogTypes'
    BY DEF LogTypes
  <2> QED BY <2>1, <2>2, <2>3, <2>4
<1>2. RunOwnership'
  BY DEF RunOwnership, Owning
<1>3. Carrying'
  BY DEF ProcTypes, Carrying
<1>4. OneCarrier'
  BY DEF StoreTypes, ProcTypes, OneCarrier
<1>5. Shape'
  BY DEF StoreTypes, ProcTypes, OneCarrier, Carrying, Shape, Holding, Launched
<1>6. Ledger'
  BY DEF StoreTypes, Ledger
<1>7. Terminals'
  BY DEF ProcTypes, Terminals
<1> QED BY <1>1, <1>2, <1>3, <1>4, <1>5, <1>6, <1>7

\* AgentEmits preserves IInv: the guard of emit is what keeps the run to one terminal event.
LEMMA AgentEmitsStep ==
  ASSUME ConstantsAssumption, IInv, NEW p \in Procs, AgentEmits(p)
  PROVE  IInv'
<1> USE ConstantsAssumption DEF ConstantsAssumption, Messages, IInv, TypeOK,
      AgentEmits, Works, Fails, LogTerminal, sessionVars, queueVars,
      managerVars, handlerVars, Sat
<1>1. TypeOK'
  <2>1. StoreTypes'
    BY DEF StoreTypes
  <2>2. ProcTypes'
    BY DEF ProcTypes
  <2>3. HandlerTypes'
    BY DEF HandlerTypes
  <2>4. LogTypes'
    BY DEF LogTypes
  <2> QED BY <2>1, <2>2, <2>3, <2>4
<1>2. RunOwnership'
  BY DEF RunOwnership
<1>3. Carrying'
  BY DEF Carrying
<1>4. OneCarrier'
  BY DEF OneCarrier
<1>5. Shape'
  BY DEF Shape
<1>6. Ledger'
  BY DEF Ledger
<1>7. Terminals'
  BY DEF ProcTypes, LogTypes, Terminals, Launched
<1> QED BY <1>1, <1>2, <1>3, <1>4, <1>5, <1>6, <1>7

\* AgentReturns preserves IInv.
LEMMA AgentReturnsStep ==
  ASSUME ConstantsAssumption, IInv, NEW p \in Procs, NEW result \in Outcomes, AgentReturns(p, result)
  PROVE  IInv'
<1> USE ConstantsAssumption DEF ConstantsAssumption, Messages, IInv, TypeOK,
      AgentReturns, Goto, sessionVars, queueVars, managerVars, handlerVars,
      logVars
<1>1. TypeOK'
  <2>1. StoreTypes'
    BY DEF StoreTypes
  <2>2. ProcTypes'
    BY DEF ProcTypes, Positions
  <2>3. HandlerTypes'
    BY DEF HandlerTypes
  <2>4. LogTypes'
    BY DEF LogTypes
  <2> QED BY <2>1, <2>2, <2>3, <2>4
<1>2. RunOwnership'
  BY DEF RunOwnership, Owning
<1>3. Carrying'
  BY DEF Carrying
<1>4. OneCarrier'
  BY DEF OneCarrier
<1>5. Shape'
  BY DEF Shape, Holding, Launched
<1>6. Ledger'
  BY DEF Ledger
<1>7. Terminals'
  BY DEF Terminals, Launched
<1> QED BY <1>1, <1>2, <1>3, <1>4, <1>5, <1>6, <1>7

\* AppendTerminal preserves IInv.
LEMMA AppendTerminalStep ==
  ASSUME ConstantsAssumption, IInv, NEW p \in Procs, AppendTerminal(p)
  PROVE  IInv'
<1> USE ConstantsAssumption DEF ConstantsAssumption, Messages, IInv, TypeOK,
      AppendTerminal, Goto, Works, Fails, LogTerminal, sessionVars, queueVars,
      managerVars, handlerVars, Sat
<1>1. TypeOK'
  <2>1. StoreTypes'
    BY DEF StoreTypes
  <2>2. ProcTypes'
    BY DEF ProcTypes, Positions, RunOutcomes
  <2>3. HandlerTypes'
    BY DEF HandlerTypes
  <2>4. LogTypes'
    BY DEF LogTypes
  <2> QED BY <2>1, <2>2, <2>3, <2>4
<1>2. RunOwnership'
  BY DEF RunOwnership, Owning
<1>3. Carrying'
  BY DEF Carrying
<1>4. OneCarrier'
  BY DEF OneCarrier
<1>5. Shape'
  BY DEF Shape, Holding, Launched
<1>6. Ledger'
  BY DEF Ledger
<1>7. Terminals'
  BY DEF ProcTypes, LogTypes, Terminals, Launched
<1> QED BY <1>1, <1>2, <1>3, <1>4, <1>5, <1>6, <1>7

\* Settle preserves IInv.
LEMMA SettleStep ==
  ASSUME ConstantsAssumption, IInv, NEW p \in Procs, Settle(p)
  PROVE  IInv'
<1> USE ConstantsAssumption DEF ConstantsAssumption, Messages, IInv, TypeOK,
      Settle, FinalStatus, Goto, Works, Fails, queueVars, managerVars,
      handlerVars, logVars
<1>1. TypeOK'
  <2>1. StoreTypes'
    BY DEF StoreTypes, SessionStatuses
  <2>2. ProcTypes'
    BY DEF ProcTypes, Positions, RunOutcomes
  <2>3. HandlerTypes'
    BY DEF HandlerTypes
  <2>4. LogTypes'
    BY DEF LogTypes
  <2> QED BY <2>1, <2>2, <2>3, <2>4
<1>2. RunOwnership'
  BY DEF RunOwnership, Owning
<1>3. Carrying'
  BY DEF Carrying
<1>4. OneCarrier'
  BY DEF OneCarrier
<1>5. Shape'
  BY DEF Shape, Holding, Launched
<1>6. Ledger'
  BY DEF Ledger
<1>7. Terminals'
  BY DEF Terminals, Launched
<1> QED BY <1>1, <1>2, <1>3, <1>4, <1>5, <1>6, <1>7

\* Cleanup preserves IInv: the owner gives the entry back, and may become a dispatcher.
LEMMA CleanupStep ==
  ASSUME ConstantsAssumption, IInv, NEW p \in Procs, Cleanup(p)
  PROVE  IInv'
<1> USE ConstantsAssumption DEF ConstantsAssumption, Messages, IInv, TypeOK,
      Cleanup, Goto, Return, DropRun, sessionVars, queueVars, handlerVars,
      logVars
<1>1. TypeOK'
  <2>1. StoreTypes'
    BY DEF StoreTypes
  <2>2. ProcTypes'
    BY DEF ProcTypes, Positions
  <2>3. HandlerTypes'
    BY DEF HandlerTypes
  <2>4. LogTypes'
    BY DEF LogTypes
  <2> QED BY <2>1, <2>2, <2>3, <2>4
<1>2. RunOwnership'
  BY DEF ProcTypes, RunOwnership, Owning
<1>3. Carrying'
  BY DEF ProcTypes, Carrying
<1>4. OneCarrier'
  BY DEF ProcTypes, OneCarrier
<1>5. Shape'
  BY DEF ProcTypes, Shape, Holding, Launched
<1>6. Ledger'
  BY DEF Ledger
<1>7. Terminals'
  BY DEF ProcTypes, Terminals, Launched
<1> QED BY <1>1, <1>2, <1>3, <1>4, <1>5, <1>6, <1>7

\* Finish preserves IInv.
LEMMA FinishStep ==
  ASSUME ConstantsAssumption, IInv, NEW p \in Procs, Finish(p)
  PROVE  IInv'
<1> USE ConstantsAssumption DEF ConstantsAssumption, Messages, IInv, TypeOK,
      Finish, Goto, Works, Fails, sessionVars, queueVars, managerVars,
      handlerVars, logVars
<1>1. TypeOK'
  <2>1. StoreTypes'
    BY DEF StoreTypes, OccStatuses
  <2>2. ProcTypes'
    BY DEF ProcTypes, Positions
  <2>3. HandlerTypes'
    BY DEF HandlerTypes
  <2>4. LogTypes'
    BY DEF LogTypes
  <2> QED BY <2>1, <2>2, <2>3, <2>4
<1>2. RunOwnership'
  BY DEF RunOwnership, Owning
<1>3. Carrying'
  BY DEF ProcTypes, Carrying
<1>4. OneCarrier'
  BY DEF OneCarrier
<1>5. Shape'
  BY DEF ProcTypes, Shape, Holding, Launched
<1>6. Ledger'
  BY DEF StoreTypes, Ledger
<1>7. Terminals'
  BY DEF ProcTypes, Terminals
<1> QED BY <1>1, <1>2, <1>3, <1>4, <1>5, <1>6, <1>7

\* RemoveQueuedMessage preserves IInv: a pending message has no carrier and no launch.
LEMMA RemoveQueuedMessageStep ==
  ASSUME ConstantsAssumption, IInv, NEW m \in Manual, RemoveQueuedMessage(m)
  PROVE  IInv'
<1> USE ConstantsAssumption DEF ConstantsAssumption, Messages, IInv, TypeOK,
      RemoveQueuedMessage, sessionVars, managerVars, procVars, handlerVars,
      logVars
<1>1. TypeOK'
  <2>1. StoreTypes'
    BY DEF StoreTypes, RowStatuses
  <2>2. ProcTypes'
    BY DEF ProcTypes
  <2>3. HandlerTypes'
    BY DEF HandlerTypes
  <2>4. LogTypes'
    BY DEF LogTypes
  <2> QED BY <2>1, <2>2, <2>3, <2>4
<1>2. RunOwnership'
  BY DEF RunOwnership
<1>3. Carrying'
  BY DEF Carrying
<1>4. OneCarrier'
  BY DEF OneCarrier
<1>5. Shape'
  BY DEF Shape
<1>6. Ledger'
  BY DEF Ledger
<1>7. Terminals'
  BY DEF Terminals
<1> QED BY <1>1, <1>2, <1>3, <1>4, <1>5, <1>6, <1>7

\* CancelOccurrence preserves IInv: as for a removed message, with its occurrence.
LEMMA CancelOccurrenceStep ==
  ASSUME ConstantsAssumption, IInv, NEW m \in Scheduled, CancelOccurrence(m)
  PROVE  IInv'
<1> USE ConstantsAssumption DEF ConstantsAssumption, Messages, IInv, TypeOK,
      CancelOccurrence, sessionVars, managerVars, procVars, handlerVars,
      logVars
<1>1. TypeOK'
  <2>1. StoreTypes'
    BY DEF StoreTypes, RowStatuses, OccStatuses
  <2>2. ProcTypes'
    BY DEF ProcTypes
  <2>3. HandlerTypes'
    BY DEF HandlerTypes
  <2>4. LogTypes'
    BY DEF LogTypes
  <2> QED BY <2>1, <2>2, <2>3, <2>4
<1>2. RunOwnership'
  BY DEF RunOwnership
<1>3. Carrying'
  BY DEF Carrying
<1>4. OneCarrier'
  BY DEF OneCarrier
<1>5. Shape'
  BY DEF Shape
<1>6. Ledger'
  BY DEF Ledger
<1>7. Terminals'
  BY DEF Terminals
<1> QED BY <1>1, <1>2, <1>3, <1>4, <1>5, <1>6, <1>7

\* PauseForArchive preserves IInv: as for a cancelled occurrence, several at once.
LEMMA PauseForArchiveStep ==
  ASSUME ConstantsAssumption, IInv, PauseForArchive
  PROVE  IInv'
<1> USE ConstantsAssumption DEF ConstantsAssumption, Messages, IInv, TypeOK,
      PauseForArchive, Withdrawable, Works, Fails, Pending, sessionVars,
      managerVars, procVars, logVars
<1>1. TypeOK'
  <2>1. StoreTypes'
    BY DEF StoreTypes, RowStatuses, OccStatuses
  <2>2. ProcTypes'
    BY DEF ProcTypes
  <2>3. HandlerTypes'
    BY DEF HandlerTypes
  <2>4. LogTypes'
    BY DEF LogTypes
  <2> QED BY <2>1, <2>2, <2>3, <2>4
<1>2. RunOwnership'
  BY DEF RunOwnership
<1>3. Carrying'
  BY DEF Carrying
<1>4. OneCarrier'
  BY DEF ProcTypes, OneCarrier
<1>5. Shape'
  BY DEF ProcTypes, Carrying, Shape, Holding, Launched
<1>6. Ledger'
  BY DEF Ledger
<1>7. Terminals'
  BY DEF Terminals
<1> QED BY <1>1, <1>2, <1>3, <1>4, <1>5, <1>6, <1>7

\* Crash preserves IInv: no goroutine, no carrier, no entry; rows and log stay.
LEMMA CrashStep ==
  ASSUME ConstantsAssumption, IInv, Crash
  PROVE  IInv'
<1> USE ConstantsAssumption DEF ConstantsAssumption, Messages, IInv, TypeOK,
      Crash, sessionVars, queueVars, logVars
<1>1. TypeOK'
  <2>1. StoreTypes'
    BY DEF StoreTypes
  <2>2. ProcTypes'
    BY DEF ProcTypes, Positions
  <2>3. HandlerTypes'
    BY DEF HandlerTypes, BootSteps
  <2>4. LogTypes'
    BY DEF LogTypes
  <2> QED BY <2>1, <2>2, <2>3, <2>4
<1>2. RunOwnership'
  BY DEF RunOwnership, Owning
<1>3. Carrying'
  BY DEF Carrying
<1>4. OneCarrier'
  BY DEF OneCarrier
<1>5. Shape'
  BY DEF Shape, Holding, Launched
<1>6. Ledger'
  BY DEF Ledger
<1>7. Terminals'
  BY DEF Terminals
<1> QED BY <1>1, <1>2, <1>3, <1>4, <1>5, <1>6, <1>7

\* Recovery of occurrences after a crash only settles running ones.
LEMMA FailInterruptedStep ==
  ASSUME ConstantsAssumption, IInv, FailInterrupted
  PROVE  IInv'
<1> USE DEF IInv, TypeOK, FailInterrupted, sessionVars, queueVars,
      managerVars, procVars, handlerVars, logVars
<1>1. TypeOK'
  BY DEF StoreTypes, ProcTypes, HandlerTypes, LogTypes, OccStatuses, BootSteps
<1>2. RunOwnership' /\ Carrying' /\ OneCarrier' /\ Shape' /\ Terminals'
  BY DEF RunOwnership, Carrying, OneCarrier, Shape, Terminals
<1>3. Ledger'
  BY DEF Ledger
<1> QED BY <1>1, <1>2, <1>3

\* The dispatcher a restarted server starts carries nothing yet.
LEMMA StartDispatchStep ==
  ASSUME ConstantsAssumption, IInv, StartDispatch
  PROVE  IInv'
<1> USE DEF IInv, TypeOK, StartDispatch, Goto, sessionVars, queueVars,
      managerVars, handlerVars, logVars
<1>1. TypeOK'
  BY DEF StoreTypes, ProcTypes, HandlerTypes, LogTypes, Positions, BootSteps
<1>2. RunOwnership'
  BY DEF RunOwnership, ProcTypes, Owning
<1>3. Carrying'
  BY DEF Carrying, ProcTypes
<1>4. OneCarrier'
  BY DEF OneCarrier
<1>5. Shape'
  BY DEF Shape, ProcTypes, Holding, Launched
<1>6. Ledger'
  BY DEF Ledger
<1>7. Terminals'
  BY DEF Terminals, ProcTypes, Launched
<1> QED BY <1>1, <1>2, <1>3, <1>4, <1>5, <1>6, <1>7

\* What neither touches a goroutine, nor a row, nor a message's history keeps
\* the invariant.
LEMMA Frame ==
  ASSUME IInv, TypeOK',
         UNCHANGED <<row, occ, active, procVars, posted, said, launches, ends>>
  PROVE  IInv'
BY DEF IInv, RunOwnership, Carrying, OneCarrier, Shape, Ledger, Terminals,
   procVars

\* The cancel, archive, restore and clear handlers and the recovery of the
\* session row are such steps.
LEMMA HandlerStep ==
  ASSUME IInv,
         \/ CancelRun \/ \E c \in Cancellers : CancelStep(c)
         \/ ArchiveRead \/ Archive \/ Restore
         \/ ClearRead \/ ClearProvider \/ ClearSettle
         \/ Recover \/ RecoverStatus
  PROVE  IInv'
<1> USE DEF IInv, TypeOK, StoreTypes, ProcTypes, HandlerTypes, LogTypes,
      SessionStatuses, sessionVars, queueVars, managerVars, procVars,
      handlerVars, logVars, Works, Fails
<1>1. CASE CancelRun
  BY <1>1, Frame DEF CancelRun
<1>2. ASSUME NEW c \in Cancellers, CancelStep(c) PROVE IInv'
  <2>1. CASE CancelRead(c)
    BY <2>1, Frame DEF CancelRead
  <2>2. CASE Cancel(c)
    BY <2>2, Frame, ZenonT(40) DEF Cancel
  <2>3. CASE RepairEvent(c)
    BY <2>3, Frame DEF RepairEvent, Sat
  <2>4. CASE RepairStatus(c)
    BY <2>4, Frame DEF RepairStatus
  <2> QED BY <1>2, <2>1, <2>2, <2>3, <2>4 DEF CancelStep
<1>3. CASE ArchiveRead
  BY <1>3, Frame DEF ArchiveRead
<1>4. CASE Archive
  <2>1. (archived \in BOOLEAN)'
    BY <1>4, Zenon DEF Archive
  <2>2. TypeOK'
    BY <1>4, <2>1 DEF Archive
  <2> QED BY <1>4, <2>2, Frame DEF Archive
<1>5. CASE Restore
  BY <1>5, Frame DEF Restore
<1>6. CASE ClearRead
  BY <1>6, Frame DEF ClearRead
<1>7. CASE ClearProvider
  BY <1>7, Frame DEF ClearProvider
<1>8. CASE ClearSettle
  BY <1>8, Frame DEF ClearSettle
<1>9. CASE Recover
  BY <1>9, Frame DEF Recover, Sat, BootSteps
<1>10. CASE RecoverStatus
  BY <1>10, Frame DEF RecoverStatus, BootSteps
<1> QED BY <1>1, <1>2, <1>3, <1>4, <1>5, <1>6, <1>7, <1>8, <1>9, <1>10

LEMMA InitInvariant ==
  ASSUME ConstantsAssumption, Init
  PROVE  IInv
<1> USE ConstantsAssumption DEF ConstantsAssumption, Messages, Init
<1>1. StoreTypes /\ LogTypes
  <2>1. archived \in BOOLEAN
    BY Zenon
  <2>2. status \in SessionStatuses /\ row \in [Messages -> RowStatuses]
    BY DEF SessionStatuses, RowStatuses
  <2>3. occ \in [Scheduled -> OccStatuses]
    BY DEF OccStatuses
  <2>4. seq \in [Messages -> Nat] /\ lastSeq \in Nat /\ LogTypes
    BY DEF LogTypes
  <2> QED BY <2>1, <2>2, <2>3, <2>4 DEF StoreTypes
<1>2. ProcTypes
  BY DEF ProcTypes, Positions
<1>3. HandlerTypes
  BY DEF HandlerTypes, BootSteps
<1>4. RunOwnership /\ Carrying
  BY DEF RunOwnership, Carrying, Owning
<1>5. OneCarrier /\ Ledger
  BY DEF OneCarrier, Ledger
<1>6. Shape /\ Terminals
  BY DEF Shape, Terminals, Holding, Launched
<1> QED BY <1>1, <1>2, <1>3, <1>4, <1>5, <1>6 DEF IInv, TypeOK

LEMMA NextInvariant ==
  ASSUME ConstantsAssumption, IInv, [Next]_vars
  PROVE  IInv'
<1> USE ConstantsAssumption
<1>1. ASSUME NEW p \in Procs, NEW m \in Messages, Post(p, m) \/ Fire(p, m)
      PROVE  IInv'
  BY <1>1, PostStep, FireStep
<1>2. ASSUME NEW p \in Procs, ProcStep(p) PROVE IInv'
  BY <1>2, EnqueueStep, MaterializeStep, ClaimStep, LoadStep, RegisterStep,
     AppendUserMessageStep, SetRunningStep, AnnounceStep, MarkSentStep,
     MarkRunningStep, UndoStep, ReleaseStep, AppendTerminalStep, SettleStep,
     CleanupStep, FinishStep DEF ProcStep
<1>3. ASSUME NEW p \in Procs, AgentStep(p) PROVE IInv'
  BY <1>3, AgentEmitsStep, AgentReturnsStep DEF AgentStep
<1>4. ASSUME NEW m \in Manual, RemoveQueuedMessage(m) PROVE IInv'
  BY <1>4, RemoveQueuedMessageStep
<1>5. ASSUME NEW m \in Scheduled, CancelOccurrence(m) PROVE IInv'
  BY <1>5, CancelOccurrenceStep
<1>6. ASSUME CancelRun \/ \E c \in Cancellers : CancelStep(c) PROVE IInv'
  BY <1>6, HandlerStep
<1>7. CASE AdminStep
  BY <1>7, HandlerStep, PauseForArchiveStep DEF AdminStep
<1>8. CASE Crash
  BY <1>8, CrashStep
<1>9. CASE BootStep
  BY <1>9, HandlerStep, FailInterruptedStep, StartDispatchStep DEF BootStep
<1>10. CASE UNCHANGED vars
  BY <1>10, Frame DEF vars, IInv, TypeOK, StoreTypes, ProcTypes, HandlerTypes,
     LogTypes, procVars
<1> QED BY <1>1, <1>2, <1>3, <1>4, <1>5, <1>6, <1>7, <1>8, <1>9, <1>10 DEF
      Next

\* The inductive invariant holds in every reachable state.
THEOREM Invariance == ASSUME ConstantsAssumption PROVE Spec => []IInv
<1>1. Init => IInv
  BY InitInvariant
<1>2. IInv /\ [Next]_vars => IInv'
  BY NextInvariant
<1> QED BY <1>1, <1>2, PTL DEF Spec

\* Type correctness.
THEOREM TypeCorrect == ASSUME ConstantsAssumption PROVE Spec => []TypeOK
<1>1. IInv => TypeOK
  BY DEF IInv
<1> QED BY <1>1, Invariance, PTL

\* One goroutine at most owns the manager's entry, and it is the one that is
\* launching, running or finishing a run.
THEOREM OneRunAtATime == ASSUME ConstantsAssumption PROVE Spec => []RunOwnership
<1>1. IInv => RunOwnership
  BY DEF IInv
<1> QED BY <1>1, Invariance, PTL

\* No message is handed to an agent twice, under any interleaving of
\* dispatchers, any failed writes and any crashes.
THEOREM AtMostOneLaunch == ASSUME ConstantsAssumption PROVE Spec => []NoDuplicateRun
<1>1. IInv => NoDuplicateRun
  BY DEF IInv, Ledger, NoDuplicateRun
<1> QED BY <1>1, Invariance, PTL

\* A claimed row has one holder and is "sending".
THEOREM ClaimsAreExclusive == ASSUME ConstantsAssumption PROVE Spec => []ClaimsExclusive
<1>1. IInv => ClaimsExclusive
  BY DEF IInv, OneCarrier, Shape, ClaimsExclusive, Queued
<1> QED BY <1>1, Invariance, PTL

\* A withdrawn message has not been launched and is carried by nobody.
THEOREM WithdrawnStaysOut ==
  ASSUME ConstantsAssumption PROVE Spec => []WithdrawnNeverRuns
<1>1. ASSUME ConstantsAssumption, IInv PROVE WithdrawnNeverRuns
  <2>1. ASSUME NEW m \in Messages, row[m] = "removed", NEW p \in Procs
        PROVE  msg[p] # m
    BY <1>1, <2>1 DEF IInv, OneCarrier
  <2> QED BY <1>1, <2>1 DEF IInv, Ledger, WithdrawnNeverRuns
<1> QED BY <1>1, Invariance, PTL

\* What an agent is given has been persisted as a user message.
THEOREM UserMessageFirst ==
  ASSUME ConstantsAssumption PROVE Spec => []PersistedBeforeRun
<1>1. IInv => PersistedBeforeRun
  BY DEF IInv, TypeOK, LogTypes, Ledger, PersistedBeforeRun
<1> QED BY <1>1, Invariance, PTL

\* A run appends at most one terminal event of its own, whatever its agent
\* emits and returns.
THEOREM AtMostOneTerminal ==
  ASSUME ConstantsAssumption PROVE Spec => []OneTerminalPerRun
<1>1. IInv => OneTerminalPerRun
  BY DEF IInv, Terminals, OneTerminalPerRun
<1> QED BY <1>1, Invariance, PTL

\* Work is exclusive: one run in the session, one holder of a claimed message,
\* none of a withdrawn one.
THEOREM WorkIsExclusive ==
  ASSUME ConstantsAssumption PROVE Spec => []ExclusiveWork
<1>1. RunOwnership /\ ClaimsExclusive /\ WithdrawnNeverRuns => ExclusiveWork
  BY DEF ExclusiveWork
<1> QED BY <1>1, OneRunAtATime, ClaimsAreExclusive, WithdrawnStaysOut, PTL

\* Nothing happens twice: launches, and a run's own terminal events; and what an
\* agent is given is on record.
THEOREM NothingTwice ==
  ASSUME ConstantsAssumption PROVE Spec => []AtMostOnce
<1>1. NoDuplicateRun /\ PersistedBeforeRun /\ OneTerminalPerRun => AtMostOnce
  BY DEF AtMostOnce
<1> QED BY <1>1, AtMostOneLaunch, UserMessageFirst, AtMostOneTerminal, PTL

\* A row that is sent or removed and an occurrence that has finished are never
\* changed again: the rows a goroutine writes are the ones it carries.
THEOREM SettledForGood == ASSUME ConstantsAssumption PROVE Spec => Settled
<1> DEFINE Kept ==
      /\ \A m \in Messages : row[m] \in {"sent", "removed"} => row'[m] = row[m]
      /\ \A m \in Scheduled :
           occ[m] \in {"completed", "failed", "cancelled"} => occ'[m] = occ[m]
<1>1. ASSUME ConstantsAssumption, IInv, [Next]_vars PROVE Kept
  <2> USE <1>1 DEF ConstantsAssumption, Messages, IInv, TypeOK, StoreTypes,
        ProcTypes, Works, Fails
  <2>1. CASE UNCHANGED <<row, occ>>
    BY <2>1
  <2>2. ASSUME NEW p \in Procs, ProcStep(p) PROVE Kept
    <3> DEFINE Carried == {"enqueue", "materialize", "mark", "release",
                           "occurrence", "finish"}
    <3>0. pc[p] \in Carried => msg[p] \in Messages
      BY DEF Carrying
    <3>1. CASE Enqueue(p)
      <4>1. row[msg[p]] = "none"
        BY <3>1 DEF Enqueue, Shape
      <4> QED BY <3>0, <3>1, <4>1 DEF Enqueue, queueVars
    <3>2. CASE Materialize(p)
      <4>1. msg[p] \in Scheduled /\ row[msg[p]] = "none" /\ occ[msg[p]] = "none"
        BY <3>2 DEF Materialize, Shape, Ledger
      <4> QED BY <3>2, <4>1 DEF Materialize, queueVars
    <3>3. CASE Claim(p)
      <4>1. \/ row' = row /\ occ' = occ
            \/ occ' = occ /\ \E m \in Messages :
                 row[m] = "pending" /\ row' = [row EXCEPT ![m] = "sending"]
        BY <3>3 DEF Claim, NextToClaim, Pending
      <4> QED BY <4>1
    <3>4. CASE MarkSent(p)
      <4>1. row[msg[p]] = "sending"
        BY <3>4 DEF MarkSent, Shape
      <4> QED BY <3>0, <3>4, <4>1 DEF MarkSent
    <3>5. CASE Release(p)
      <4>1. row[msg[p]] = "sending"
        BY <3>5 DEF Release, Shape
      <4> QED BY <3>0, <3>5, <4>1 DEF Release
    <3>6. CASE MarkRunning(p) \/ Finish(p)
      <4>1. msg[p] \in Scheduled
        BY <3>6 DEF MarkRunning, Finish, Shape
      <4> QED BY <3>6, <4>1 DEF MarkRunning, Finish, queueVars
    <3>7. CASE \/ Load(p) \/ Register(p) \/ AppendUserMessage(p) \/ SetRunning(p)
               \/ Announce(p) \/ Undo(p) \/ AppendTerminal(p) \/ Settle(p)
               \/ Cleanup(p)
      BY <3>7, <2>1 DEF Load, Register, AppendUserMessage, SetRunning,
         Announce, Undo, AppendTerminal, Settle, Cleanup, queueVars
    <3> QED BY <2>2, <3>1, <3>2, <3>3, <3>4, <3>5, <3>6, <3>7 DEF ProcStep
  <2>3. ASSUME NEW p \in Procs, AgentStep(p) PROVE Kept
    BY <2>3, <2>1 DEF AgentStep, AgentEmits, AgentReturns, queueVars
  <2>4. ASSUME NEW p \in Procs, NEW m \in Messages, Post(p, m) \/ Fire(p, m)
        PROVE  Kept
    BY <2>4, <2>1 DEF Post, Fire, queueVars
  <2>5. ASSUME NEW m \in Messages, RemoveQueuedMessage(m) PROVE Kept
    BY <2>5 DEF RemoveQueuedMessage
  <2>6. ASSUME NEW m \in Scheduled, CancelOccurrence(m) PROVE Kept
    BY <2>6 DEF CancelOccurrence
  <2>7. CASE CancelRun \/ \E c \in Cancellers : CancelStep(c)
    BY <2>7, <2>1 DEF CancelRun, CancelStep, CancelRead, Cancel, RepairEvent,
       RepairStatus, queueVars
  <2>8. CASE PauseForArchive
    BY <2>8 DEF PauseForArchive, Withdrawable, Pending
  <2>9. CASE AdminStep /\ ~PauseForArchive
    BY <2>9, <2>1 DEF AdminStep, ArchiveRead, Archive, Restore, ClearRead,
       ClearProvider, ClearSettle, queueVars
  <2>10. CASE FailInterrupted
    BY <2>10 DEF FailInterrupted, queueVars
  <2>11. CASE Crash \/ Recover \/ RecoverStatus \/ StartDispatch
    BY <2>11, <2>1 DEF Crash, Recover, RecoverStatus, StartDispatch, queueVars
  <2>12. CASE UNCHANGED vars
    BY <2>12, <2>1 DEF vars
  <2> QED BY <1>1, <2>2, <2>3, <2>4, <2>5, <2>6, <2>7, <2>8, <2>9, <2>10,
        <2>11, <2>12 DEF Next, BootStep
<1> QED BY <1>1, Invariance, PTL DEF Spec, Settled

\* The manager's entry passes from one run to the next only through being
\* free, and a cancellation is not lost while its run is registered.
THEOREM CancellationIsKept ==
  ASSUME ConstantsAssumption PROVE Spec => CancellationStays
<1> DEFINE Kept == active # NoProc =>
      /\ active' \in {active, NoProc}
      /\ cancelled /\ active' = active => cancelled'
<1>1. ASSUME ConstantsAssumption, [Next]_vars PROVE Kept
  <2> USE ConstantsAssumption
  <2>1. CASE UNCHANGED managerVars
    BY <2>1 DEF managerVars
  <2>2. ASSUME NEW p \in Procs, ProcStep(p) PROVE Kept
    <3>1. CASE Undo(p) \/ Cleanup(p)
      BY <3>1 DEF Undo, Cleanup, DropRun
    <3>2. CASE Register(p)
      BY <3>2 DEF Register, Busy, managerVars
    <3>3. CASE ~Undo(p) /\ ~Cleanup(p) /\ ~Register(p)
      BY <2>2, <3>3, <2>1 DEF ProcStep, Enqueue, Materialize, Claim, Load,
         AppendUserMessage, SetRunning, Announce, MarkSent, MarkRunning,
         Release, AppendTerminal, Settle, Finish
    <3> QED BY <3>1, <3>2, <3>3
  <2>3. ASSUME NEW p \in Procs,
               AgentStep(p) \/ \E m \in Messages : Post(p, m) \/ Fire(p, m)
        PROVE  Kept
    BY <2>3, <2>1 DEF AgentStep, AgentEmits, AgentReturns, Post, Fire
  <2>4. ASSUME NEW m, RemoveQueuedMessage(m) \/ CancelOccurrence(m) PROVE Kept
    BY <2>4, <2>1 DEF RemoveQueuedMessage, CancelOccurrence
  <2>5. CASE CancelRun
    BY <2>5 DEF CancelRun
  <2>6. ASSUME NEW c \in Cancellers, CancelStep(c) PROVE Kept
    <3>1. CASE Cancel(c)
      BY <3>1 DEF Cancel
    <3> QED BY <2>6, <3>1, <2>1 DEF CancelStep, CancelRead, RepairEvent,
          RepairStatus
  <2>7. CASE AdminStep
    BY <2>7, <2>1 DEF AdminStep, ArchiveRead, PauseForArchive, Archive,
       Restore, ClearRead, ClearProvider, ClearSettle
  <2>8. CASE Crash
    BY <2>8 DEF Crash
  <2>9. CASE BootStep
    BY <2>9, <2>1 DEF BootStep, Recover, RecoverStatus, FailInterrupted,
       StartDispatch
  <2>10. CASE UNCHANGED vars
    BY <2>10, <2>1 DEF vars
  <2> QED BY <1>1, <2>2, <2>3, <2>4, <2>5, <2>6, <2>7, <2>8, <2>9, <2>10 DEF
        Next
<1> QED BY <1>1, PTL DEF Spec, CancellationStays
-----------------------------------------------------------------------------
(* What holds as long as no write fails: IInv needs company.  Each part of *)
(* SteadyInv is kept by every step, given IInv, Startup and itself.        *)


\* A message is said by the one goroutine that carries it, once its row is no
\* longer pending; the launches that are taken back come before that append.
LEMMA UnsaidKept ==
  ASSUME ConstantsAssumption, IInv, Startup, Unsaid, [Next]_vars
  PROVE  Unsaid'
<1> USE ConstantsAssumption DEF ConstantsAssumption, Messages, IInv, TypeOK,
      StoreTypes, ProcTypes, LogTypes, Startup, Unsaid, Works, Fails, Goto, Return
<1>1. ASSUME NEW p \in Procs, Enqueue(p) PROVE Unsaid'
  BY <1>1 DEF Enqueue, queueVars, logVars
<1>2. ASSUME NEW p \in Procs, Materialize(p) PROVE Unsaid'
  BY <1>2 DEF Materialize, logVars
<1>3. ASSUME NEW p \in Procs, Claim(p) PROVE Unsaid'
  BY <1>3 DEF Claim, Pending, NextToClaim, logVars
<1>4. ASSUME NEW p \in Procs, Load(p) PROVE Unsaid'
  BY <1>4 DEF Load, queueVars, logVars
<1>5. ASSUME NEW p \in Procs, Register(p) PROVE Unsaid'
  BY <1>5 DEF Register, queueVars, logVars
<1>6. ASSUME NEW p \in Procs, AppendUserMessage(p) PROVE Unsaid'
  BY <1>6 DEF AppendUserMessage, OneCarrier, Carrying, Sat, queueVars
<1>7. ASSUME NEW p \in Procs, SetRunning(p) PROVE Unsaid'
  BY <1>7 DEF SetRunning, queueVars, logVars
<1>8. ASSUME NEW p \in Procs, Announce(p) PROVE Unsaid'
  BY <1>8 DEF Announce, queueVars
<1>9. ASSUME NEW p \in Procs, MarkSent(p) PROVE Unsaid'
  BY <1>9 DEF MarkSent, Shape
<1>10. ASSUME NEW p \in Procs, MarkRunning(p) PROVE Unsaid'
  BY <1>10 DEF MarkRunning, queueVars, logVars
<1>11. ASSUME NEW p \in Procs, Undo(p) PROVE Unsaid'
  BY <1>11 DEF Undo
<1>12. ASSUME NEW p \in Procs, Release(p) PROVE Unsaid'
  BY <1>12 DEF Release, logVars
<1>13. ASSUME NEW p \in Procs, AppendTerminal(p) PROVE Unsaid'
  BY <1>13 DEF AppendTerminal, queueVars
<1>14. ASSUME NEW p \in Procs, Settle(p) PROVE Unsaid'
  BY <1>14 DEF Settle, queueVars, logVars
<1>15. ASSUME NEW p \in Procs, Cleanup(p) PROVE Unsaid'
  BY <1>15 DEF Cleanup, queueVars, logVars
<1>16. ASSUME NEW p \in Procs, Finish(p) PROVE Unsaid'
  BY <1>16 DEF Finish, queueVars, logVars
<1>17. ASSUME NEW p \in Procs, AgentStep(p) PROVE Unsaid'
  BY <1>17 DEF AgentStep, AgentEmits, AgentReturns, queueVars, logVars
<1>18. ASSUME NEW p \in Procs, NEW m \in Messages, Post(p, m) PROVE Unsaid'
  BY <1>18 DEF Post, queueVars, logVars
<1>19. ASSUME NEW p \in Procs, NEW m \in Messages, Fire(p, m) PROVE Unsaid'
  BY <1>19 DEF Fire, queueVars, logVars
<1>20. ASSUME NEW m \in Messages, RemoveQueuedMessage(m) PROVE Unsaid'
  BY <1>20 DEF RemoveQueuedMessage, procVars, logVars
<1>21. ASSUME NEW m \in Messages, CancelOccurrence(m) PROVE Unsaid'
  BY <1>21 DEF CancelOccurrence, procVars, logVars
<1>22. CASE CancelRun \/ \E c \in Cancellers : CancelStep(c)
  BY <1>22 DEF CancelRun, CancelStep, CancelRead, Cancel, RepairEvent,
     RepairStatus, queueVars, procVars, logVars
<1>23. CASE PauseForArchive
  BY <1>23 DEF PauseForArchive, procVars, logVars
<1>24. CASE AdminStep /\ ~PauseForArchive
  BY <1>24 DEF AdminStep, ArchiveRead, Archive, Restore, ClearRead,
     ClearProvider, ClearSettle, queueVars, procVars, logVars
<1>25. CASE Crash
  BY <1>25 DEF Crash, queueVars, logVars
<1>26. CASE Recover
  BY <1>26 DEF Recover, queueVars, procVars
<1>27. CASE RecoverStatus
  BY <1>27 DEF RecoverStatus, queueVars, procVars, logVars
<1>28. CASE FailInterrupted
  BY <1>28 DEF FailInterrupted, queueVars, procVars, logVars
<1>29. CASE StartDispatch
  BY <1>29 DEF StartDispatch, queueVars, logVars
<1>30. CASE UNCHANGED vars
  BY <1>30 DEF vars
<1> QED BY <1>1, <1>2, <1>3, <1>4, <1>5, <1>6, <1>7, <1>8, <1>9, <1>10, <1>11,
      <1>12, <1>13, <1>14, <1>15, <1>16, <1>17, <1>18, <1>19, <1>20, <1>21,
      <1>22, <1>23, <1>24, <1>25, <1>26, <1>27, <1>28, <1>29, <1>30 DEF Next,
      ProcStep, BootStep

\* A run that sets its session running goes on until it has settled it; a
\* handler's repair settles it too, and a restart recovers what was running.
LEMMA SettleKept ==
  ASSUME ConstantsAssumption, IInv, Startup, RunningWillSettle, [Next]_vars
  PROVE  RunningWillSettle'
<1> USE ConstantsAssumption DEF ConstantsAssumption, Messages, IInv, TypeOK,
      StoreTypes, ProcTypes, LogTypes, Startup, RunningWillSettle, Works, Fails, Goto, Return
<1>1. ASSUME NEW p \in Procs, Enqueue(p) PROVE RunningWillSettle'
  BY <1>1 DEF Enqueue, sessionVars
<1>2. ASSUME NEW p \in Procs, Materialize(p) PROVE RunningWillSettle'
  BY <1>2 DEF Materialize, sessionVars
<1>3. ASSUME NEW p \in Procs, Claim(p) PROVE RunningWillSettle'
  BY <1>3 DEF Claim, sessionVars
<1>4. ASSUME NEW p \in Procs, Load(p) PROVE RunningWillSettle'
  BY <1>4 DEF Load, sessionVars
<1>5. ASSUME NEW p \in Procs, Register(p) PROVE RunningWillSettle'
  BY <1>5 DEF Register, sessionVars
<1>6. ASSUME NEW p \in Procs, AppendUserMessage(p) PROVE RunningWillSettle'
  BY <1>6 DEF AppendUserMessage, sessionVars
<1>7. ASSUME NEW p \in Procs, SetRunning(p) PROVE RunningWillSettle'
  BY <1>7 DEF SetRunning
<1>8. ASSUME NEW p \in Procs, Announce(p) PROVE RunningWillSettle'
  BY <1>8 DEF Announce
<1>9. ASSUME NEW p \in Procs, MarkSent(p) PROVE RunningWillSettle'
  BY <1>9 DEF MarkSent, Shape
<1>10. ASSUME NEW p \in Procs, MarkRunning(p) PROVE RunningWillSettle'
  BY <1>10 DEF MarkRunning
<1>11. ASSUME NEW p \in Procs, Undo(p) PROVE RunningWillSettle'
  BY <1>11 DEF Undo, sessionVars
<1>12. ASSUME NEW p \in Procs, Release(p) PROVE RunningWillSettle'
  BY <1>12 DEF Release, sessionVars
<1>13. ASSUME NEW p \in Procs, AppendTerminal(p) PROVE RunningWillSettle'
  BY <1>13 DEF AppendTerminal
<1>14. ASSUME NEW p \in Procs, Settle(p) PROVE RunningWillSettle'
  BY <1>14 DEF Settle, FinalStatus
<1>15. ASSUME NEW p \in Procs, Cleanup(p) PROVE RunningWillSettle'
  BY <1>15 DEF Cleanup, sessionVars
<1>16. ASSUME NEW p \in Procs, Finish(p) PROVE RunningWillSettle'
  BY <1>16 DEF Finish, sessionVars
<1>17. ASSUME NEW p \in Procs, AgentStep(p) PROVE RunningWillSettle'
  BY <1>17 DEF AgentStep, AgentEmits, AgentReturns
<1>18. ASSUME NEW p \in Procs, NEW m \in Messages, Post(p, m)
       PROVE  RunningWillSettle'
  BY <1>18 DEF Post, sessionVars
<1>19. ASSUME NEW p \in Procs, NEW m \in Messages, Fire(p, m)
       PROVE  RunningWillSettle'
  BY <1>19 DEF Fire, sessionVars
<1>20. ASSUME NEW m \in Messages, RemoveQueuedMessage(m)
       PROVE  RunningWillSettle'
  BY <1>20 DEF RemoveQueuedMessage, sessionVars, procVars
<1>21. ASSUME NEW m \in Messages, CancelOccurrence(m) PROVE RunningWillSettle'
  BY <1>21 DEF CancelOccurrence, sessionVars, procVars
<1>22. CASE CancelRun \/ \E c \in Cancellers : CancelStep(c)
  BY <1>22 DEF CancelRun, CancelStep, CancelRead, Cancel, RepairEvent,
     RepairStatus, sessionVars, procVars
<1>23. CASE PauseForArchive
  BY <1>23 DEF PauseForArchive, sessionVars, procVars
<1>24. CASE AdminStep /\ ~PauseForArchive
  BY <1>24 DEF AdminStep, ArchiveRead, Archive, Restore, ClearRead,
     ClearProvider, ClearSettle, sessionVars, procVars
<1>25. CASE Crash
  BY <1>25 DEF Crash
<1>26. CASE Recover
  BY <1>26 DEF Recover, sessionVars
<1>27. CASE RecoverStatus
  BY <1>27 DEF RecoverStatus
<1>28. CASE FailInterrupted
  BY <1>28 DEF FailInterrupted, sessionVars
<1>29. CASE StartDispatch
  BY <1>29 DEF StartDispatch, sessionVars
<1>30. CASE UNCHANGED vars
  BY <1>30 DEF vars
<1> QED BY <1>1, <1>2, <1>3, <1>4, <1>5, <1>6, <1>7, <1>8, <1>9, <1>10, <1>11,
      <1>12, <1>13, <1>14, <1>15, <1>16, <1>17, <1>18, <1>19, <1>20, <1>21,
      <1>22, <1>23, <1>24, <1>25, <1>26, <1>27, <1>28, <1>29, <1>30 DEF Next,
      ProcStep, BootStep

\* An occurrence is set running by the run it belongs to, which reports it at
\* the end; a restart fails the occurrences it finds running.
LEMMA ReportKept ==
  ASSUME ConstantsAssumption, IInv, Startup, RunningWillReport, [Next]_vars
  PROVE  RunningWillReport'
<1> USE ConstantsAssumption DEF ConstantsAssumption, Messages, IInv, TypeOK,
      StoreTypes, ProcTypes, LogTypes, Startup, RunningWillReport, Works, Fails, Goto, Return
<1>1. ASSUME NEW p \in Procs, Enqueue(p) PROVE RunningWillReport'
  BY <1>1 DEF Enqueue, Launched
<1>2. ASSUME NEW p \in Procs, Materialize(p) PROVE RunningWillReport'
  BY <1>2 DEF Materialize
<1>3. ASSUME NEW p \in Procs, Claim(p) PROVE RunningWillReport'
  BY <1>3 DEF Claim, Launched
<1>4. ASSUME NEW p \in Procs, Load(p) PROVE RunningWillReport'
  BY <1>4 DEF Load, Launched
<1>5. ASSUME NEW p \in Procs, Register(p) PROVE RunningWillReport'
  BY <1>5 DEF Register, Launched
<1>6. ASSUME NEW p \in Procs, AppendUserMessage(p) PROVE RunningWillReport'
  BY <1>6 DEF AppendUserMessage, Launched
<1>7. ASSUME NEW p \in Procs, SetRunning(p) PROVE RunningWillReport'
  BY <1>7 DEF SetRunning, Launched
<1>8. ASSUME NEW p \in Procs, Announce(p) PROVE RunningWillReport'
  BY <1>8 DEF Announce, Launched
<1>9. ASSUME NEW p \in Procs, MarkSent(p) PROVE RunningWillReport'
  BY <1>9 DEF MarkSent, Launched
<1>10. ASSUME NEW p \in Procs, MarkRunning(p) PROVE RunningWillReport'
  BY <1>10 DEF MarkRunning, Launched
<1>11. ASSUME NEW p \in Procs, Undo(p) PROVE RunningWillReport'
  BY <1>11 DEF Undo, Launched
<1>12. ASSUME NEW p \in Procs, Release(p) PROVE RunningWillReport'
  BY <1>12 DEF Release, Launched
<1>13. ASSUME NEW p \in Procs, AppendTerminal(p) PROVE RunningWillReport'
  BY <1>13 DEF AppendTerminal, Launched
<1>14. ASSUME NEW p \in Procs, Settle(p) PROVE RunningWillReport'
  BY <1>14 DEF Settle, Launched
<1>15. ASSUME NEW p \in Procs, Cleanup(p) PROVE RunningWillReport'
  BY <1>15 DEF Cleanup, Launched
<1>16. ASSUME NEW p \in Procs, Finish(p) PROVE RunningWillReport'
  BY <1>16 DEF Finish
<1>17. ASSUME NEW p \in Procs, AgentStep(p) PROVE RunningWillReport'
  BY <1>17 DEF AgentStep, AgentEmits, AgentReturns, Launched
<1>18. ASSUME NEW p \in Procs, NEW m \in Messages, Post(p, m)
       PROVE  RunningWillReport'
  BY <1>18 DEF Post, Launched
<1>19. ASSUME NEW p \in Procs, NEW m \in Messages, Fire(p, m)
       PROVE  RunningWillReport'
  BY <1>19 DEF Fire, Launched
<1>20. ASSUME NEW m \in Messages, RemoveQueuedMessage(m)
       PROVE  RunningWillReport'
  BY <1>20 DEF RemoveQueuedMessage, procVars
<1>21. ASSUME NEW m \in Messages, CancelOccurrence(m) PROVE RunningWillReport'
  BY <1>21 DEF CancelOccurrence, procVars
<1>22. CASE CancelRun \/ \E c \in Cancellers : CancelStep(c)
  BY <1>22 DEF CancelRun, CancelStep, CancelRead, Cancel, RepairEvent,
     RepairStatus, procVars
<1>23. CASE PauseForArchive
  BY <1>23 DEF PauseForArchive, procVars
<1>24. CASE AdminStep /\ ~PauseForArchive
  BY <1>24 DEF AdminStep, ArchiveRead, Archive, Restore, ClearRead,
     ClearProvider, ClearSettle, procVars
<1>25. CASE Crash
  BY <1>25 DEF Crash
<1>26. CASE Recover
  BY <1>26 DEF Recover
<1>27. CASE RecoverStatus
  BY <1>27 DEF RecoverStatus
<1>28. CASE FailInterrupted
  BY <1>28 DEF FailInterrupted
<1>29. CASE StartDispatch
  BY <1>29 DEF StartDispatch, Carrying
<1>30. CASE UNCHANGED vars
  BY <1>30 DEF vars
<1> QED BY <1>1, <1>2, <1>3, <1>4, <1>5, <1>6, <1>7, <1>8, <1>9, <1>10, <1>11,
      <1>12, <1>13, <1>14, <1>15, <1>16, <1>17, <1>18, <1>19, <1>20, <1>21,
      <1>22, <1>23, <1>24, <1>25, <1>26, <1>27, <1>28, <1>29, <1>30 DEF Next,
      ProcStep, BootStep

\* A queued occurrence has a pending row, or the run that is launching it will
\* mark it; what is withdrawn takes its occurrence along.
LEMMA QueuedKept ==
  ASSUME ConstantsAssumption, IInv, Startup, QueuedOccurrenceLive, [Next]_vars
  PROVE  QueuedOccurrenceLive'
<1> USE ConstantsAssumption DEF ConstantsAssumption, Messages, IInv, TypeOK,
      StoreTypes, ProcTypes, LogTypes, Startup, QueuedOccurrenceLive, Works, Fails, Goto, Return
<1>1. ASSUME NEW p \in Procs, Enqueue(p) PROVE QueuedOccurrenceLive'
  BY <1>1 DEF Enqueue, queueVars
<1>2. ASSUME NEW p \in Procs, Materialize(p) PROVE QueuedOccurrenceLive'
  BY <1>2 DEF Materialize
<1>3. ASSUME NEW p \in Procs, Claim(p) PROVE QueuedOccurrenceLive'
  BY <1>3 DEF Claim
<1>4. ASSUME NEW p \in Procs, Load(p) PROVE QueuedOccurrenceLive'
  BY <1>4 DEF Load, queueVars
<1>5. ASSUME NEW p \in Procs, Register(p) PROVE QueuedOccurrenceLive'
  BY <1>5 DEF Register, queueVars
<1>6. ASSUME NEW p \in Procs, AppendUserMessage(p) PROVE QueuedOccurrenceLive'
  BY <1>6 DEF AppendUserMessage, queueVars
<1>7. ASSUME NEW p \in Procs, SetRunning(p) PROVE QueuedOccurrenceLive'
  BY <1>7 DEF SetRunning, queueVars
<1>8. ASSUME NEW p \in Procs, Announce(p) PROVE QueuedOccurrenceLive'
  BY <1>8 DEF Announce, queueVars
<1>9. ASSUME NEW p \in Procs, MarkSent(p) PROVE QueuedOccurrenceLive'
  BY <1>9 DEF MarkSent
<1>10. ASSUME NEW p \in Procs, MarkRunning(p) PROVE QueuedOccurrenceLive'
  BY <1>10 DEF MarkRunning, queueVars
<1>11. ASSUME NEW p \in Procs, Undo(p) PROVE QueuedOccurrenceLive'
  BY <1>11 DEF Undo, queueVars
<1>12. ASSUME NEW p \in Procs, Release(p) PROVE QueuedOccurrenceLive'
  BY <1>12 DEF Release
<1>13. ASSUME NEW p \in Procs, AppendTerminal(p) PROVE QueuedOccurrenceLive'
  BY <1>13 DEF AppendTerminal, queueVars
<1>14. ASSUME NEW p \in Procs, Settle(p) PROVE QueuedOccurrenceLive'
  BY <1>14 DEF Settle, queueVars
<1>15. ASSUME NEW p \in Procs, Cleanup(p) PROVE QueuedOccurrenceLive'
  BY <1>15 DEF Cleanup, queueVars
<1>16. ASSUME NEW p \in Procs, Finish(p) PROVE QueuedOccurrenceLive'
  BY <1>16 DEF Finish, queueVars
<1>17. ASSUME NEW p \in Procs, AgentStep(p) PROVE QueuedOccurrenceLive'
  BY <1>17 DEF AgentStep, AgentEmits, AgentReturns, queueVars
<1>18. ASSUME NEW p \in Procs, NEW m \in Messages, Post(p, m)
       PROVE  QueuedOccurrenceLive'
  BY <1>18 DEF Post, queueVars
<1>19. ASSUME NEW p \in Procs, NEW m \in Messages, Fire(p, m)
       PROVE  QueuedOccurrenceLive'
  BY <1>19 DEF Fire, queueVars
<1>20. ASSUME NEW m \in Messages, RemoveQueuedMessage(m)
       PROVE  QueuedOccurrenceLive'
  BY <1>20 DEF RemoveQueuedMessage, procVars
<1>21. ASSUME NEW m \in Messages, CancelOccurrence(m)
       PROVE  QueuedOccurrenceLive'
  BY <1>21 DEF CancelOccurrence, procVars
<1>22. CASE CancelRun \/ \E c \in Cancellers : CancelStep(c)
  BY <1>22 DEF CancelRun, CancelStep, CancelRead, Cancel, RepairEvent,
     RepairStatus, queueVars, procVars
<1>23. CASE PauseForArchive
  BY <1>23 DEF PauseForArchive, procVars
<1>24. CASE AdminStep /\ ~PauseForArchive
  BY <1>24 DEF AdminStep, ArchiveRead, Archive, Restore, ClearRead,
     ClearProvider, ClearSettle, queueVars, procVars
<1>25. CASE Crash
  BY <1>25 DEF Crash
<1>26. CASE Recover
  BY <1>26 DEF Recover
<1>27. CASE RecoverStatus
  BY <1>27 DEF RecoverStatus
<1>28. CASE FailInterrupted
  BY <1>28 DEF FailInterrupted
<1>29. CASE StartDispatch
  BY <1>29 DEF StartDispatch
<1>30. CASE UNCHANGED vars
  BY <1>30 DEF vars
<1> QED BY <1>1, <1>2, <1>3, <1>4, <1>5, <1>6, <1>7, <1>8, <1>9, <1>10, <1>11,
      <1>12, <1>13, <1>14, <1>15, <1>16, <1>17, <1>18, <1>19, <1>20, <1>21,
      <1>22, <1>23, <1>24, <1>25, <1>26, <1>27, <1>28, <1>29, <1>30 DEF Next,
      ProcStep, BootStep

\* A row is "sending" only while the goroutine that claimed it is launching it
\* or giving it back.
LEMMA SendingKept ==
  ASSUME ConstantsAssumption, IInv, Startup, SendingHeld, [Next]_vars
  PROVE  SendingHeld'
<1> USE ConstantsAssumption DEF ConstantsAssumption, Messages, IInv, TypeOK,
      StoreTypes, ProcTypes, LogTypes, Startup, SendingHeld, Works, Fails, Goto, Return
<1>1. ASSUME NEW p \in Procs, Enqueue(p) PROVE SendingHeld'
  BY <1>1 DEF Enqueue, Holding, queueVars
<1>2. ASSUME NEW p \in Procs, Materialize(p) PROVE SendingHeld'
  BY <1>2 DEF Materialize
<1>3. ASSUME NEW p \in Procs, Claim(p) PROVE SendingHeld'
  BY <1>3 DEF Claim, Holding
<1>4. ASSUME NEW p \in Procs, Load(p) PROVE SendingHeld'
  BY <1>4 DEF Load, Holding, queueVars
<1>5. ASSUME NEW p \in Procs, Register(p) PROVE SendingHeld'
  BY <1>5 DEF Register, Holding, Direct, queueVars
<1>6. ASSUME NEW p \in Procs, AppendUserMessage(p) PROVE SendingHeld'
  BY <1>6 DEF AppendUserMessage, Holding, queueVars
<1>7. ASSUME NEW p \in Procs, SetRunning(p) PROVE SendingHeld'
  BY <1>7 DEF SetRunning, Holding, queueVars
<1>8. ASSUME NEW p \in Procs, Announce(p) PROVE SendingHeld'
  BY <1>8 DEF Announce, Holding, Queued, queueVars
<1>9. ASSUME NEW p \in Procs, MarkSent(p) PROVE SendingHeld'
  BY <1>9 DEF MarkSent
<1>10. ASSUME NEW p \in Procs, MarkRunning(p) PROVE SendingHeld'
  BY <1>10 DEF MarkRunning, Holding, queueVars
<1>11. ASSUME NEW p \in Procs, Undo(p) PROVE SendingHeld'
  BY <1>11 DEF Undo, Holding, Queued, queueVars
<1>12. ASSUME NEW p \in Procs, Release(p) PROVE SendingHeld'
  BY <1>12 DEF Release
<1>13. ASSUME NEW p \in Procs, AppendTerminal(p) PROVE SendingHeld'
  BY <1>13 DEF AppendTerminal, Holding, queueVars
<1>14. ASSUME NEW p \in Procs, Settle(p) PROVE SendingHeld'
  BY <1>14 DEF Settle, Holding, queueVars
<1>15. ASSUME NEW p \in Procs, Cleanup(p) PROVE SendingHeld'
  BY <1>15 DEF Cleanup, Holding, queueVars
<1>16. ASSUME NEW p \in Procs, Finish(p) PROVE SendingHeld'
  BY <1>16 DEF Finish, Holding, queueVars
<1>17. ASSUME NEW p \in Procs, AgentStep(p) PROVE SendingHeld'
  BY <1>17 DEF AgentStep, AgentEmits, AgentReturns, Holding, queueVars
<1>18. ASSUME NEW p \in Procs, NEW m \in Messages, Post(p, m)
       PROVE  SendingHeld'
  BY <1>18 DEF Post, Holding, queueVars
<1>19. ASSUME NEW p \in Procs, NEW m \in Messages, Fire(p, m)
       PROVE  SendingHeld'
  BY <1>19 DEF Fire, Holding, queueVars
<1>20. ASSUME NEW m \in Messages, RemoveQueuedMessage(m) PROVE SendingHeld'
  BY <1>20 DEF RemoveQueuedMessage, procVars
<1>21. ASSUME NEW m \in Messages, CancelOccurrence(m) PROVE SendingHeld'
  BY <1>21 DEF CancelOccurrence, procVars
<1>22. CASE CancelRun \/ \E c \in Cancellers : CancelStep(c)
  BY <1>22 DEF CancelRun, CancelStep, CancelRead, Cancel, RepairEvent,
     RepairStatus, queueVars, procVars
<1>23. CASE PauseForArchive
  BY <1>23 DEF PauseForArchive, procVars
<1>24. CASE AdminStep /\ ~PauseForArchive
  BY <1>24 DEF AdminStep, ArchiveRead, Archive, Restore, ClearRead,
     ClearProvider, ClearSettle, queueVars, procVars
<1>25. CASE Crash
  BY <1>25 DEF Crash
<1>26. CASE Recover
  BY <1>26 DEF Recover
<1>27. CASE RecoverStatus
  BY <1>27 DEF RecoverStatus
<1>28. CASE FailInterrupted
  BY <1>28 DEF FailInterrupted
<1>29. CASE StartDispatch
  BY <1>29 DEF StartDispatch
<1>30. CASE UNCHANGED vars
  BY <1>30 DEF vars
<1> QED BY <1>1, <1>2, <1>3, <1>4, <1>5, <1>6, <1>7, <1>8, <1>9, <1>10, <1>11,
      <1>12, <1>13, <1>14, <1>15, <1>16, <1>17, <1>18, <1>19, <1>20, <1>21,
      <1>22, <1>23, <1>24, <1>25, <1>26, <1>27, <1>28, <1>29, <1>30 DEF Next,
      ProcStep, BootStep

\* Only the end of a startup puts goroutines to work, and the bounds are only
\* spent.
LEMMA StartupKept ==
  ASSUME ConstantsAssumption, TypeOK, Startup, [Next]_vars
  PROVE  Startup'
<1> USE ConstantsAssumption DEF ConstantsAssumption, TypeOK, HandlerTypes,
      LogTypes, Startup,
      Works, Fails, Goto, Return
<1>1. ASSUME NEW p \in Procs, ProcStep(p) \/ AgentStep(p) PROVE Startup'
  <2>1. /\ boot' = boot /\ archived' = archived /\ archiver' = archiver /\ crashes' = crashes
        /\ faults' \in Nat /\ faults' <= faults /\ pc[p] # "idle"
    <3>1. CASE Enqueue(p) \/ Materialize(p) \/ Claim(p) \/ Load(p)
      BY <3>1 DEF Enqueue, Materialize, Claim, Load, sessionVars, queueVars,
         managerVars, procVars, handlerVars, logVars
    <3>2. CASE Register(p) \/ AppendUserMessage(p) \/ SetRunning(p) \/ Announce(p)
      BY <3>2 DEF Register, AppendUserMessage, SetRunning, Announce,
         sessionVars, queueVars, managerVars, procVars, handlerVars, logVars
    <3>3. CASE MarkSent(p) \/ MarkRunning(p) \/ Undo(p) \/ Release(p)
      BY <3>3 DEF MarkSent, MarkRunning, Undo, Release, sessionVars,
         queueVars, managerVars, procVars, handlerVars, logVars
    <3>4. CASE AppendTerminal(p) \/ Settle(p) \/ Cleanup(p) \/ Finish(p)
      BY <3>4 DEF AppendTerminal, Settle, Cleanup, Finish, sessionVars,
         queueVars, managerVars, procVars, handlerVars, logVars
    <3>5. CASE AgentStep(p)
      BY <3>5 DEF AgentStep, AgentEmits, AgentReturns, sessionVars, queueVars,
         managerVars, procVars, handlerVars, logVars
    <3> QED BY <1>1, <3>1, <3>2, <3>3, <3>4, <3>5 DEF ProcStep
  <2> QED BY <2>1
<1>2. ASSUME NEW p \in Procs, NEW m \in Messages, Post(p, m) \/ Fire(p, m)
      PROVE  Startup'
  BY <1>2 DEF Post, Fire, sessionVars, queueVars, managerVars, procVars,
     handlerVars, logVars
<1>3. CASE \/ \E m \in Manual : RemoveQueuedMessage(m)
           \/ \E m \in Scheduled : CancelOccurrence(m)
  BY <1>3 DEF RemoveQueuedMessage, CancelOccurrence, sessionVars, queueVars,
     managerVars, procVars, handlerVars, logVars
<1>4. CASE CancelRun \/ \E c \in Cancellers : CancelStep(c)
  BY <1>4 DEF CancelRun, CancelStep, CancelRead, Cancel, RepairEvent,
     RepairStatus, sessionVars, queueVars, managerVars, procVars, handlerVars,
     logVars
<1>5. CASE AdminStep
  BY <1>5 DEF AdminStep, ArchiveRead, PauseForArchive, Archive, Restore,
     ClearRead, ClearProvider, ClearSettle, sessionVars, queueVars,
     managerVars, procVars, handlerVars, logVars
<1>6. CASE Crash
  BY <1>6 DEF Crash, sessionVars, queueVars, managerVars, procVars,
     handlerVars, logVars
<1>7. CASE BootStep
  BY <1>7 DEF BootStep, Recover, RecoverStatus, FailInterrupted,
     StartDispatch, sessionVars, queueVars, managerVars, procVars,
     handlerVars, logVars
<1>8. CASE UNCHANGED vars
  BY <1>8 DEF vars
<1> QED BY <1>1, <1>2, <1>3, <1>4, <1>5, <1>6, <1>7, <1>8 DEF Next

\* Every part holds before anything has happened.
LEMMA SteadyInit == ASSUME ConstantsAssumption PROVE Init => SteadyInv
<1> SUFFICES ASSUME Init PROVE SteadyInv
  OBVIOUS
<1> USE ConstantsAssumption DEF ConstantsAssumption, Init, Messages
<1>1. IInv
  BY InitInvariant
<1>2. Startup
  BY DEF Startup
<1>3. Unsaid
  BY DEF Unsaid
<1>4. RunningWillSettle /\ RunningWillReport
  BY DEF RunningWillSettle, RunningWillReport
<1>5. QueuedOccurrenceLive /\ SendingHeld
  BY DEF QueuedOccurrenceLive, SendingHeld
<1> QED BY <1>1, <1>2, <1>3, <1>4, <1>5 DEF SteadyInv

\* SteadyInv holds in every reachable state.
THEOREM SteadyInvariance == ASSUME ConstantsAssumption PROVE Spec => []SteadyInv
<1>1. SteadyInv /\ [Next]_vars => SteadyInv'
  <2> SUFFICES ASSUME SteadyInv, [Next]_vars PROVE SteadyInv'
    OBVIOUS
  <2>1. IInv'
    BY ConstantsAssumption, NextInvariant DEF SteadyInv
  <2>2. TypeOK
    BY DEF SteadyInv, IInv
  <2> QED BY <2>1, <2>2, ConstantsAssumption, StartupKept, UnsaidKept,
        SettleKept, ReportKept,
             QueuedKept, SendingKept DEF SteadyInv
<1> QED BY <1>1, ConstantsAssumption, SteadyInit, PTL DEF Spec

\* While no write fails, whatever the store shows as running, queued or being
\* sent is in somebody's hands, whoever claims, cancels, archives or restarts in
\* between; and no message is said twice.
THEOREM NothingOrphaned == ASSUME ConstantsAssumption PROVE Spec => []WithoutFailures
<1>1. SteadyInv => WithoutFailures
  <2> SUFFICES ASSUME SteadyInv PROVE WithoutFailures
    OBVIOUS
  <2>1. SaidOnceWithoutFaults
    BY DEF SteadyInv, Unsaid, SaidOnceWithoutFaults
  <2>2. RunningHasOwner
    <3> SUFFICES ASSUME boot = "up", faults = MaxFaults, status = "running",
                        crashes = MaxCrashes \/ "archive" \notin Admin
                 PROVE  active # NoProc
      BY DEF RunningHasOwner
    <3>1. PICK p \in Procs : pc[p] \in {"announce", "mark", "occurrence", "agent", "terminal", "settle"}
      BY DEF SteadyInv, RunningWillSettle
    <3>2. active = p
      BY <3>1 DEF SteadyInv, IInv, RunOwnership, Owning
    <3> QED BY <3>2, ConstantsAssumption DEF ConstantsAssumption
  <2>3. RunningOccurrenceCarried
    BY DEF SteadyInv, RunningWillReport, RunningOccurrenceCarried
  <2> QED BY <2>1, <2>2, <2>3 DEF SteadyInv, WithoutFailures
<1> QED BY <1>1, ConstantsAssumption, SteadyInvariance, PTL

-----------------------------------------------------------------------------
(***************************************************************************)
(* RunQueue implements LaunchOnce.  Each step of a session is, under the   *)
(* mapping of RunQueueRefinement, an Accept, a Start, an End or a Withdraw *)
(* of LaunchOnce, or leaves the lives of the messages and the slot alone.  *)
(***************************************************************************)
Lifes == [m \in Messages |-> Life(m)]
Refines == [Launch!LNext]_<<Lifes, Slot>>

\* The slot is held by the owner of the entry from its launch to its cleanup,
\* and the message in it has been launched.
LEMMA SlotFacts ==
  ASSUME ConstantsAssumption, IInv
  PROVE  /\ \A p \in Procs : pc[p] \in RunningNow => active = p /\ Slot = msg[p]
         /\ \A p \in Procs : active = p /\ pc[p] \notin RunningNow => Slot = NoMsg
         /\ active = NoProc => Slot = NoMsg
         /\ Slot # NoMsg => /\ Slot \in Messages /\ launches[Slot] = 1
                            /\ row[Slot] \in {"none", "sent"}
<1> USE ConstantsAssumption DEF ConstantsAssumption, IInv, TypeOK
<1>1. \A p \in Procs : pc[p] \in RunningNow => active = p
  BY DEF RunOwnership, RunningNow, Launched, Owning
<1>2. active \in Procs \cup {NoProc}
  BY DEF ProcTypes
<1>3. Slot # NoMsg => \E p \in Procs : pc[p] \in RunningNow /\ Slot = msg[p]
  BY <1>2 DEF Slot
<1>4. Slot # NoMsg => /\ Slot \in Messages /\ launches[Slot] = 1
                      /\ row[Slot] \in {"none", "sent"}
  BY <1>3 DEF RunningNow, Shape, ProcTypes
<1> QED BY <1>1, <1>2, <1>4 DEF Slot

\* A step that keeps the slot and every life is a stutter.
LEMMA Stutter ==
  ASSUME Slot' = Slot, \A m \in Messages : Life(m)' = Life(m)
  PROVE  Refines
BY DEF Refines, Lifes

\* So is one that keeps the slot, the rows and the launches.
LEMMA Quiet ==
  ASSUME Slot' = Slot, UNCHANGED <<row, launches>>
  PROVE  Refines
<1>1. \A m \in Messages : Life(m)' = Life(m)
  BY DEF Life
<1> QED BY <1>1, Stutter

\* A goroutine that neither takes nor leaves the slot keeps it.
LEMMA SlotKept ==
  ASSUME ConstantsAssumption, IInv, NEW p \in Procs, active' = active,
         pc[p] \notin RunningNow, pc' = [pc EXCEPT ![p] = pc'[p]],
         pc'[p] \notin RunningNow,
         \A q \in Procs \ {p} : msg'[q] = msg[q]
  PROVE  Slot' = Slot
BY DEF IInv, TypeOK, ProcTypes, Slot, RunningNow, ConstantsAssumption

\* A message enters the queue: enqueueSessionMessage, MaterializeScheduleOccurrence.
LEMMA EntersQueue ==
  ASSUME ConstantsAssumption, IInv, NEW m \in Messages, row[m] = "none",
         launches[m] = 0, row' = [row EXCEPT ![m] = "pending"],
         launches' = launches, Slot' = Slot
  PROVE  Refines
<1> USE ConstantsAssumption DEF IInv, TypeOK
<1>1. Life(m) = "new" /\ Life(m)' = "waiting"
  BY DEF Life, StoreTypes
<1>2. \A n \in Messages \ {m} : Life(n)' = Life(n)
  BY DEF Life, StoreTypes
<1>3. Launch!Accept(m)
  BY <1>1, <1>2 DEF Launch!Accept
<1> QED BY <1>3 DEF Refines, Lifes, Launch!LNext

\* A message is launched.
LEMMA TakesSlot ==
  ASSUME ConstantsAssumption, IInv, NEW m \in Messages, Slot = NoMsg, Slot' = m,
         launches[m] = 0, launches' = [launches EXCEPT ![m] = 1],
         row[m] \in {"none", "sending"}, row'[m] \in {"none", "sent"},
         \A n \in Messages \ {m} : row'[n] = row[n]
  PROVE  Refines
<1> USE ConstantsAssumption DEF ConstantsAssumption, IInv, TypeOK
<1>1. Life(m) \in {"new", "waiting"} /\ Life(m)' = "running"
  BY DEF Life, StoreTypes, LogTypes
<1>2. \A n \in Messages \ {m} : Life(n)' = Life(n)
  BY DEF Life, StoreTypes, LogTypes
<1>3. Launch!Start(m)
  BY <1>1, <1>2 DEF Launch!Start
<1> QED BY <1>3 DEF Refines, Launch!LNext

\* A run ends: its goroutine cleans up, or the server stops.
LEMMA LeavesSlot ==
  ASSUME ConstantsAssumption, IInv, Slot' = NoMsg, UNCHANGED <<row, launches>>
  PROVE  Refines
<1> USE ConstantsAssumption DEF ConstantsAssumption
<1>1. CASE Slot = NoMsg
  BY <1>1, Quiet
<1>2. ASSUME NEW m \in Messages, Slot = m, m # NoMsg PROVE Refines
  <2>1. launches[m] = 1 /\ row[m] \in {"none", "sent"}
    BY <1>2, SlotFacts
  <2>2. Life(m) = "running" /\ Life(m)' = "done"
    BY <1>2, <2>1 DEF Life
  <2>3. \A n \in Messages \ {m} : Life(n)' = Life(n)
    BY <1>2 DEF Life
  <2>4. Launch!End(m)
    BY <1>2, <2>2, <2>3 DEF Launch!End
  <2> QED BY <2>4 DEF Refines, Launch!LNext
<1>3. Slot # NoMsg => Slot \in Messages
  BY SlotFacts
<1> QED BY <1>1, <1>2, <1>3

\* Pending messages are removed.
LEMMA LeavesQueue ==
  ASSUME ConstantsAssumption, IInv, NEW S \in SUBSET Messages,
         \A m \in S : row[m] = "pending",
         row' = [m \in Messages |-> IF m \in S THEN "removed" ELSE row[m]],
         launches' = launches, Slot' = Slot
  PROVE  Refines
<1> USE ConstantsAssumption DEF IInv, TypeOK
<1>1. \A m \in S : Life(m) = "waiting" /\ Life(m)' = "withdrawn"
  BY DEF Life, Ledger, StoreTypes
<1>2. \A m \in Messages \ S : Life(m)' = Life(m)
  BY DEF Life, StoreTypes
<1>3. Launch!Withdraw(S)
  BY <1>1, <1>2 DEF Launch!Withdraw
<1> QED BY <1>3 DEF Refines, Launch!LNext

\* Every step of a goroutine refines a step of LaunchOnce.
LEMMA ProcRefines ==
  ASSUME ConstantsAssumption, IInv, NEW p \in Procs, ProcStep(p)
  PROVE  Refines
<1> USE ConstantsAssumption DEF ConstantsAssumption, Messages, IInv, TypeOK,
      StoreTypes, ProcTypes, LogTypes
<1>1. CASE Enqueue(p)
  <2>1. Slot' = Slot
    BY <1>1, SlotKept DEF Enqueue, Return, managerVars, RunningNow, Launched
  <2>2. msg[p] \in Messages /\ row[msg[p]] = "none" /\ launches[msg[p]] = 0
    BY <1>1 DEF Enqueue, Shape, Holding
  <2>3. launches' = launches
    BY <1>1 DEF Enqueue, logVars
  <2>4. row' = row \/ row' = [row EXCEPT ![msg[p]] = "pending"]
    BY <1>1 DEF Enqueue, queueVars
  <2> QED BY <2>1, <2>2, <2>3, <2>4, Quiet, EntersQueue
<1>2. CASE Materialize(p)
  <2>1. Slot' = Slot
    BY <1>2, SlotKept DEF Materialize, Goto, Return, managerVars, RunningNow,
       Launched
  <2>2. msg[p] \in Messages /\ row[msg[p]] = "none" /\ launches[msg[p]] = 0
    BY <1>2 DEF Materialize, Shape, Holding
  <2>3. launches' = launches
    BY <1>2 DEF Materialize, logVars
  <2>4. row' = row \/ row' = [row EXCEPT ![msg[p]] = "pending"]
    BY <1>2 DEF Materialize, queueVars
  <2> QED BY <2>1, <2>2, <2>3, <2>4, Quiet, EntersQueue
<1>3. CASE Claim(p)
  <2>1. Slot' = Slot
    BY <1>3, SlotKept DEF Claim, Goto, Return, managerVars, RunningNow, Launched
  <2>2. launches' = launches
    BY <1>3 DEF Claim, logVars
  <2>3. \A n \in Messages :
          row'[n] = row[n] \/ (row[n] = "pending" /\ row'[n] = "sending")
    BY <1>3 DEF Claim, NextToClaim, Pending
  <2>4. \A n \in Messages : Life(n)' = Life(n)
    BY <2>1, <2>2, <2>3 DEF Life, Ledger
  <2> QED BY <2>1, <2>4, Stutter
<1>4. CASE Load(p) \/ AppendUserMessage(p) \/ SetRunning(p)
  <2>1. Slot' = Slot
    BY <1>4, SlotKept DEF Load, AppendUserMessage, SetRunning, Goto,
       managerVars, RunningNow, Launched
  <2> QED BY <1>4, <2>1, Quiet DEF Load, AppendUserMessage, SetRunning,
          queueVars, logVars
<1>5. CASE Register(p)
  <2>1. CASE active' = active
    <3>1. Slot' = Slot
      BY <1>5, <2>1, SlotKept DEF Register, Goto, Return, RunningNow, Launched
    <3> QED BY <1>5, <3>1, Quiet DEF Register, queueVars, logVars
  <2>2. CASE active = NoProc /\ active' = p /\ pc'[p] = "append"
    <3>1. Slot = NoMsg /\ Slot' = NoMsg
      BY <2>2 DEF Slot, RunningNow, Launched
    <3> QED BY <1>5, <3>1, Quiet DEF Register, queueVars, logVars
  <2> QED BY <1>5, <2>1, <2>2 DEF Register, Goto, Busy, managerVars
<1>6. CASE Announce(p)
  <2>1. active = p /\ Slot = NoMsg /\ msg' = msg /\ active' = active /\ row' = row
    BY <1>6, SlotFacts DEF Announce, RunOwnership, Owning, RunningNow, Launched,
       managerVars, queueVars
  <2>2. msg[p] \in Messages /\ launches[msg[p]] = 0
    BY <1>6 DEF Announce, Shape, Holding, Carrying
  <2>3. CASE pc'[p] = "agent"
    <3>1. Slot' = msg[p]
      BY <2>1, <2>3 DEF Slot, RunningNow, Launched
    <3>2. row[msg[p]] = "none" /\ launches' = [launches EXCEPT ![msg[p]] = 1]
      BY <1>6, <2>2, <2>3 DEF Announce, Goto, Queued, Sat
    <3> QED BY <2>1, <2>2, <3>1, <3>2, TakesSlot
  <2>4. CASE pc'[p] # "agent"
    <3>1. pc'[p] \in {"mark", "undo"} /\ launches' = launches
      BY <1>6, <2>4 DEF Announce, Goto
    <3>2. Slot' = Slot
      BY <2>1, <3>1 DEF Slot, RunningNow, Launched
    <3> QED BY <2>1, <3>1, <3>2, Quiet
  <2> QED BY <2>3, <2>4
<1>7. CASE MarkSent(p)
  <2>1. active = p /\ Slot = NoMsg /\ msg' = msg /\ active' = active
    BY <1>7, SlotFacts DEF MarkSent, RunOwnership, Owning, RunningNow, Launched,
       managerVars
  <2>2. msg[p] \in Messages /\ launches[msg[p]] = 0 /\ row[msg[p]] = "sending"
    BY <1>7 DEF MarkSent, Shape, Holding, Carrying
  <2>3. CASE pc'[p] \in {"agent", "occurrence"}
    <3>1. Slot' = msg[p]
      BY <2>1, <2>3 DEF Slot, RunningNow, Launched
    <3>2. row' = [row EXCEPT ![msg[p]] = "sent"]
          /\ launches' = [launches EXCEPT ![msg[p]] = 1]
      BY <1>7, <2>2, <2>3 DEF MarkSent, Goto, Sat
    <3> QED BY <2>1, <2>2, <3>1, <3>2, TakesSlot
  <2>4. CASE pc'[p] \notin {"agent", "occurrence"}
    <3>1. pc'[p] = "undo" /\ UNCHANGED <<row, launches>>
      BY <1>7, <2>4 DEF MarkSent, Goto
    <3>2. Slot' = Slot
      BY <2>1, <3>1 DEF Slot, RunningNow, Launched
    <3> QED BY <3>1, <3>2, Quiet
  <2> QED BY <2>3, <2>4
<1>8. CASE MarkRunning(p) \/ AppendTerminal(p) \/ Settle(p)
  <2>1. pc[p] \in RunningNow /\ pc'[p] \in RunningNow /\ msg' = msg /\ active' = active
    BY <1>8 DEF MarkRunning, AppendTerminal, Settle, Goto, managerVars,
       RunningNow, Launched
  <2>2. active = p
    BY <2>1, SlotFacts
  <2>3. Slot' = Slot
    BY <2>1, <2>2 DEF Slot
  <2> QED BY <1>8, <2>3, Quiet DEF MarkRunning, AppendTerminal, Settle,
          LogTerminal, queueVars, logVars
<1>9. CASE Undo(p)
  <2>1. active = p /\ Slot = NoMsg
    BY <1>9, SlotFacts DEF Undo, RunOwnership, Owning, RunningNow, Launched
  <2>2. Slot' = NoMsg
    BY <1>9, <2>1 DEF Undo, DropRun, Slot
  <2> QED BY <1>9, <2>1, <2>2, Quiet DEF Undo, queueVars, logVars
<1>10. CASE Release(p)
  <2>1. Slot' = Slot
    BY <1>10, SlotKept DEF Release, Return, managerVars, RunningNow, Launched
  <2>2. launches' = launches
    BY <1>10 DEF Release, logVars
  <2>3. \A n \in Messages :
          row'[n] = row[n] \/ (row[n] = "sending" /\ row'[n] = "pending")
    BY <1>10 DEF Release
  <2>4. \A n \in Messages : Life(n)' = Life(n)
    BY <2>1, <2>2, <2>3 DEF Life, Ledger
  <2> QED BY <2>1, <2>4, Stutter
<1>11. CASE Cleanup(p)
  <2>1. active = p
    BY <1>11 DEF Cleanup, RunOwnership, Owning
  <2>2. Slot' = NoMsg
    BY <1>11, <2>1 DEF Cleanup, DropRun, Slot
  <2> QED BY <1>11, <2>2, LeavesSlot DEF Cleanup, queueVars, logVars
<1>12. CASE Finish(p)
  <2>1. Slot' = Slot
    BY <1>12, SlotKept DEF Finish, Goto, managerVars, RunningNow, Launched
  <2> QED BY <1>12, <2>1, Quiet DEF Finish, queueVars, logVars
<1> QED BY <1>1, <1>2, <1>3, <1>4, <1>5, <1>6, <1>7, <1>8, <1>9, <1>10, <1>11,
           <1>12 DEF ProcStep

\* So does every other step of the session.
LEMMA NextRefines ==
  ASSUME ConstantsAssumption, IInv, [Next]_vars
  PROVE  Refines
<1> USE ConstantsAssumption DEF ConstantsAssumption
<1>1. ASSUME UNCHANGED <<active, pc, msg, row, launches>> PROVE Refines
  <2>1. Slot' = Slot
    BY <1>1 DEF Slot
  <2> QED BY <1>1, <2>1, Quiet
<1>2. ASSUME NEW p \in Procs, NEW m \in Messages, Post(p, m) \/ Fire(p, m)
      PROVE  Refines
  <2>1. Slot' = Slot
    BY <1>2, SlotKept DEF IInv, TypeOK, ProcTypes, Post, Fire, Goto,
       managerVars, RunningNow, Launched
  <2> QED BY <1>2, <2>1, Quiet DEF Post, Fire, queueVars, logVars
<1>3. ASSUME NEW p \in Procs, AgentEmits(p) PROVE Refines
  BY <1>3, <1>1 DEF AgentEmits, LogTerminal, queueVars, managerVars
<1>4. ASSUME NEW p \in Procs, NEW result, AgentReturns(p, result) PROVE Refines
  <2>1. /\ pc[p] \in RunningNow /\ pc'[p] \in RunningNow
        /\ msg' = msg /\ active' = active
        /\ \A q \in Procs \ {p} : pc'[q] = pc[q]
    BY <1>4 DEF IInv, TypeOK, ProcTypes, AgentReturns, Goto, managerVars,
       RunningNow, Launched
  <2>2. active = p
    BY <2>1, SlotFacts
  <2>3. Slot' = Slot
    BY <2>1, <2>2 DEF Slot
  <2> QED BY <1>4, <2>3, Quiet DEF AgentReturns, queueVars, logVars
<1>5. ASSUME NEW m \in Messages, RemoveQueuedMessage(m) \/ CancelOccurrence(m)
      PROVE  Refines
  <2>1. /\ UNCHANGED <<active, pc, msg, launches>> /\ row[m] = "pending"
        /\ row' = [row EXCEPT ![m] = "removed"]
    BY <1>5 DEF RemoveQueuedMessage, CancelOccurrence, managerVars, procVars,
       logVars
  <2>2. row' = [n \in Messages |-> IF n \in {m} THEN "removed" ELSE row[n]]
    BY <2>1 DEF IInv, TypeOK, StoreTypes
  <2>3. Slot' = Slot
    BY <2>1 DEF Slot
  <2> QED BY <2>1, <2>2, <2>3, LeavesQueue, ZenonT(40)
<1>6. CASE PauseForArchive
  <2>1. UNCHANGED <<active, pc, msg, launches>>
    BY <1>6 DEF PauseForArchive, managerVars, procVars, logVars
  <2>2. Slot' = Slot
    BY <2>1 DEF Slot
  <2>3. CASE row' = row
    BY <2>1, <2>2, <2>3, Quiet
  <2>4. CASE row' = [m \in Messages |->
                       IF m \in Withdrawable THEN "removed" ELSE row[m]]
    <3>1. /\ Withdrawable \subseteq Messages
          /\ \A m \in Withdrawable : row[m] = "pending"
      BY DEF Withdrawable, Pending, Messages
    <3> QED BY <2>1, <2>2, <2>4, <3>1, LeavesQueue
  <2> QED BY <1>6, <2>3, <2>4 DEF PauseForArchive
<1>7. CASE AdminStep /\ ~PauseForArchive
  BY <1>7, <1>1 DEF AdminStep, ArchiveRead, Archive, Restore, ClearRead,
     ClearProvider, ClearSettle, queueVars, managerVars, procVars, logVars
<1>8. CASE CancelRun \/ \E c \in Cancellers : CancelStep(c)
  BY <1>8, <1>1 DEF CancelRun, CancelStep, CancelRead, Cancel, RepairEvent,
     RepairStatus, queueVars, managerVars, procVars, logVars
<1>9. CASE Crash
  <2>1. Slot' = NoMsg
    BY <1>9 DEF Crash, Slot
  <2> QED BY <1>9, <2>1, LeavesSlot DEF Crash, queueVars, logVars
<1>10. CASE Recover \/ RecoverStatus \/ FailInterrupted
  BY <1>10, <1>1 DEF Recover, RecoverStatus, FailInterrupted, queueVars,
     managerVars, procVars, logVars
<1>11. CASE StartDispatch
  <2>1. CASE UNCHANGED pc
    BY <1>11, <2>1, <1>1 DEF StartDispatch, queueVars, managerVars, logVars
  <2>2. ASSUME NEW p \in Procs, pc[p] = "idle", Goto(p, "claim") PROVE Refines
    <3>1. Slot' = Slot
      BY <1>11, <2>2, SlotKept DEF IInv, TypeOK, ProcTypes, StartDispatch, Goto,
         managerVars, RunningNow, Launched
    <3> QED BY <1>11, <3>1, Quiet DEF StartDispatch, queueVars, logVars
  <2> QED BY <1>11, <2>1, <2>2 DEF StartDispatch
<1>12. CASE UNCHANGED vars
  BY <1>12, <1>1 DEF vars
<1>13. CASE Next
  BY <1>13, <1>2, <1>3, <1>4, <1>5, <1>6, <1>7, <1>8, <1>9, <1>10, <1>11,
     ProcRefines DEF Next, AgentStep, BootStep, Messages
<1> QED BY <1>12, <1>13

\* RunQueue implements LaunchOnce: a session runs one message at a time, each
\* at most once and none that was withdrawn, whatever its handlers,
\* dispatchers, schedules, failures and crashes do in between.
THEOREM ImplementsLaunchOnce ==
  ASSUME ConstantsAssumption PROVE Spec => LaunchesOnce
<1> USE ConstantsAssumption DEF ConstantsAssumption
<1>1. Init => Launch!LInit
  BY DEF Init, Launch!LInit, Life, Slot
<1>2. IInv /\ [Next]_vars => Refines
  BY NextRefines
<1> QED BY <1>1, <1>2, Invariance, PTL DEF Spec, LaunchesOnce, Launch!LSpec,
        Refines, Lifes
=============================================================================
