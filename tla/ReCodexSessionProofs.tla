------------------------ MODULE ReCodexSessionProofs ------------------------
(***************************************************************************)
(* What signing out guarantees, proved for any number of handlers, epochs  *)
(* and tokens.  The inductive invariant is IInv: the types, the bound      *)
(* Epochs on every recorded epoch, and the four session invariants.  The   *)
(* invariants hold for any choice of Ops and of the faults.                *)
(***************************************************************************)
EXTENDS ReCodexSession, TLAPS

SessionInv ==
    /\ SignOutClearsAdapter
    /\ SignOutClearsStore
    /\ SignOutClearsPending
    /\ CacheBelongsToToken

IInv == TypeOK /\ Epochs /\ SessionInv

-----------------------------------------------------------------------------
\* Whether the credential store is cleared or fails, its contents keep their type.
LEMMA ClearStoreTypes ==
  ASSUME Types, ClearStore
  PROVE  store' \in Nat /\ clearFailed' \in BOOLEAN
<1>1. CASE store' = None /\ UNCHANGED clearFailed
    BY <1>1 DEF Types, None
<1>2. CASE clearFailed' = TRUE /\ UNCHANGED store
    BY <1>2 DEF Types
<1>. QED BY <1>1, <1>2 DEF ClearStore

\* Every step keeps the types.
LEMMA TypesNext == Types /\ [Next]_vars => Types'
<1> SUFFICES ASSUME Types, [Next]_vars PROVE Types'
    OBVIOUS
<1> USE SessionAssumption DEF Types, Labels, Return, Goto, At, AdapterFree, Current, cells, locks, server, history, None, SaveToken, SetToken, RefreshReturn, SnapshotReturn
<1>1. CASE UNCHANGED vars
    BY <1>1 DEF vars, cells, locks, server, locals, history
<1>2. ASSUME NEW h \in Handlers, Refresh(h) PROVE Types'
  <2>1. CASE RefreshBegin(h)
    BY <2>1 DEF RefreshBegin
  <2>2. CASE RefreshFork(h)
    BY <2>2 DEF RefreshFork
  <2>3. CASE RefreshCall(h)
    <3>1. /\ pc' \in [Handlers -> Labels]
          /\ ep' \in [Handlers -> Nat]
          /\ tok' \in [Handlers -> Nat]
          /\ fresh' \in [Handlers -> Nat]
          /\ code' \in [Handlers -> Nat]
          /\ refreshLock' \in Handlers \cup {NoHandler}
        BY <2>3 DEF RefreshCall
    <3>2. valid' \subseteq Nat /\ minted' \in Nat
      <4>1. minted + 1 \in Nat
          OBVIOUS
      <4>2. \/ valid' = (valid \ {tok[h]}) \cup {minted + 1} /\ minted' = minted + 1
            \/ UNCHANGED server
          BY <2>3 DEF RefreshCall
      <4>. QED BY <4>1, <4>2
    <3>. QED BY <2>3, <3>1, <3>2 DEF RefreshCall
  <2>4. CASE RefreshCheck(h)
    BY <2>4 DEF RefreshCheck
  <2>5. CASE RefreshSave(h)
    BY <2>5 DEF RefreshSave
  <2>6. CASE RefreshCommit(h)
    BY <2>6, ClearStoreTypes DEF RefreshCommit
  <2>. QED BY <1>2, <2>1, <2>2, <2>3, <2>4, <2>5, <2>6 DEF Refresh
<1>3. ASSUME NEW h \in Handlers, LoginStart(h) PROVE Types'
  <2>1. CASE StartBegin(h)
    BY <2>1 DEF StartBegin
  <2>2. CASE StartFail(h)
    BY <2>2 DEF StartFail
  <2>3. CASE StartPut(h)
    BY <2>3 DEF StartPut
  <2>. QED BY <1>3, <2>1, <2>2, <2>3 DEF LoginStart
<1>4. ASSUME NEW h \in Handlers, LoginPoll(h) PROVE Types'
  <2>1. CASE PollBegin(h)
    BY <2>1 DEF PollBegin
  <2>2. CASE PollCode(h)
    BY <2>2 DEF PollCode
  <2>3. CASE PollCall(h)
    <3>1. /\ pc' \in [Handlers -> Labels]
          /\ ep' \in [Handlers -> Nat]
          /\ tok' \in [Handlers -> Nat]
          /\ fresh' \in [Handlers -> Nat]
          /\ code' \in [Handlers -> Nat]
          /\ refreshLock' \in Handlers \cup {NoHandler}
        BY <2>3 DEF PollCall
    <3>2. valid' \subseteq Nat /\ minted' \in Nat
      <4>1. minted + 1 \in Nat
          OBVIOUS
      <4>2. \/ valid' = valid \cup {minted + 1} /\ minted' = minted + 1
            \/ UNCHANGED server
          BY <2>3 DEF PollCall
      <4>. QED BY <4>1, <4>2
    <3>. QED BY <2>3, <3>1, <3>2 DEF PollCall
  <2>4. CASE PollCheck(h)
    BY <2>4 DEF PollCheck
  <2>5. CASE PollSave(h)
    BY <2>5 DEF PollSave
  <2>6. CASE PollCommit(h)
    BY <2>6, ClearStoreTypes DEF PollCommit
  <2>7. CASE PollForget(h)
    BY <2>7 DEF PollForget
  <2>8. CASE PollInstall(h)
    BY <2>8 DEF PollInstall
  <2>. QED BY <1>4, <2>1, <2>2, <2>3, <2>4, <2>5, <2>6, <2>7, <2>8 DEF LoginPoll
<1>5. ASSUME NEW h \in Handlers, Logout(h) PROVE Types'
  <2>1. CASE LogoutBegin(h)
    BY <2>1 DEF LogoutBegin
  <2>2. CASE LogoutClear(h)
    BY <2>2 DEF LogoutClear
  <2>3. CASE LogoutRevoke(h)
    BY <2>3 DEF LogoutRevoke
  <2>4. CASE LogoutForget(h)
    BY <2>4 DEF LogoutForget
  <2>5. CASE LogoutRestore(h)
    BY <2>5 DEF LogoutRestore
  <2>6. CASE LogoutStore(h)
    BY <2>6, ClearStoreTypes DEF LogoutStore
  <2>. QED BY <1>5, <2>1, <2>2, <2>3, <2>4, <2>5, <2>6 DEF Logout
<1>6. ASSUME NEW h \in Handlers, Snapshot(h) PROVE Types'
  <2>1. CASE SnapshotBegin(h)
    BY <2>1 DEF SnapshotBegin
  <2>2. CASE SnapshotFork(h)
    BY <2>2 DEF SnapshotFork
  <2>3. CASE SnapshotCall(h)
    BY <2>3 DEF SnapshotCall
  <2>4. CASE SnapshotMerge(h)
    BY <2>4 DEF SnapshotMerge
  <2>. QED BY <1>6, <2>1, <2>2, <2>3, <2>4 DEF Snapshot
<1>7. ASSUME NEW h \in Handlers, Gateway(h) PROVE Types'
  <2>1. CASE GatewayBegin(h)
    BY <2>1 DEF GatewayBegin
  <2>2. CASE GatewayCall(h)
    BY <2>2 DEF GatewayCall
  <2>3. CASE GatewayRoute(h)
    BY <2>3 DEF GatewayRoute
  <2>. QED BY <1>7, <2>1, <2>2, <2>3 DEF Gateway
<1>. QED BY <1>1, <1>2, <1>3, <1>4, <1>5, <1>6, <1>7 DEF Next

\* Every step takes and drops the guards together with the label that needs them.
LEMMA LocksHeldNext == Types /\ LocksHeld /\ [Next]_vars => LocksHeld'
<1> SUFFICES ASSUME Types /\ LocksHeld, [Next]_vars PROVE LocksHeld'
    OBVIOUS
<1> USE SessionAssumption DEF Types, LocksHeld, Labels, InRefresh, InSnapshot, InPollCritical, At, Goto, Return, AdapterFree, locks, RefreshReturn, SnapshotReturn
<1>1. CASE UNCHANGED vars
    BY <1>1 DEF vars, cells, locks, server, locals, history
<1>2. ASSUME NEW h \in Handlers, Refresh(h) PROVE LocksHeld'
  <2>1. CASE RefreshBegin(h)
    BY <2>1 DEF RefreshBegin
  <2>2. CASE RefreshFork(h)
    BY <2>2 DEF RefreshFork
  <2>3. CASE RefreshCall(h)
    BY <2>3 DEF RefreshCall
  <2>4. CASE RefreshCheck(h)
    BY <2>4 DEF RefreshCheck
  <2>5. CASE RefreshSave(h)
    BY <2>5 DEF RefreshSave
  <2>6. CASE RefreshCommit(h)
    BY <2>6 DEF RefreshCommit
  <2>. QED BY <1>2, <2>1, <2>2, <2>3, <2>4, <2>5, <2>6 DEF Refresh
<1>3. ASSUME NEW h \in Handlers, LoginStart(h) PROVE LocksHeld'
  <2>1. CASE StartBegin(h)
    BY <2>1 DEF StartBegin
  <2>2. CASE StartFail(h)
    BY <2>2 DEF StartFail
  <2>3. CASE StartPut(h)
    BY <2>3 DEF StartPut
  <2>. QED BY <1>3, <2>1, <2>2, <2>3 DEF LoginStart
<1>4. ASSUME NEW h \in Handlers, LoginPoll(h) PROVE LocksHeld'
  <2>1. CASE PollBegin(h)
    BY <2>1 DEF PollBegin
  <2>2. CASE PollCode(h)
    BY <2>2 DEF PollCode
  <2>3. CASE PollCall(h)
    BY <2>3 DEF PollCall
  <2>4. CASE PollCheck(h)
    BY <2>4 DEF PollCheck
  <2>5. CASE PollSave(h)
    BY <2>5 DEF PollSave
  <2>6. CASE PollCommit(h)
    BY <2>6 DEF PollCommit
  <2>7. CASE PollForget(h)
    BY <2>7 DEF PollForget
  <2>8. CASE PollInstall(h)
    BY <2>8 DEF PollInstall
  <2>. QED BY <1>4, <2>1, <2>2, <2>3, <2>4, <2>5, <2>6, <2>7, <2>8 DEF LoginPoll
<1>5. ASSUME NEW h \in Handlers, Logout(h) PROVE LocksHeld'
  <2>1. CASE LogoutBegin(h)
    BY <2>1 DEF LogoutBegin
  <2>2. CASE LogoutClear(h)
    BY <2>2 DEF LogoutClear
  <2>3. CASE LogoutRevoke(h)
    BY <2>3 DEF LogoutRevoke
  <2>4. CASE LogoutForget(h)
    BY <2>4 DEF LogoutForget
  <2>5. CASE LogoutRestore(h)
    BY <2>5 DEF LogoutRestore
  <2>6. CASE LogoutStore(h)
    BY <2>6 DEF LogoutStore
  <2>. QED BY <1>5, <2>1, <2>2, <2>3, <2>4, <2>5, <2>6 DEF Logout
<1>6. ASSUME NEW h \in Handlers, Snapshot(h) PROVE LocksHeld'
  <2>1. CASE SnapshotBegin(h)
    BY <2>1 DEF SnapshotBegin
  <2>2. CASE SnapshotFork(h)
    BY <2>2 DEF SnapshotFork
  <2>3. CASE SnapshotCall(h)
    BY <2>3 DEF SnapshotCall
  <2>4. CASE SnapshotMerge(h)
    BY <2>4 DEF SnapshotMerge
  <2>. QED BY <1>6, <2>1, <2>2, <2>3, <2>4 DEF Snapshot
<1>7. ASSUME NEW h \in Handlers, Gateway(h) PROVE LocksHeld'
  <2>1. CASE GatewayBegin(h)
    BY <2>1 DEF GatewayBegin
  <2>2. CASE GatewayCall(h)
    BY <2>2 DEF GatewayCall
  <2>3. CASE GatewayRoute(h)
    BY <2>3 DEF GatewayRoute
  <2>. QED BY <1>7, <2>1, <2>2, <2>3 DEF Gateway
<1>. QED BY <1>1, <1>2, <1>3, <1>4, <1>5, <1>6, <1>7 DEF Next

\* The epoch only grows, and a command or a sign-out records the present one.
LEMMA EpochsNext == Types /\ Epochs /\ [Next]_vars => Epochs'
<1> SUFFICES ASSUME Types /\ Epochs, [Next]_vars PROVE Epochs'
    OBVIOUS
<1> USE SessionAssumption DEF Types, Epochs, Return, cells, history, RefreshReturn, SnapshotReturn
<1>1. CASE UNCHANGED vars
    BY <1>1 DEF vars, cells, locks, server, locals, history
<1>2. ASSUME NEW h \in Handlers, Refresh(h) PROVE Epochs'
  <2>1. CASE RefreshBegin(h)
    BY <2>1 DEF RefreshBegin
  <2>2. CASE RefreshFork(h)
    BY <2>2 DEF RefreshFork
  <2>3. CASE RefreshCall(h)
    BY <2>3 DEF RefreshCall
  <2>4. CASE RefreshCheck(h)
    BY <2>4 DEF RefreshCheck
  <2>5. CASE RefreshSave(h)
    BY <2>5 DEF RefreshSave
  <2>6. CASE RefreshCommit(h)
    BY <2>6 DEF RefreshCommit
  <2>. QED BY <1>2, <2>1, <2>2, <2>3, <2>4, <2>5, <2>6 DEF Refresh
<1>3. ASSUME NEW h \in Handlers, LoginStart(h) PROVE Epochs'
  <2>1. CASE StartBegin(h)
    BY <2>1 DEF StartBegin
  <2>2. CASE StartFail(h)
    BY <2>2 DEF StartFail
  <2>3. CASE StartPut(h)
    BY <2>3 DEF StartPut
  <2>. QED BY <1>3, <2>1, <2>2, <2>3 DEF LoginStart
<1>4. ASSUME NEW h \in Handlers, LoginPoll(h) PROVE Epochs'
  <2>1. CASE PollBegin(h)
    BY <2>1 DEF PollBegin
  <2>2. CASE PollCode(h)
    BY <2>2 DEF PollCode
  <2>3. CASE PollCall(h)
    BY <2>3 DEF PollCall
  <2>4. CASE PollCheck(h)
    BY <2>4 DEF PollCheck
  <2>5. CASE PollSave(h)
    BY <2>5 DEF PollSave
  <2>6. CASE PollCommit(h)
    BY <2>6 DEF PollCommit
  <2>7. CASE PollForget(h)
    BY <2>7 DEF PollForget
  <2>8. CASE PollInstall(h)
    BY <2>8 DEF PollInstall
  <2>. QED BY <1>4, <2>1, <2>2, <2>3, <2>4, <2>5, <2>6, <2>7, <2>8 DEF LoginPoll
<1>5. ASSUME NEW h \in Handlers, Logout(h) PROVE Epochs'
  <2>1. CASE LogoutBegin(h)
    BY <2>1 DEF LogoutBegin
  <2>2. CASE LogoutClear(h)
    BY <2>2 DEF LogoutClear
  <2>3. CASE LogoutRevoke(h)
    BY <2>3 DEF LogoutRevoke
  <2>4. CASE LogoutForget(h)
    BY <2>4 DEF LogoutForget
  <2>5. CASE LogoutRestore(h)
    BY <2>5 DEF LogoutRestore
  <2>6. CASE LogoutStore(h)
    BY <2>6 DEF LogoutStore
  <2>. QED BY <1>5, <2>1, <2>2, <2>3, <2>4, <2>5, <2>6 DEF Logout
<1>6. ASSUME NEW h \in Handlers, Snapshot(h) PROVE Epochs'
  <2>1. CASE SnapshotBegin(h)
    BY <2>1 DEF SnapshotBegin
  <2>2. CASE SnapshotFork(h)
    BY <2>2 DEF SnapshotFork
  <2>3. CASE SnapshotCall(h)
    BY <2>3 DEF SnapshotCall
  <2>4. CASE SnapshotMerge(h)
    BY <2>4 DEF SnapshotMerge
  <2>. QED BY <1>6, <2>1, <2>2, <2>3, <2>4 DEF Snapshot
<1>7. ASSUME NEW h \in Handlers, Gateway(h) PROVE Epochs'
  <2>1. CASE GatewayBegin(h)
    BY <2>1 DEF GatewayBegin
  <2>2. CASE GatewayCall(h)
    BY <2>2 DEF GatewayCall
  <2>3. CASE GatewayRoute(h)
    BY <2>3 DEF GatewayRoute
  <2>. QED BY <1>7, <2>1, <2>2, <2>3 DEF Gateway
<1>. QED BY <1>1, <1>2, <1>3, <1>4, <1>5, <1>6, <1>7 DEF Next

\* A token enters the adapter at RefreshCommit and PollCommit only, and only with
\* the present epoch; LogoutClear empties the adapter when it records a sign-out.
LEMMA AdapterNext == Types /\ Epochs /\ SignOutClearsAdapter /\ [Next]_vars => SignOutClearsAdapter'
<1> SUFFICES ASSUME Types /\ Epochs /\ SignOutClearsAdapter, [Next]_vars PROVE SignOutClearsAdapter'
    OBVIOUS
<1> USE SessionAssumption DEF Types, Epochs, SignOutClearsAdapter, Current, SetToken, SaveToken, cells, history, None
<1>1. CASE UNCHANGED vars
    BY <1>1 DEF vars, cells, locks, server, locals, history
<1>2. ASSUME NEW h \in Handlers, Refresh(h) PROVE SignOutClearsAdapter'
  <2>1. CASE RefreshBegin(h)
    BY <2>1 DEF RefreshBegin
  <2>2. CASE RefreshFork(h)
    BY <2>2 DEF RefreshFork
  <2>3. CASE RefreshCall(h)
    BY <2>3 DEF RefreshCall
  <2>4. CASE RefreshCheck(h)
    BY <2>4 DEF RefreshCheck
  <2>5. CASE RefreshSave(h)
    BY <2>5 DEF RefreshSave
  <2>6. CASE RefreshCommit(h)
    BY <2>6 DEF RefreshCommit
  <2>. QED BY <1>2, <2>1, <2>2, <2>3, <2>4, <2>5, <2>6 DEF Refresh
<1>3. ASSUME NEW h \in Handlers, LoginStart(h) PROVE SignOutClearsAdapter'
  <2>1. CASE StartBegin(h)
    BY <2>1 DEF StartBegin
  <2>2. CASE StartFail(h)
    BY <2>2 DEF StartFail
  <2>3. CASE StartPut(h)
    BY <2>3 DEF StartPut
  <2>. QED BY <1>3, <2>1, <2>2, <2>3 DEF LoginStart
<1>4. ASSUME NEW h \in Handlers, LoginPoll(h) PROVE SignOutClearsAdapter'
  <2>1. CASE PollBegin(h)
    BY <2>1 DEF PollBegin
  <2>2. CASE PollCode(h)
    BY <2>2 DEF PollCode
  <2>3. CASE PollCall(h)
    BY <2>3 DEF PollCall
  <2>4. CASE PollCheck(h)
    BY <2>4 DEF PollCheck
  <2>5. CASE PollSave(h)
    BY <2>5 DEF PollSave
  <2>6. CASE PollCommit(h)
    BY <2>6 DEF PollCommit
  <2>7. CASE PollForget(h)
    BY <2>7 DEF PollForget
  <2>8. CASE PollInstall(h)
    BY <2>8 DEF PollInstall
  <2>. QED BY <1>4, <2>1, <2>2, <2>3, <2>4, <2>5, <2>6, <2>7, <2>8 DEF LoginPoll
<1>5. ASSUME NEW h \in Handlers, Logout(h) PROVE SignOutClearsAdapter'
  <2>1. CASE LogoutBegin(h)
    BY <2>1 DEF LogoutBegin
  <2>2. CASE LogoutClear(h)
    BY <2>2 DEF LogoutClear
  <2>3. CASE LogoutRevoke(h)
    BY <2>3 DEF LogoutRevoke
  <2>4. CASE LogoutForget(h)
    BY <2>4 DEF LogoutForget
  <2>5. CASE LogoutRestore(h)
    BY <2>5 DEF LogoutRestore
  <2>6. CASE LogoutStore(h)
    BY <2>6 DEF LogoutStore
  <2>. QED BY <1>5, <2>1, <2>2, <2>3, <2>4, <2>5, <2>6 DEF Logout
<1>6. ASSUME NEW h \in Handlers, Snapshot(h) PROVE SignOutClearsAdapter'
  <2>1. CASE SnapshotBegin(h)
    BY <2>1 DEF SnapshotBegin
  <2>2. CASE SnapshotFork(h)
    BY <2>2 DEF SnapshotFork
  <2>3. CASE SnapshotCall(h)
    BY <2>3 DEF SnapshotCall
  <2>4. CASE SnapshotMerge(h)
    BY <2>4 DEF SnapshotMerge
  <2>. QED BY <1>6, <2>1, <2>2, <2>3, <2>4 DEF Snapshot
<1>7. ASSUME NEW h \in Handlers, Gateway(h) PROVE SignOutClearsAdapter'
  <2>1. CASE GatewayBegin(h)
    BY <2>1 DEF GatewayBegin
  <2>2. CASE GatewayCall(h)
    BY <2>2 DEF GatewayCall
  <2>3. CASE GatewayRoute(h)
    BY <2>3 DEF GatewayRoute
  <2>. QED BY <1>7, <2>1, <2>2, <2>3 DEF Gateway
<1>. QED BY <1>1, <1>2, <1>3, <1>4, <1>5, <1>6, <1>7 DEF Next

\* What RefreshSave and PollSave write under an old epoch has its own writer as
\* the witness, which leaves its commit step only by clearing the store.
LEMMA StoreNext == Types /\ Epochs /\ SignOutClearsStore /\ [Next]_vars => SignOutClearsStore'
<1> SUFFICES ASSUME Types /\ Epochs /\ SignOutClearsStore, [Next]_vars PROVE SignOutClearsStore'
    OBVIOUS
<1> USE SessionAssumption DEF Types, Epochs, SignOutClearsStore, At, Goto, Return, Current, ClearStore, SaveToken, SetToken, cells, history, None, RefreshReturn, SnapshotReturn
<1>1. CASE UNCHANGED vars
    BY <1>1 DEF vars, cells, locks, server, locals, history
<1>2. ASSUME NEW h \in Handlers, Refresh(h) PROVE SignOutClearsStore'
  <2>1. CASE RefreshBegin(h)
    BY <2>1 DEF RefreshBegin
  <2>2. CASE RefreshFork(h)
    BY <2>2 DEF RefreshFork
  <2>3. CASE RefreshCall(h)
    BY <2>3 DEF RefreshCall
  <2>4. CASE RefreshCheck(h)
    BY <2>4 DEF RefreshCheck
  <2>5. CASE RefreshSave(h)
    BY <2>5 DEF RefreshSave
  <2>6. CASE RefreshCommit(h)
    BY <2>6 DEF RefreshCommit
  <2>. QED BY <1>2, <2>1, <2>2, <2>3, <2>4, <2>5, <2>6 DEF Refresh
<1>3. ASSUME NEW h \in Handlers, LoginStart(h) PROVE SignOutClearsStore'
  <2>1. CASE StartBegin(h)
    BY <2>1 DEF StartBegin
  <2>2. CASE StartFail(h)
    BY <2>2 DEF StartFail
  <2>3. CASE StartPut(h)
    BY <2>3 DEF StartPut
  <2>. QED BY <1>3, <2>1, <2>2, <2>3 DEF LoginStart
<1>4. ASSUME NEW h \in Handlers, LoginPoll(h) PROVE SignOutClearsStore'
  <2>1. CASE PollBegin(h)
    BY <2>1 DEF PollBegin
  <2>2. CASE PollCode(h)
    BY <2>2 DEF PollCode
  <2>3. CASE PollCall(h)
    BY <2>3 DEF PollCall
  <2>4. CASE PollCheck(h)
    BY <2>4 DEF PollCheck
  <2>5. CASE PollSave(h)
    BY <2>5 DEF PollSave
  <2>6. CASE PollCommit(h)
    BY <2>6 DEF PollCommit
  <2>7. CASE PollForget(h)
    BY <2>7 DEF PollForget
  <2>8. CASE PollInstall(h)
    BY <2>8 DEF PollInstall
  <2>. QED BY <1>4, <2>1, <2>2, <2>3, <2>4, <2>5, <2>6, <2>7, <2>8 DEF LoginPoll
<1>5. ASSUME NEW h \in Handlers, Logout(h) PROVE SignOutClearsStore'
  <2>1. CASE LogoutBegin(h)
    BY <2>1 DEF LogoutBegin
  <2>2. CASE LogoutClear(h)
    BY <2>2 DEF LogoutClear
  <2>3. CASE LogoutRevoke(h)
    BY <2>3 DEF LogoutRevoke
  <2>4. CASE LogoutForget(h)
    BY <2>4 DEF LogoutForget
  <2>5. CASE LogoutRestore(h)
    BY <2>5 DEF LogoutRestore
  <2>6. CASE LogoutStore(h)
    BY <2>6 DEF LogoutStore
  <2>. QED BY <1>5, <2>1, <2>2, <2>3, <2>4, <2>5, <2>6 DEF Logout
<1>6. ASSUME NEW h \in Handlers, Snapshot(h) PROVE SignOutClearsStore'
  <2>1. CASE SnapshotBegin(h)
    BY <2>1 DEF SnapshotBegin
  <2>2. CASE SnapshotFork(h)
    BY <2>2 DEF SnapshotFork
  <2>3. CASE SnapshotCall(h)
    BY <2>3 DEF SnapshotCall
  <2>4. CASE SnapshotMerge(h)
    BY <2>4 DEF SnapshotMerge
  <2>. QED BY <1>6, <2>1, <2>2, <2>3, <2>4 DEF Snapshot
<1>7. ASSUME NEW h \in Handlers, Gateway(h) PROVE SignOutClearsStore'
  <2>1. CASE GatewayBegin(h)
    BY <2>1 DEF GatewayBegin
  <2>2. CASE GatewayCall(h)
    BY <2>2 DEF GatewayCall
  <2>3. CASE GatewayRoute(h)
    BY <2>3 DEF GatewayRoute
  <2>. QED BY <1>7, <2>1, <2>2, <2>3 DEF Gateway
<1>. QED BY <1>1, <1>2, <1>3, <1>4, <1>5, <1>6, <1>7 DEF Next

\* StartPut publishes a code of the present epoch, no older than any sign-out.
LEMMA PendingNext == Types /\ Epochs /\ SignOutClearsPending /\ [Next]_vars => SignOutClearsPending'
<1> SUFFICES ASSUME Types /\ Epochs /\ SignOutClearsPending, [Next]_vars PROVE SignOutClearsPending'
    OBVIOUS
<1> USE SessionAssumption DEF Types, Epochs, SignOutClearsPending, Current, cells, history, None
<1>1. CASE UNCHANGED vars
    BY <1>1 DEF vars, cells, locks, server, locals, history
<1>2. ASSUME NEW h \in Handlers, Refresh(h) PROVE SignOutClearsPending'
  <2>1. CASE RefreshBegin(h)
    BY <2>1 DEF RefreshBegin
  <2>2. CASE RefreshFork(h)
    BY <2>2 DEF RefreshFork
  <2>3. CASE RefreshCall(h)
    BY <2>3 DEF RefreshCall
  <2>4. CASE RefreshCheck(h)
    BY <2>4 DEF RefreshCheck
  <2>5. CASE RefreshSave(h)
    BY <2>5 DEF RefreshSave
  <2>6. CASE RefreshCommit(h)
    BY <2>6 DEF RefreshCommit
  <2>. QED BY <1>2, <2>1, <2>2, <2>3, <2>4, <2>5, <2>6 DEF Refresh
<1>3. ASSUME NEW h \in Handlers, LoginStart(h) PROVE SignOutClearsPending'
  <2>1. CASE StartBegin(h)
    BY <2>1 DEF StartBegin
  <2>2. CASE StartFail(h)
    BY <2>2 DEF StartFail
  <2>3. CASE StartPut(h)
    BY <2>3 DEF StartPut
  <2>. QED BY <1>3, <2>1, <2>2, <2>3 DEF LoginStart
<1>4. ASSUME NEW h \in Handlers, LoginPoll(h) PROVE SignOutClearsPending'
  <2>1. CASE PollBegin(h)
    BY <2>1 DEF PollBegin
  <2>2. CASE PollCode(h)
    BY <2>2 DEF PollCode
  <2>3. CASE PollCall(h)
    BY <2>3 DEF PollCall
  <2>4. CASE PollCheck(h)
    BY <2>4 DEF PollCheck
  <2>5. CASE PollSave(h)
    BY <2>5 DEF PollSave
  <2>6. CASE PollCommit(h)
    BY <2>6 DEF PollCommit
  <2>7. CASE PollForget(h)
    BY <2>7 DEF PollForget
  <2>8. CASE PollInstall(h)
    BY <2>8 DEF PollInstall
  <2>. QED BY <1>4, <2>1, <2>2, <2>3, <2>4, <2>5, <2>6, <2>7, <2>8 DEF LoginPoll
<1>5. ASSUME NEW h \in Handlers, Logout(h) PROVE SignOutClearsPending'
  <2>1. CASE LogoutBegin(h)
    BY <2>1 DEF LogoutBegin
  <2>2. CASE LogoutClear(h)
    BY <2>2 DEF LogoutClear
  <2>3. CASE LogoutRevoke(h)
    BY <2>3 DEF LogoutRevoke
  <2>4. CASE LogoutForget(h)
    BY <2>4 DEF LogoutForget
  <2>5. CASE LogoutRestore(h)
    BY <2>5 DEF LogoutRestore
  <2>6. CASE LogoutStore(h)
    BY <2>6 DEF LogoutStore
  <2>. QED BY <1>5, <2>1, <2>2, <2>3, <2>4, <2>5, <2>6 DEF Logout
<1>6. ASSUME NEW h \in Handlers, Snapshot(h) PROVE SignOutClearsPending'
  <2>1. CASE SnapshotBegin(h)
    BY <2>1 DEF SnapshotBegin
  <2>2. CASE SnapshotFork(h)
    BY <2>2 DEF SnapshotFork
  <2>3. CASE SnapshotCall(h)
    BY <2>3 DEF SnapshotCall
  <2>4. CASE SnapshotMerge(h)
    BY <2>4 DEF SnapshotMerge
  <2>. QED BY <1>6, <2>1, <2>2, <2>3, <2>4 DEF Snapshot
<1>7. ASSUME NEW h \in Handlers, Gateway(h) PROVE SignOutClearsPending'
  <2>1. CASE GatewayBegin(h)
    BY <2>1 DEF GatewayBegin
  <2>2. CASE GatewayCall(h)
    BY <2>2 DEF GatewayCall
  <2>3. CASE GatewayRoute(h)
    BY <2>3 DEF GatewayRoute
  <2>. QED BY <1>7, <2>1, <2>2, <2>3 DEF Gateway
<1>. QED BY <1>1, <1>2, <1>3, <1>4, <1>5, <1>6, <1>7 DEF Next

\* The token changes under SetToken and LogoutClear, which drop the cache, and
\* SnapshotMerge compares the tokens before it fills the cache.
LEMMA CacheNext == Types /\ CacheBelongsToToken /\ [Next]_vars => CacheBelongsToToken'
<1> SUFFICES ASSUME Types /\ CacheBelongsToToken, [Next]_vars PROVE CacheBelongsToToken'
    OBVIOUS
<1> USE SessionAssumption DEF Types, CacheBelongsToToken, SetToken, cells, None
<1>1. CASE UNCHANGED vars
    BY <1>1 DEF vars, cells, locks, server, locals, history
<1>2. ASSUME NEW h \in Handlers, Refresh(h) PROVE CacheBelongsToToken'
  <2>1. CASE RefreshBegin(h)
    BY <2>1 DEF RefreshBegin
  <2>2. CASE RefreshFork(h)
    BY <2>2 DEF RefreshFork
  <2>3. CASE RefreshCall(h)
    BY <2>3 DEF RefreshCall
  <2>4. CASE RefreshCheck(h)
    BY <2>4 DEF RefreshCheck
  <2>5. CASE RefreshSave(h)
    BY <2>5 DEF RefreshSave
  <2>6. CASE RefreshCommit(h)
    BY <2>6 DEF RefreshCommit
  <2>. QED BY <1>2, <2>1, <2>2, <2>3, <2>4, <2>5, <2>6 DEF Refresh
<1>3. ASSUME NEW h \in Handlers, LoginStart(h) PROVE CacheBelongsToToken'
  <2>1. CASE StartBegin(h)
    BY <2>1 DEF StartBegin
  <2>2. CASE StartFail(h)
    BY <2>2 DEF StartFail
  <2>3. CASE StartPut(h)
    BY <2>3 DEF StartPut
  <2>. QED BY <1>3, <2>1, <2>2, <2>3 DEF LoginStart
<1>4. ASSUME NEW h \in Handlers, LoginPoll(h) PROVE CacheBelongsToToken'
  <2>1. CASE PollBegin(h)
    BY <2>1 DEF PollBegin
  <2>2. CASE PollCode(h)
    BY <2>2 DEF PollCode
  <2>3. CASE PollCall(h)
    BY <2>3 DEF PollCall
  <2>4. CASE PollCheck(h)
    BY <2>4 DEF PollCheck
  <2>5. CASE PollSave(h)
    BY <2>5 DEF PollSave
  <2>6. CASE PollCommit(h)
    BY <2>6 DEF PollCommit
  <2>7. CASE PollForget(h)
    BY <2>7 DEF PollForget
  <2>8. CASE PollInstall(h)
    BY <2>8 DEF PollInstall
  <2>. QED BY <1>4, <2>1, <2>2, <2>3, <2>4, <2>5, <2>6, <2>7, <2>8 DEF LoginPoll
<1>5. ASSUME NEW h \in Handlers, Logout(h) PROVE CacheBelongsToToken'
  <2>1. CASE LogoutBegin(h)
    BY <2>1 DEF LogoutBegin
  <2>2. CASE LogoutClear(h)
    BY <2>2 DEF LogoutClear
  <2>3. CASE LogoutRevoke(h)
    BY <2>3 DEF LogoutRevoke
  <2>4. CASE LogoutForget(h)
    BY <2>4 DEF LogoutForget
  <2>5. CASE LogoutRestore(h)
    BY <2>5 DEF LogoutRestore
  <2>6. CASE LogoutStore(h)
    BY <2>6 DEF LogoutStore
  <2>. QED BY <1>5, <2>1, <2>2, <2>3, <2>4, <2>5, <2>6 DEF Logout
<1>6. ASSUME NEW h \in Handlers, Snapshot(h) PROVE CacheBelongsToToken'
  <2>1. CASE SnapshotBegin(h)
    BY <2>1 DEF SnapshotBegin
  <2>2. CASE SnapshotFork(h)
    BY <2>2 DEF SnapshotFork
  <2>3. CASE SnapshotCall(h)
    BY <2>3 DEF SnapshotCall
  <2>4. CASE SnapshotMerge(h)
    BY <2>4 DEF SnapshotMerge
  <2>. QED BY <1>6, <2>1, <2>2, <2>3, <2>4 DEF Snapshot
<1>7. ASSUME NEW h \in Handlers, Gateway(h) PROVE CacheBelongsToToken'
  <2>1. CASE GatewayBegin(h)
    BY <2>1 DEF GatewayBegin
  <2>2. CASE GatewayCall(h)
    BY <2>2 DEF GatewayCall
  <2>3. CASE GatewayRoute(h)
    BY <2>3 DEF GatewayRoute
  <2>. QED BY <1>7, <2>1, <2>2, <2>3 DEF Gateway
<1>. QED BY <1>1, <1>2, <1>3, <1>4, <1>5, <1>6, <1>7 DEF Next

-----------------------------------------------------------------------------
\* Both the signed-in and the signed-out start satisfy the invariant.
LEMMA InitIInv == Init => IInv
<1> SUFFICES ASSUME Init PROVE IInv
    OBVIOUS
<1>1. Types
  <2>1. /\ token \in Nat /\ cache \in Nat /\ store \in Nat
        /\ epoch \in Nat /\ pending \in Nat /\ minted \in Nat
        /\ valid \subseteq Nat
      BY DEF Init, None
  <2>2. routed \in BOOLEAN /\ clearFailed \in BOOLEAN
      BY DEF Init
  <2>3. /\ pc \in [Handlers -> Labels]
        /\ ep \in [Handlers -> Nat] /\ tok \in [Handlers -> Nat]
        /\ fresh \in [Handlers -> Nat] /\ code \in [Handlers -> Nat]
      BY DEF Init, Labels, None
  <2>4. /\ adapterLock \in Handlers \cup {NoHandler}
        /\ refreshLock \in Handlers \cup {NoHandler}
        /\ snapshotLock \in Handlers \cup {NoHandler}
        /\ from \in [token : Nat, store : Nat]
        /\ out \in [token : Nat, store : Nat, pending : Nat]
      BY DEF Init
  <2>. QED BY <2>1, <2>2, <2>3, <2>4 DEF Types
<1>2. LocksHeld
  <2>1. ASSUME NEW h \in Handlers
        PROVE  /\ pc[h] = "idle"
               /\ refreshLock # h /\ snapshotLock # h /\ adapterLock # h
      BY SessionAssumption DEF Init
  <2>. QED BY <2>1 DEF LocksHeld, InRefresh, InSnapshot, InPollCritical
<1>3. Epochs
    BY DEF Init, Epochs
<1>4. SessionInv
    BY DEF Init, SessionInv, SignOutClearsAdapter, SignOutClearsStore,
           SignOutClearsPending, CacheBelongsToToken, None
<1>. QED BY <1>1, <1>2, <1>3, <1>4 DEF IInv, TypeOK

\* The invariant is inductive.
LEMMA NextIInv == IInv /\ [Next]_vars => IInv'
BY TypesNext, LocksHeldNext, EpochsNext, AdapterNext, StoreNext, PendingNext,
   CacheNext DEF IInv, TypeOK, SessionInv

THEOREM SessionInvariant == Spec => []IInv
<1>1. IInv /\ [Next]_vars => IInv'
    BY NextIInv
<1>. QED BY InitIInv, <1>1, PTL DEF Spec

\* Types, and the locks: no way out of a command leaves a guard behind.
THEOREM TypeCorrect == Spec => []TypeOK
<1>1. IInv => TypeOK
    BY DEF IInv
<1>. QED BY SessionInvariant, <1>1, PTL

\* A command begun before a sign-out never puts a token back in the adapter.
THEOREM SignOutHoldsInAdapter == Spec => []SignOutClearsAdapter
<1>1. IInv => SignOutClearsAdapter
    BY DEF IInv, SessionInv
<1>. QED BY SessionInvariant, <1>1, PTL

\* Nor does it leave one in the credential store once it has returned, unless
\* the store failed to clear.
THEOREM SignOutHoldsInStore == Spec => []SignOutClearsStore
<1>1. IInv => SignOutClearsStore
    BY DEF IInv, SessionInv
<1>. QED BY SessionInvariant, <1>1, PTL

\* A device code asked for before a sign-out is never on offer after it.
THEOREM SignOutHoldsForPending == Spec => []SignOutClearsPending
<1>1. IInv => SignOutClearsPending
    BY DEF IInv, SessionInv
<1>. QED BY SessionInvariant, <1>1, PTL

\* Signing out is final, in all the three places.
THEOREM SignOutHolds == Spec => []SignOutIsFinal
<1>1. SignOutClearsAdapter /\ SignOutClearsStore /\ SignOutClearsPending => SignOutIsFinal
    BY DEF SignOutIsFinal
<1>. QED BY SignOutHoldsInAdapter, SignOutHoldsInStore, SignOutHoldsForPending, <1>1, PTL

\* Cached usage is never shown under another account's token.
THEOREM CacheIsTheTokens == Spec => []CacheBelongsToToken
<1>1. IInv => CacheBelongsToToken
    BY DEF IInv, SessionInv
<1>. QED BY SessionInvariant, <1>1, PTL
=============================================================================
