------------------------ MODULE SubscriptionStore_proofs -----------------------
(***************************************************************************)
(* Proofs about the Store, for any accounts and chats and any number of    *)
(* failing saves and restarts.                                             *)
(*                                                                         *)
(* The argument.  The memory changes only when the lock is taken, and the  *)
(* holder of the lock is the only one to save: so what is about to be      *)
(* renamed is the memory (SnapshotIsCurrent), and a removal that is being  *)
(* saved is one that the memory shows (RemovalIsUnderWay).  What leaves    *)
(* the file then has left the memory in the same update as its chats       *)
(* (ChatsLeaveTogether).                                                   *)
(***************************************************************************)
EXTENDS SubscriptionStore, TLAPS

\* Between the write of the temporary file and its rename it holds the memory, and a
\* program that was killed holds no lock.
SnapshotIsCurrent ==
  /\ ~alive => ~Locked
  /\ Locked /\ update.step = "rename" => temporary = Memory

\* The account whose removal is being saved has left the memory, and is not called
\* removed before that.
RemovalIsUnderWay ==
  Locked /\ update.kind = "remove" =>
    /\ update.account \in Accounts /\ update.account \notin accounts
    /\ removing[update.account] = "committing"

\* Until a save fails, what the file has and the memory has not owns no chat.
ChatsLeaveTogether ==
  failures = 0 =>
    /\ clean
    /\ alive => \A a \in disk.accounts \ accounts, t \in Threads : owners[t] # a

\* Nobody removes the controller account.
PrimaryStays == removing[Primary] = "no"

IInv ==
  Inv /\ RemovalIsFinal /\ SnapshotIsCurrent /\ RemovalIsUnderWay /\ PrimaryStays
    /\ ChatsLeaveTogether

--------------------------------------------------------------------------------
LEMMA InitIInv == Init => IInv
<1>. SUFFICES ASSUME Init PROVE IInv
  OBVIOUS
<1>. USE StoreAssumption DEF Init
<1>1. Memory \in States /\ disk = Memory
  BY DEF Memory, States
<1>. QED
  BY <1>1
     DEF IInv, Inv, TypeOK, CleanStoreIsOnDisk, RemovalIsFinal, SnapshotIsCurrent,
         RemovalIsUnderWay, PrimaryStays, ChatsLeaveTogether, Locked, Memory

\* The memory, part by part.
LEMMA MemoryParts ==
  /\ Memory \in States <=> /\ accounts \subseteq Accounts
                           /\ owners \in [Threads -> Accounts \union {NoAccount}]
  /\ Memory.accounts = accounts /\ Memory.owners = owners
BY DEF Memory, States

\* A step that leaves the memory, the files and the lock alone, and calls no removal
\* finished.
LEMMA OutsideTheLock ==
  ASSUME IInv, UNCHANGED <<alive, accounts, owners, disk, temporary, update, failures, crashes,
                           clean>>,
         homes' \subseteq Accounts, syncing' \subseteq Accounts,
         auth' \in [Accounts -> {"none", "home", "backup"}],
         removing' \in [Accounts -> {"no", "moving", "committing", "failed", "removed"}],
         \A a \in Accounts : removing'[a] = "removed" => removing[a] = "removed",
         removing'[Primary] = "no",
         Locked => \A a \in Accounts : removing[a] = "committing" => removing'[a] = "committing"
  PROVE  IInv'
<1>1. UNCHANGED <<Memory, Locked>>
  BY DEF Memory, Locked
<1>. QED
  BY <1>1 DEF IInv, Inv, TypeOK, CleanStoreIsOnDisk, RemovalIsFinal, SnapshotIsCurrent,
              RemovalIsUnderWay, PrimaryStays, ChatsLeaveTogether

\* An update takes the lock that nobody holds, and changes the memory in a way that
\* only a removal makes accounts leave, with their chats.
LEMMA BeginUpdate ==
  ASSUME IInv, alive, ~Locked, NEW u \in Updates, update' = u, u.step = "write",
         UNCHANGED <<alive, disk, temporary, removing, syncing, failures, crashes, clean>>,
         homes' \subseteq Accounts, auth' \in [Accounts -> {"none", "home", "backup"}],
         accounts' \subseteq Accounts, owners' \in [Threads -> Accounts \union {NoAccount}],
         \A a \in Accounts : removing[a] = "removed" => a \notin accounts',
         u.kind = "remove" => /\ u.account \in Accounts /\ u.account \notin accounts'
                              /\ removing[u.account] = "committing",
         \A a \in accounts \ accounts', t \in Threads : owners'[t] # a
  PROVE  IInv'
<1>1. TypeOK'
  BY MemoryParts DEF IInv, Inv, TypeOK, Memory, States
<1>2. Locked'
  BY StoreAssumption DEF Locked
<1>3. /\ RemovalIsFinal' /\ SnapshotIsCurrent' /\ RemovalIsUnderWay' /\ PrimaryStays'
      /\ CleanStoreIsOnDisk'
  BY <1>2
     DEF IInv, RemovalIsFinal, SnapshotIsCurrent, RemovalIsUnderWay, PrimaryStays,
         CleanStoreIsOnDisk
<1>4. ChatsLeaveTogether'
  <2>. SUFFICES ASSUME failures = 0
                PROVE  clean /\ \A a \in disk.accounts \ accounts', t \in Threads : owners'[t] # a
    BY DEF ChatsLeaveTogether
  <2>1. clean /\ disk.accounts = accounts
    BY MemoryParts DEF IInv, Inv, ChatsLeaveTogether, CleanStoreIsOnDisk
  <2>. QED
    BY <2>1
<1>. QED
  BY <1>1, <1>3, <1>4 DEF IInv, Inv

\* The updates of the memory.
LEMMA StepUpdate ==
  ASSUME IInv, NEW a \in Accounts,
         \/ AddAccount(a) \/ UpdateAccount(a) \/ CommitRemoval(a)
         \/ \E t \in Threads : SetThreadOwner(t, a)
  PROVE  IInv'
<1>. USE DEF IInv, Inv, TypeOK, fileVars, homeVars, memoryVars
<1>. accounts \subseteq Accounts /\ owners \in [Threads -> Accounts \union {NoAccount}]
  BY MemoryParts
<1>. \A b \in Accounts : removing[b] = "removed" => b \notin accounts
  BY DEF RemovalIsFinal
<1>1. CASE AddAccount(a)
  <2>. DEFINE u == [kind |-> "add", account |-> a, step |-> "write"]
  <2>1. u \in Updates /\ u.step = "write" /\ u.kind # "remove"
    BY DEF Updates
  <2>2. auth' \in [Accounts -> {"none", "home", "backup"}]
    BY <1>1 DEF AddAccount
  <2>3. accounts' = accounts \union {a} /\ removing[a] = "no" /\ UNCHANGED owners /\ update' = u
    BY <1>1 DEF AddAccount
  <2>4. /\ alive /\ ~Locked /\ homes' \subseteq Accounts
        /\ UNCHANGED <<alive, disk, temporary, removing, syncing, failures, crashes, clean>>
    BY <1>1 DEF AddAccount
  <2>. HIDE DEF u
  <2>. QED
    BY <2>1, <2>2, <2>3, <2>4, BeginUpdate
<1>2. CASE UpdateAccount(a)
  <2>. DEFINE u == [kind |-> "set", account |-> a, step |-> "write"]
  <2>1. u \in Updates /\ u.step = "write" /\ u.kind # "remove"
    BY DEF Updates
  <2>2. /\ alive /\ ~Locked /\ update' = u
        /\ UNCHANGED <<alive, accounts, owners, homes, auth, disk, temporary, removing, syncing,
                       failures, crashes, clean>>
    BY <1>2 DEF UpdateAccount
  <2>. HIDE DEF u
  <2>. QED
    BY <2>1, <2>2, BeginUpdate
<1>3. CASE CommitRemoval(a)
  <2>. DEFINE u == [kind |-> "remove", account |-> a, step |-> "write"]
  <2>1. u \in Updates /\ u.step = "write" /\ u.account = a
    BY DEF Updates
  <2>2. /\ alive /\ ~Locked /\ removing[a] = "committing"
        /\ update' = u /\ accounts' = accounts \ {a}
        /\ owners' = [t \in Threads |-> IF owners[t] = a THEN NoAccount ELSE owners[t]]
        /\ UNCHANGED <<alive, homes, auth, disk, temporary, removing, syncing, failures, crashes,
                       clean>>
    BY <1>3 DEF CommitRemoval, OwnersWithout
  <2>3. /\ owners' \in [Threads -> Accounts \union {NoAccount}]
        /\ \A b \in accounts \ accounts', t \in Threads : owners'[t] # b
    BY <2>2, StoreAssumption
  <2>. HIDE DEF u
  <2>. QED
    BY <2>1, <2>2, <2>3, BeginUpdate
<1>4. ASSUME NEW t \in Threads, SetThreadOwner(t, a) PROVE IInv'
  <2>. DEFINE u == [kind |-> "own", thread |-> t, step |-> "write"]
  <2>1. u \in Updates /\ u.step = "write" /\ u.kind # "remove"
    BY DEF Updates
  <2>2. /\ alive /\ ~Locked /\ update' = u /\ owners' = [owners EXCEPT ![t] = a]
        /\ UNCHANGED <<alive, accounts, homes, auth, disk, temporary, removing, syncing, failures,
                       crashes, clean>>
    BY <1>4 DEF SetThreadOwner, BeginSave
  <2>3. owners' \in [Threads -> Accounts \union {NoAccount}]
    BY <2>2
  <2>. HIDE DEF u
  <2>. QED
    BY <2>1, <2>2, <2>3, BeginUpdate
<1>. QED
  BY <1>1, <1>2, <1>3, <1>4

LEMMA StepWriteTemporary == ASSUME IInv, WriteTemporary PROVE IInv'
<1>. USE DEF IInv, Inv, TypeOK, homeVars, memoryVars
<1>1. /\ alive /\ Locked /\ temporary' = Memory /\ update' = [update EXCEPT !.step = "rename"]
      /\ UNCHANGED <<alive, accounts, owners, disk, homes, auth, removing, syncing, failures,
                     crashes, clean>>
  BY DEF WriteTemporary
<1>2. UNCHANGED Memory
  BY <1>1 DEF Memory
<1>3. /\ update' \in Updates /\ update'.kind = update.kind
      /\ update.kind = "remove" => update'.account = update.account
  BY <1>1 DEF Locked, Updates
<1>4. Locked'
  BY <1>3, StoreAssumption DEF Locked
<1>5. TypeOK'
  BY <1>1, <1>2, <1>3
<1>. QED
  BY <1>1, <1>2, <1>3, <1>4, <1>5
     DEF CleanStoreIsOnDisk, RemovalIsFinal, SnapshotIsCurrent, RemovalIsUnderWay,
         PrimaryStays, ChatsLeaveTogether

LEMMA StepRename == ASSUME IInv, Rename PROVE IInv'
<1>. USE DEF IInv, Inv, TypeOK, homeVars, memoryVars
<1>1. /\ alive /\ Locked /\ update.step = "rename" /\ clean' = TRUE /\ update' = NoState
      /\ temporary' = NoState /\ disk' = temporary
      /\ UNCHANGED <<alive, accounts, owners, homes, auth, syncing, failures, crashes>>
  BY DEF Rename
<1>2. temporary = Memory /\ Memory' = Memory /\ disk' = Memory /\ ~Locked'
  BY <1>1 DEF SnapshotIsCurrent, Memory, Locked
<1>3. disk'.accounts = accounts'
  BY <1>1, <1>2, MemoryParts
<1>4. /\ removing' \in [Accounts -> {"no", "moving", "committing", "failed", "removed"}]
      /\ \A a \in Accounts : removing'[a] = "removed" => a \notin accounts
      /\ PrimaryStays'
  <2>1. \A a \in Accounts : removing[a] = "removed" => a \notin accounts
    BY DEF RemovalIsFinal
  <2>2. CASE update.kind = "remove"
    <3>1. removing' = [removing EXCEPT ![update.account] = "removed"]
      BY <2>2 DEF Rename
    <3>2. /\ update.account \in Accounts /\ update.account \notin accounts
          /\ removing[update.account] = "committing" /\ removing[Primary] = "no"
      BY <1>1, <2>2 DEF RemovalIsUnderWay, PrimaryStays
    <3>3. \A a \in Accounts : removing'[a] = "removed" => a \notin accounts
      BY <2>1, <3>1, <3>2
    <3>4. removing'[Primary] = "no"
      BY <3>1, <3>2, StoreAssumption
    <3>. QED
      BY <3>1, <3>2, <3>3, <3>4 DEF PrimaryStays
  <2>3. CASE update.kind # "remove"
    BY <2>1, <2>3 DEF Rename, PrimaryStays
  <2>. QED
    BY <2>2, <2>3
<1>5. TypeOK'
  BY <1>1, <1>2, <1>4
<1>. QED
  BY <1>1, <1>2, <1>3, <1>4, <1>5
     DEF CleanStoreIsOnDisk, RemovalIsFinal, SnapshotIsCurrent, RemovalIsUnderWay,
         PrimaryStays, ChatsLeaveTogether

LEMMA StepSaveFails == ASSUME IInv, SaveFails PROVE IInv'
<1>. USE DEF IInv, Inv, TypeOK, homeVars, memoryVars, fileVars
<1>1. /\ clean' = FALSE /\ update' = NoState /\ failures < MaxFailures /\ failures' = failures + 1
      /\ UNCHANGED <<alive, accounts, owners, disk, temporary, homes, auth, syncing, crashes>>
  BY DEF SaveFails
<1>2. Memory' = Memory /\ ~Locked'
  BY <1>1 DEF Memory, Locked
<1>3. /\ removing' \in [Accounts -> {"no", "moving", "committing", "failed", "removed"}]
      /\ \A a \in Accounts : removing'[a] = "removed" => removing[a] = "removed"
      /\ PrimaryStays'
  <2>1. CASE update.kind = "remove"
    <3>1. removing[update.account] = "committing" /\ removing[Primary] = "no"
      BY <1>1, <2>1 DEF SaveFails, RemovalIsUnderWay, PrimaryStays
    <3>2. removing' = [removing EXCEPT ![update.account] = "failed"]
      BY <2>1 DEF SaveFails, FailedUpdate
    <3>. QED
      BY <3>1, <3>2, StoreAssumption DEF PrimaryStays
  <2>2. CASE update.kind # "remove"
    BY <2>2 DEF SaveFails, PrimaryStays
  <2>. QED
    BY <2>1, <2>2
<1>4. failures' \in 0..MaxFailures /\ failures' # 0
  BY <1>1, StoreAssumption
<1>5. TypeOK'
  BY <1>1, <1>2, <1>3, <1>4
<1>. QED
  BY <1>1, <1>2, <1>3, <1>4, <1>5
     DEF CleanStoreIsOnDisk, RemovalIsFinal, SnapshotIsCurrent, RemovalIsUnderWay,
         PrimaryStays, ChatsLeaveTogether

LEMMA StepOutside ==
  ASSUME IInv, NEW a \in Accounts,
         Login(a) \/ BeginRemove(a) \/ MoveHome(a) \/ BeginSync \/ SyncHome(a) \/ UNCHANGED vars
  PROVE  IInv'
<1>. USE DEF IInv, Inv, TypeOK, homeVars, memoryVars, fileVars, vars
<1>. accounts \subseteq Accounts
  BY MemoryParts
<1>. removing[Primary] = "no" /\ Primary \in Accounts
  BY StoreAssumption DEF PrimaryStays
<1>1. CASE Login(a) \/ BeginSync \/ SyncHome(a) \/ UNCHANGED vars
  BY <1>1, OutsideTheLock DEF Login, BeginSync, SyncHome
<1>2. CASE BeginRemove(a)
  <2>1. ~Locked /\ a # Primary /\ removing' = [removing EXCEPT ![a] = "moving"]
    BY <1>2 DEF BeginRemove
  <2>. QED
    BY <1>2, <2>1, OutsideTheLock DEF BeginRemove
<1>3. CASE MoveHome(a)
  <2>1. auth' \in [Accounts -> {"none", "home", "backup"}]
    BY <1>3 DEF MoveHome
  <2>2. /\ removing[a] = "moving" /\ a # Primary
        /\ \E outcome \in {"failed", "committing"} :
             removing' = [removing EXCEPT ![a] = outcome]
    BY <1>3 DEF MoveHome
  <2>3. /\ removing' \in [Accounts -> {"no", "moving", "committing", "failed", "removed"}]
        /\ \A b \in Accounts : removing'[b] = "removed" => removing[b] = "removed"
        /\ removing'[Primary] = "no"
        /\ \A b \in Accounts : removing[b] = "committing" => removing'[b] = "committing"
    BY <2>2
  <2>4. homes' \subseteq Accounts
    BY <1>3 DEF MoveHome
  <2>. QED
    BY <1>3, <2>1, <2>3, <2>4, OutsideTheLock DEF MoveHome
<1>. QED
  BY <1>1, <1>2, <1>3

LEMMA StepCrash == ASSUME IInv, Crash PROVE IInv'
<1>. USE DEF IInv, Inv, TypeOK, homeVars, memoryVars, fileVars
<1>1. /\ alive' = FALSE /\ update' = NoState /\ syncing' = {} /\ crashes < MaxCrashes
      /\ crashes' = crashes + 1
      /\ UNCHANGED <<accounts, owners, disk, temporary, homes, auth, failures, clean>>
  BY DEF Crash
<1>2. /\ removing' \in [Accounts -> {"no", "moving", "committing", "failed", "removed"}]
      /\ \A a \in Accounts : removing'[a] = "removed" => removing[a] = "removed"
      /\ PrimaryStays'
  BY StoreAssumption DEF Crash, PrimaryStays
<1>3. Memory' = Memory /\ ~Locked'
  BY <1>1 DEF Memory, Locked
<1>4. crashes' \in 0..MaxCrashes
  BY <1>1, StoreAssumption
<1>5. TypeOK'
  BY <1>1, <1>2, <1>3, <1>4
<1>. QED
  BY <1>1, <1>2, <1>3, <1>5
     DEF CleanStoreIsOnDisk, RemovalIsFinal, SnapshotIsCurrent, RemovalIsUnderWay,
         PrimaryStays, ChatsLeaveTogether

LEMMA StepOpen == ASSUME IInv, Open PROVE IInv'
<1>. USE DEF IInv, Inv, TypeOK
<1>1. /\ ~alive /\ alive' = TRUE /\ accounts' = disk.accounts /\ owners' = disk.owners
      /\ homes' = homes \union (disk.accounts \ {Primary}) /\ clean' = TRUE
      /\ UNCHANGED <<disk, temporary, update, auth, removing, syncing, failures, crashes>>
  BY DEF Open, LoadedOwners, fileVars
<1>2. Memory' = disk /\ disk' = disk
  BY <1>1 DEF Memory, States
<1>3. ~Locked'
  BY <1>1 DEF SnapshotIsCurrent, Locked
<1>4. TypeOK'
  BY <1>1, <1>2 DEF States
<1>. QED
  BY <1>1, <1>2, <1>3, <1>4
     DEF CleanStoreIsOnDisk, RemovalIsFinal, SnapshotIsCurrent, RemovalIsUnderWay,
         PrimaryStays, ChatsLeaveTogether

LEMMA StepIInv == IInv /\ [Next]_vars => IInv'
<1>. SUFFICES ASSUME IInv, [Next]_vars PROVE IInv'
  OBVIOUS
<1>1. CASE BeginSync \/ UNCHANGED vars
  BY <1>1, StepOutside, StoreAssumption
<1>2. CASE \E a \in Accounts : Login(a) \/ BeginRemove(a) \/ MoveHome(a) \/ SyncHome(a)
  BY <1>2, StepOutside
<1>3. CASE \E a \in Accounts : AddAccount(a) \/ UpdateAccount(a) \/ CommitRemoval(a)
  BY <1>3, StepUpdate
<1>4. CASE \E t \in Threads, a \in Accounts : SetThreadOwner(t, a)
  BY <1>4, StepUpdate
<1>. QED
  BY <1>1, <1>2, <1>3, <1>4, StepWriteTemporary, StepRename, StepSaveFails, StepCrash, StepOpen
     DEF Next

LEMMA Invariance == Spec => []IInv
BY InitIInv, StepIInv, PTL DEF Spec

\* Only a rename changes the file.
LEMMA OnlyRenameCommits == [Next]_vars /\ disk' # disk => Rename
BY DEF Next, AddAccount, Login, BeginRemove, MoveHome, CommitRemoval, SyncHome, UpdateAccount,
       SetThreadOwner, WriteTemporary, SaveFails, BeginSync, Crash, Open, fileVars, vars

--------------------------------------------------------------------------------
\* Memory and file agree between two updates as long as the last save succeeded.
THEOREM CleanStoreAgrees == Spec => []Inv
<1>1. IInv => Inv
  BY DEF IInv
<1>. QED
  BY <1>1, Invariance, PTL

\* An account whose removal was acknowledged stays out of memory and file, whatever
\* is saved, fails or is killed later.
THEOREM RemovalsAreFinal == Spec => []RemovalIsFinal
<1>1. IInv => RemovalIsFinal
  BY DEF IInv
<1>. QED
  BY <1>1, Invariance, PTL

\* As long as no save has failed, one rename takes an account out of the file together
\* with all its chats.
THEOREM RemovalIsOneCommit == Spec => AccountLeavesWithItsChats
<1>. DEFINE A == \A a \in disk.accounts \ disk'.accounts :
                   failures = 0 => \A t \in Threads : disk'.owners[t] # a
<1>1. IInv /\ [Next]_vars => A
  <2>. SUFFICES ASSUME IInv, [Next]_vars, NEW a \in disk.accounts \ disk'.accounts, failures = 0,
                       NEW t \in Threads
                PROVE  disk'.owners[t] # a
    OBVIOUS
  <2>1. Rename
    BY OnlyRenameCommits
  <2>2. alive /\ disk' = Memory
    BY <2>1 DEF Rename, IInv, SnapshotIsCurrent
  <2>. QED
    BY <2>2, MemoryParts DEF IInv, ChatsLeaveTogether
<1>2. IInv /\ [Next]_vars => [A]_vars
  BY <1>1
<1>. QED
  BY <1>2, Invariance, PTL DEF Spec, AccountLeavesWithItsChats

--------------------------------------------------------------------------------
(* The Store implements the durable table, step by step.                   *)

\* The refinement mapping.
Table == IF alive THEN Memory ELSE disk
Gone == {a \in Accounts : removing[a] = "removed"}

\* What the operations do to the table.
LEMMA TableUpdates ==
  ASSUME IInv, NEW a \in Accounts,
         \/ AddAccount(a) \/ UpdateAccount(a) \/ CommitRemoval(a)
         \/ \E t \in Threads : SetThreadOwner(t, a)
  PROVE  [Durable!Next]_Durable!storeVars
<1>1. /\ alive /\ alive' /\ Table = Memory /\ Table' = Memory' /\ disk' = disk /\ Gone' = Gone
      /\ accounts \subseteq Accounts /\ owners \in [Threads -> Accounts \union {NoAccount}]
  BY MemoryParts
     DEF IInv, Inv, TypeOK, Table, Gone, AddAccount, UpdateAccount, CommitRemoval, SetThreadOwner,
         fileVars
<1>2. CASE AddAccount(a)
  <2>1. a \notin Table.accounts \union Gone
    BY <1>1, <1>2 DEF AddAccount, Memory, Gone
  <2>2. Table' = [Table EXCEPT !.accounts = @ \union {a}]
    BY <1>1, <1>2 DEF AddAccount, Memory
  <2>3. Durable!Add(a)
    BY <1>1, <2>1, <2>2 DEF Durable!Add, Table, Gone
  <2>. QED
    BY <2>3 DEF Durable!Next
<1>3. CASE UpdateAccount(a)
  <2>. Table' = Table
    BY <1>1, <1>3 DEF UpdateAccount, memoryVars, Memory
  <2>. QED
    BY <1>1 DEF Durable!storeVars, Table, Gone
<1>4. CASE CommitRemoval(a)
  <2>1. a \in Table.accounts \ {Primary}
    BY <1>1, <1>4 DEF CommitRemoval, Memory, IInv, PrimaryStays
  <2>2. Table' = [accounts |-> Table.accounts \ {a},
                  owners |-> [t \in Threads |->
                                IF Table.owners[t] = a THEN NoAccount ELSE Table.owners[t]]]
    BY <1>1, <1>4 DEF CommitRemoval, OwnersWithout, Memory
  <2>3. Durable!Remove(a)
    BY <1>1, <2>1, <2>2 DEF Durable!Remove, Table, Gone
  <2>. QED
    BY <2>3 DEF Durable!Next
<1>5. ASSUME NEW t \in Threads, SetThreadOwner(t, a) PROVE Durable!Next
  <2>1. Table' = [Table EXCEPT !.owners[t] = a]
    BY <1>1, <1>5 DEF SetThreadOwner, Memory
  <2>2. Durable!Assign(t, a)
    BY <1>1, <2>1 DEF Durable!Assign, Table, Gone
  <2>. QED
    BY <2>2 DEF Durable!Next
<1>. QED
  BY <1>2, <1>3, <1>4, <1>5

\* A rename saves the table, and confirms a removal.
LEMMA RenameSaves == ASSUME IInv, Rename PROVE Durable!Next
<1>1. /\ alive /\ alive' /\ Table = Memory /\ Table' = Memory
      /\ disk' = Memory /\ Memory' = Memory /\ accounts = Table.accounts
  BY DEF Rename, IInv, SnapshotIsCurrent, Table, Memory, memoryVars
<1>2. \E removed \in SUBSET (Accounts \ Table.accounts) : Gone' = Gone \union removed
  <2>1. removing \in [Accounts -> {"no", "moving", "committing", "failed", "removed"}]
    BY DEF IInv, Inv, TypeOK
  <2>2. CASE update.kind = "remove"
    <3>1. update.account \in Accounts \ Table.accounts
      BY <1>1, <2>2 DEF Rename, IInv, RemovalIsUnderWay
    <3>2. removing' = [removing EXCEPT ![update.account] = "removed"]
      BY <2>2 DEF Rename
    <3>3. Gone' = Gone \union {update.account}
      BY <2>1, <3>1, <3>2 DEF Gone
    <3>. QED
      BY <3>1, <3>3
  <2>3. CASE update.kind # "remove"
    <3>. Gone' = Gone \union {}
      BY <2>3 DEF Rename, Gone
    <3>. QED
      OBVIOUS
  <2>. QED
    BY <2>2, <2>3
<1>3. Durable!Save
  BY <1>1, <1>2 DEF Durable!Save, Table, Gone
<1>. QED
  BY <1>3 DEF Durable!Next

\* A kill goes back to the copy, and the start that follows finds it.
LEMMA CrashRestarts == ASSUME IInv, Crash PROVE Durable!Next
<1>1. ~alive' /\ disk' = disk /\ Table' = disk
  BY DEF Crash, fileVars, Table
<1>2. Gone' = Gone
  BY DEF Crash, Gone, IInv, Inv, TypeOK
<1>3. Durable!Restart
  BY <1>1, <1>2 DEF Durable!Restart, Table, Gone
<1>. QED
  BY <1>3 DEF Durable!Next

\* All other steps leave the table, the copy and what was confirmed.
LEMMA OthersStutter ==
  ASSUME IInv,
         \/ \E a \in Accounts : Login(a) \/ BeginRemove(a) \/ MoveHome(a) \/ SyncHome(a)
         \/ WriteTemporary \/ SaveFails \/ BeginSync \/ Open \/ UNCHANGED vars
  PROVE  UNCHANGED Durable!storeVars
<1>1. disk' = disk /\ Table' = Table
  <2>1. CASE Open
    <3>. disk = [accounts |-> disk.accounts, owners |-> disk.owners]
      BY DEF IInv, Inv, TypeOK, States
    <3>. QED
      BY <2>1 DEF Open, LoadedOwners, Table, Memory, fileVars
  <2>2. CASE ~Open
    BY <2>2 DEF Login, BeginRemove, MoveHome, SyncHome, WriteTemporary, SaveFails, BeginSync, vars,
                memoryVars, fileVars, Table, Memory
  <2>. QED
    BY <2>1, <2>2
<1>2. Gone' = Gone
  <2>. removing \in [Accounts -> {"no", "moving", "committing", "failed", "removed"}]
    BY DEF IInv, Inv, TypeOK
  <2>1. CASE SaveFails
    <3>. update.kind = "remove" =>
           update.account \in Accounts /\ removing[update.account] # "removed"
      BY <2>1 DEF SaveFails, IInv, RemovalIsUnderWay
    <3>. QED
      BY <2>1 DEF SaveFails, FailedUpdate, Gone
  <2>2. ASSUME NEW a \in Accounts, BeginRemove(a) \/ MoveHome(a) PROVE Gone' = Gone
    BY <2>2 DEF BeginRemove, MoveHome, Gone
  <2>3. CASE UNCHANGED removing
    BY <2>3 DEF Gone
  <2>. QED
    BY <2>1, <2>2, <2>3 DEF Login, SyncHome, WriteTemporary, BeginSync, Open, vars
<1>. QED
  BY <1>1, <1>2 DEF Durable!storeVars, Table, Gone

\* The Store implements the durable table, whatever fails and whenever it is killed:
\* memory changes by one whole operation at a time, a commit is of the memory of that
\* moment, and a start finds the last commit.
THEOREM StoreIsDurable == Spec => ImplementsDurableStore
<1>1. Init => Durable!Init
  BY DEF Init, Durable!Init, Memory
<1>2. IInv /\ [Next]_vars => [Durable!Next]_Durable!storeVars
  <2>. SUFFICES ASSUME IInv, [Next]_vars PROVE [Durable!Next]_Durable!storeVars
    OBVIOUS
  <2>1. CASE \/ \E a \in Accounts : AddAccount(a) \/ UpdateAccount(a) \/ CommitRemoval(a)
             \/ \E t \in Threads, a \in Accounts : SetThreadOwner(t, a)
    BY <2>1, TableUpdates
  <2>2. CASE Rename
    BY <2>2, RenameSaves
  <2>3. CASE Crash
    BY <2>3, CrashRestarts
  <2>4. CASE \/ \E a \in Accounts : Login(a) \/ BeginRemove(a) \/ MoveHome(a) \/ SyncHome(a)
             \/ WriteTemporary \/ SaveFails \/ BeginSync \/ Open \/ UNCHANGED vars
    BY <2>4, OthersStutter
  <2>. QED
    BY <2>1, <2>2, <2>3, <2>4 DEF Next
<1>. QED
  BY <1>1, <1>2, Invariance, PTL DEF Spec, ImplementsDurableStore, Durable!Spec

================================================================================
