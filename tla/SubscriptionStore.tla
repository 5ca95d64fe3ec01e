--------------------------- MODULE SubscriptionStore ---------------------------
(***************************************************************************)
(* The Store of internal/state: accounts and chat owners in memory, and    *)
(* state.json, which saveLocked replaces by writing state.json.tmp and     *)
(* renaming it; together with the directories accounts/<id>, which         *)
(* RemoveAccount moves into the backups and the two-second loop of         *)
(* SyncManagedConfig writes into.  Saves may fail, and the program may be  *)
(* killed and started again at any point.                                  *)
(***************************************************************************)
EXTENDS Naturals

CONSTANTS
  Accounts,   \* ids that are ever used; every one is random and used once
  Primary,    \* the controller account
  Threads,    \* chats
  NoAccount,
  NoState,    \* there is no temporary file, or no update under way
  MaxFailures, MaxCrashes   \* bounds on failing saves and on restarts

\* What holds the lock of the Store while it saves.
Updates ==
  [kind : {"add", "set", "remove"}, account : Accounts, step : {"write", "rename"}]
    \union [kind : {"own"}, thread : Threads, step : {"write", "rename"}]

ASSUME StoreAssumption ==
  /\ Primary \in Accounts /\ NoAccount \notin Accounts /\ NoState \notin Updates
  /\ MaxFailures \in Nat /\ MaxCrashes \in Nat

VARIABLES
  alive,      \* the program runs
  accounts, owners,   \* the Store in memory
  disk,       \* contents of state.json
  temporary,  \* contents of state.json.tmp
  update,     \* the update that holds the lock of the Store, while it saves
  homes,      \* accounts whose directory accounts/<id> exists
  auth,       \* where the credentials of an account are
  removing,   \* progress of RemoveAccount
  syncing,    \* accounts SyncManagedConfig has still to write
  failures, crashes,  \* how often a save failed, the program was killed
  clean       \* history: the last save that was tried has succeeded

memoryVars == <<accounts, owners>>
fileVars == <<disk, temporary>>
homeVars == <<homes, auth>>
vars == <<alive, memoryVars, fileVars, update, homeVars, removing, syncing, failures,
          crashes, clean>>

States == [accounts : SUBSET Accounts, owners : [Threads -> Accounts \union {NoAccount}]]

Memory == [accounts |-> accounts, owners |-> owners]

Locked == update # NoState

\* Open finds no state.json: the pool is the Primary account alone.
Init ==
  /\ alive = TRUE
  /\ accounts = {Primary}
  /\ owners = [t \in Threads |-> NoAccount]
  /\ disk = Memory
  /\ temporary = NoState
  /\ update = NoState
  /\ homes = {}
  /\ auth = [a \in Accounts |-> "none"]
  /\ removing = [a \in Accounts |-> "no"]
  /\ syncing = {}
  /\ failures = 0 /\ crashes = 0
  /\ clean = TRUE

--------------------------------------------------------------------------------
(* Updates. Each takes the lock, changes the memory and goes on to save.    *)

\* addAccountLocked for a label or an imported auth.json: the home, its
\* config and its credentials are written first.
AddAccount(a) ==
  /\ alive /\ ~Locked
  /\ a \notin homes /\ removing[a] = "no" /\ a \notin accounts \union {Primary}
  /\ homes' = homes \union {a}
  /\ \E place \in {"none", "home"} : auth' = [auth EXCEPT ![a] = place]
  /\ accounts' = accounts \union {a}
  /\ update' = [kind |-> "add", account |-> a, step |-> "write"]
  /\ UNCHANGED <<alive, owners, fileVars, removing, syncing, failures, crashes, clean>>

\* The app-server of an account stores a login (external).
Login(a) ==
  /\ alive /\ a \in homes /\ auth[a] = "none"
  /\ auth' = [auth EXCEPT ![a] = "home"]
  /\ UNCHANGED <<alive, memoryVars, fileVars, update, homes, removing, syncing, failures,
                 crashes, clean>>

\* UpdateAccount: a label or the enabled flag, which are not part of the model;
\* what is saved is the whole memory.
UpdateAccount(a) ==
  /\ alive /\ ~Locked /\ a \in accounts
  /\ update' = [kind |-> "set", account |-> a, step |-> "write"]
  /\ UNCHANGED <<alive, memoryVars, fileVars, homeVars, removing, syncing, failures,
                 crashes, clean>>

\* Slip: a changed owner is not saved.
BeginSave_Unsaved(u) == UNCHANGED update

\* saveLocked is entered with the lock held.
BeginSave(u) == update' = u

\* Slip: the lock is not taken, and a save under way is relied on to save this.
SetThreadOwner_Unlocked(t, a) ==
  /\ alive /\ a \in accounts /\ owners[t] # a
  /\ owners' = [owners EXCEPT ![t] = a]
  /\ IF Locked
       THEN UNCHANGED update
       ELSE BeginSave([kind |-> "own", thread |-> t, step |-> "write"])
  /\ UNCHANGED <<alive, accounts, fileVars, homeVars, removing, syncing, failures,
                 crashes, clean>>

\* SetThreadOwner, called for an account that has or had an app-server: nothing
\* checks that it is still in the pool. An owner the memory already has is not
\* saved again.
SetThreadOwner(t, a) ==
  /\ alive /\ ~Locked
  /\ a \in accounts \/ removing[a] \in {"removed", "failed"}
  /\ owners[t] # a
  /\ owners' = [owners EXCEPT ![t] = a]
  /\ BeginSave([kind |-> "own", thread |-> t, step |-> "write"])
  /\ UNCHANGED <<alive, accounts, fileVars, homeVars, removing, syncing, failures,
                 crashes, clean>>

\* saveLocked: write state.json.tmp ...
WriteTemporary ==
  /\ alive /\ Locked /\ update.step = "write"
  /\ temporary' = Memory
  /\ update' = [update EXCEPT !.step = "rename"]
  /\ UNCHANGED <<alive, memoryVars, disk, homeVars, removing, syncing, failures, crashes,
                 clean>>

\* ... and rename it. The update is over and its caller gets no error.
Rename ==
  /\ alive /\ Locked /\ update.step = "rename"
  /\ disk' = temporary
  /\ temporary' = NoState
  /\ clean' = TRUE
  /\ update' = NoState
  /\ removing' = IF update.kind = "remove"
                   THEN [removing EXCEPT ![update.account] = "removed"]
                   ELSE removing
  /\ UNCHANGED <<alive, memoryVars, homeVars, syncing, failures, crashes>>

\* Slip: the error of the save is swallowed.
FailedUpdate_Slip == "removed"

\* What RemoveAccount makes of an error of the store.
FailedUpdate == "failed"

\* A step of the save fails: the caller gets the error, the memory stays as the
\* update has left it.
SaveFails ==
  /\ alive /\ Locked /\ failures < MaxFailures
  /\ failures' = failures + 1
  /\ clean' = FALSE
  /\ update' = NoState
  /\ removing' = IF update.kind = "remove"
                   THEN [removing EXCEPT ![update.account] = FailedUpdate]
                   ELSE removing
  /\ UNCHANGED <<alive, memoryVars, fileVars, homeVars, syncing, crashes>>

--------------------------------------------------------------------------------
(* RemoveAccount of internal/mux, once the child has stopped.              *)

BeginRemove(a) ==
  /\ alive /\ ~Locked /\ a \in accounts \ {Primary} /\ removing[a] \in {"no", "failed"}
  /\ removing' = [removing EXCEPT ![a] = "moving"]
  /\ UNCHANGED <<alive, memoryVars, fileVars, update, homeVars, syncing, failures,
                 crashes, clean>>

\* backupAccountHome: the rename fails, or there is nothing to move, or the home
\* and what is in it is now in the backups.
MoveHome(a) ==
  /\ alive /\ removing[a] = "moving"
  /\ \/ /\ removing' = [removing EXCEPT ![a] = "failed"]
        /\ UNCHANGED homeVars
     \/ /\ removing' = [removing EXCEPT ![a] = "committing"]
        /\ homes' = homes \ {a}
        /\ auth' = [auth EXCEPT ![a] = IF @ = "home" THEN "backup" ELSE @]
  /\ UNCHANGED <<alive, memoryVars, fileVars, update, syncing, failures, crashes, clean>>

\* Slip: the chats of the account keep their owner.
OwnersWithout_Slip(a) == owners

OwnersWithout(a) == [t \in Threads |-> IF owners[t] = a THEN NoAccount ELSE owners[t]]

\* store.RemoveAccount: the account and its chats leave the memory.
CommitRemoval(a) ==
  /\ alive /\ ~Locked /\ removing[a] = "committing" /\ a \in accounts
  /\ accounts' = accounts \ {a}
  /\ owners' = OwnersWithout(a)
  /\ update' = [kind |-> "remove", account |-> a, step |-> "write"]
  /\ UNCHANGED <<alive, fileVars, homeVars, removing, syncing, failures, crashes, clean>>

--------------------------------------------------------------------------------
(* SyncManagedConfig: a copy of the accounts, then every home without the lock. *)

BeginSync ==
  /\ alive /\ ~Locked /\ syncing = {}
  /\ syncing' = accounts \ {Primary}
  /\ UNCHANGED <<alive, memoryVars, fileVars, update, homeVars, removing, failures,
                 crashes, clean>>

\* syncIsolatedConfig creates the home when it is missing.
SyncHome(a) ==
  /\ alive /\ a \in syncing
  /\ syncing' = syncing \ {a}
  /\ homes' = homes \union {a}
  /\ UNCHANGED <<alive, memoryVars, fileVars, update, auth, removing, failures, crashes,
                 clean>>

--------------------------------------------------------------------------------
(* The program is killed, and started again.                               *)

Crash ==
  /\ alive /\ crashes < MaxCrashes
  /\ alive' = FALSE
  /\ crashes' = crashes + 1
  /\ update' = NoState
  /\ syncing' = {}
  /\ removing' = [a \in Accounts |-> IF removing[a] = "removed" THEN "removed" ELSE "no"]
  /\ UNCHANGED <<memoryVars, fileVars, homeVars, failures, clean>>

\* A file without owners gets an empty map.
LoadedOwners == disk.owners

\* Open reads state.json and writes the config of every isolated home.
Open ==
  /\ ~alive
  /\ alive' = TRUE
  /\ accounts' = disk.accounts
  /\ owners' = LoadedOwners
  /\ homes' = homes \union (disk.accounts \ {Primary})
  /\ clean' = TRUE
  /\ UNCHANGED <<fileVars, update, auth, removing, syncing, failures, crashes>>

Next ==
  \/ \E a \in Accounts : AddAccount(a) \/ Login(a) \/ BeginRemove(a) \/ MoveHome(a)
  \/ \E a \in Accounts : CommitRemoval(a) \/ SyncHome(a) \/ UpdateAccount(a)
  \/ \E t \in Threads, a \in Accounts : SetThreadOwner(t, a)
  \/ WriteTemporary \/ Rename \/ SaveFails \/ BeginSync \/ Crash \/ Open

Spec == Init /\ [][Next]_vars

--------------------------------------------------------------------------------
\* Every variable keeps its shape.
TypeOK ==
  /\ alive \in BOOLEAN /\ clean \in BOOLEAN
  /\ Memory \in States /\ disk \in States
  /\ temporary \in States \union {NoState}
  /\ update \in Updates \union {NoState}
  /\ homes \subseteq Accounts /\ syncing \subseteq Accounts
  /\ auth \in [Accounts -> {"none", "home", "backup"}]
  /\ removing \in [Accounts -> {"no", "moving", "committing", "failed", "removed"}]
  /\ failures \in 0..MaxFailures /\ crashes \in 0..MaxCrashes

\* A removal that returned without an error is final: the account is neither in
\* memory nor in state.json, whatever is saved, fails or crashes later.
RemovalIsFinal ==
  \A a \in Accounts : removing[a] = "removed" => a \notin accounts \union disk.accounts

\* As long as no save has failed, one commit takes an account and all its chats out
\* of state.json, so that no crash can leave a chat in the file whose owner the same
\* removal has dropped.
AccountLeavesWithItsChats ==
  [][\A a \in disk.accounts \ disk'.accounts :
       failures = 0 => \A t \in Threads : disk'.owners[t] # a]_vars

\* As long as the last save that was tried succeeded, a program that is killed
\* between two updates comes back with the pool and the owners it had.
CleanStoreIsOnDisk == alive /\ clean /\ ~Locked => disk = Memory

\* What holds between any two steps of the Store: the types, and that memory and
\* file agree whenever no save has failed (CleanStoreIsOnDisk).
Inv == TypeOK /\ CleanStoreIsOnDisk

\* accounts_test.go: after RemoveAccount has returned, the isolated home is gone.
RemovedHomeIsGone == \A a \in Accounts : removing[a] = "removed" => a \notin homes

--------------------------------------------------------------------------------
(* The Store as a durable table.  A program that is not running has the    *)
(* contents of state.json for its table.                                   *)

Durable == INSTANCE DurableStore WITH
  table <- IF alive THEN Memory ELSE disk,
  saved <- disk,
  gone  <- {a \in Accounts : removing[a] = "removed"}

\* The Store implements the durable table, whatever fails and whenever it is killed:
\* the memory changes by one whole operation at a time, what is committed is the memory
\* of that moment and never a snapshot another update has made stale, a start loses
\* what was not saved and nothing else, and a removal is confirmed once it is saved.
ImplementsDurableStore == Durable!Spec

================================================================================
