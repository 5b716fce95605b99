------------------------- MODULE KvDiskCacheProofs -------------------------
(***************************************************************************)
(* Proofs about the disk cache for every set of histories, configurations  *)
(* and options.                                                            *)
(***************************************************************************)
EXTENDS KvDiskCache, CountingLemmas, TLAPS

\* A cold store never asks for more than the prompt or less than the minimum,
\* and a boundary short of the prompt leaves the trimmed tail out
\* (kv_cache_store_len).
THEOREM StoreLenBounds ==
  ASSUME NEW tokens \in Nat, tokens >= MinTokens
  PROVE  /\ StoreLen(tokens) \in MinTokens..tokens
         /\ StoreLen(tokens) # tokens => StoreLen(tokens) + Trim <= tokens
<1> DEFINE kept == tokens - Trim
<1>1. /\ Align \in Nat /\ Trim \in Nat /\ MinTokens \in Nat
  BY OptionsAssumption
<1>2. CASE ~(tokens > MinTokens + Trim)
  BY <1>1, <1>2 DEF StoreLen
<1>3. CASE tokens > MinTokens + Trim
  <2>1. kept \in Nat
    BY <1>1, <1>3
  <2>2. Align > 0 => kept % Align \in 0..(Align - 1)
    BY <1>1, <2>1
  <2>3. Align > 0 => kept - (kept % Align) \in Int /\ kept - (kept % Align) <= kept
    BY <1>1, <2>1, <2>2
  <2>4. CASE Align > 0
    BY <1>1, <1>3, <2>1, <2>3, <2>4 DEF StoreLen
  <2>5. CASE Align = 0
    BY <1>1, <1>3, <2>1, <2>5 DEF StoreLen
  <2> QED BY <1>1, <2>4, <2>5
<1> QED BY <1>2, <1>3
-----------------------------------------------------------------------------
\* The directory: every file is a snapshot of a history of sufficient length.
DiskOK ==
  /\ DOMAIN disk \subseteq Texts
  /\ disk = [k \in DOMAIN disk |-> disk[k]]
  /\ \A k \in DOMAIN disk : /\ disk[k] \in Snapshot
                            /\ Len(disk[k].tokens) >= MinTokens

SetupOK == setup \in Setup \cup {None}

LiveOK == live # None => /\ Serving /\ live.tokens \in History
                         /\ live.chunk = setup.chunk

\* A temporary file is written only for a session that is long enough.
JobOK ==
  /\ job.op \in {"idle", "write", "evict", "load"}
  /\ job.op # "idle" => Serving
  /\ job.op = "write" => LongEnough(live) /\ job.key \in Texts
  /\ job = [op |-> job.op, key |-> job.key, prompt |-> job.prompt]

CountersOK == blocked \in BOOLEAN /\ faults \in 0..MaxFaults

IInv == DiskOK /\ SetupOK /\ LiveOK /\ JobOK /\ CountersOK

LEMMA IInvInit == Init => IInv
<1> SUFFICES ASSUME Init PROVE IInv
  OBVIOUS
<1>1. DOMAIN disk = {} /\ disk = [k \in DOMAIN disk |-> disk[k]]
  BY DEF Init
<1>2. 0 \in 0..MaxFaults
  BY OptionsAssumption
<1> QED BY <1>1, <1>2 DEF Init, IInv, DiskOK, SetupOK, LiveOK, JobOK, CountersOK,
                          Idle

\* Removing a file, adding a snapshot and marking one keep the directory well
\* formed.
LEMMA WithoutOK ==
  ASSUME DiskOK, NEW k, disk' = Without(k)
  PROVE  DiskOK'
BY DEF DiskOK, Without

LEMMA WithOK ==
  ASSUME DiskOK, NEW k \in Texts, NEW f \in Snapshot, Len(f.tokens) >= MinTokens,
         disk' = With(k, f)
  PROVE  DiskOK'
BY DEF DiskOK, With

LEMMA SameDiskOK == ASSUME DiskOK, disk' = disk PROVE DiskOK'
BY DEF DiskOK

\* The three entry points of a store leave everything but the directory and the
\* job alone.
LEMMA KeepFileOK ==
  ASSUME DiskOK, Serving, NEW key \in Texts, NEW next, KeepFile(key, next)
  PROVE  DiskOK' /\ job'.op \in {"idle", "load"}
         /\ job' = [op |-> job'.op, key |-> job'.key, prompt |-> job'.prompt]
<1>1. PICK m \in 0..1 : disk' = [disk EXCEPT ![key].map = m]
  BY DEF KeepFile
<1>2. key \in DOMAIN disk
  BY DEF KeepFile, Entries
<1>3. DOMAIN disk' = DOMAIN disk
  BY <1>1
<1>4. disk' = [k \in DOMAIN disk' |-> disk'[k]]
  BY <1>1, <1>3
<1>5. ASSUME NEW k \in DOMAIN disk
      PROVE  disk'[k] \in Snapshot /\ disk'[k].tokens = disk[k].tokens
  BY <1>1, <1>2, <1>5 DEF DiskOK, Snapshot
<1>6. DiskOK'
  BY <1>3, <1>4, <1>5 DEF DiskOK
<1>7. job'.op \in {"idle", "load"}
      /\ job' = [op |-> job'.op, key |-> job'.key, prompt |-> job'.prompt]
  BY DEF KeepFile, Idle
<1> QED BY <1>6, <1>7

LEMMA BeginStoreOK ==
  ASSUME IInv, Serving, LongEnough(live), NEW key \in Texts, NEW next,
         BeginStore(key, next)
  PROVE  IInv'
<1>1. CASE KeepFile(key, next)
  <2>1. DiskOK' /\ job'.op \in {"idle", "load"}
        /\ job' = [op |-> job'.op, key |-> job'.key, prompt |-> job'.prompt]
    BY <1>1, KeepFileOK DEF IInv
  <2>2. UNCHANGED <<setup, live, blocked, faults>>
    BY <1>1 DEF KeepFile
  <2> QED BY <2>1, <2>2 DEF IInv, SetupOK, LiveOK, JobOK, CountersOK, Serving
<1>2. CASE NewFile(key, next)
  <2>1. disk' \in {disk, Without(key)}
    BY <1>2 DEF NewFile
  <2>2. DiskOK'
    BY <2>1, WithoutOK, SameDiskOK DEF IInv
  <2>3. /\ UNCHANGED <<setup, live, blocked, faults>>
        /\ job' = [op |-> "write", key |-> key, prompt |-> next]
    BY <1>2 DEF NewFile
  <2> QED BY <2>2, <2>3
          DEF IInv, SetupOK, LiveOK, JobOK, CountersOK, Serving, LongEnough
<1> QED BY <1>1, <1>2 DEF BeginStore

LEMMA StoredTexts ==
  ASSUME LiveOK, live # None, NEW current \in BOOLEAN
  PROVE  MayBeStoredAs(current) \subseteq Texts
BY DEF LiveOK, MayBeStoredAs, Texts

\* A step that leaves the files alone and ends or starts a store.
LEMMA AfterStoreOK ==
  ASSUME IInv, Serving, job' = AfterStore, UNCHANGED <<setup, live>>
  PROVE  JobOK'
BY DEF IInv, JobOK, AfterStore, Idle, Serving

LEMMA IInvNext == IInv /\ [Next]_vars => IInv'
<1> SUFFICES ASSUME IInv, [Next]_vars PROVE IInv'
  OBVIOUS
<1> USE DEF IInv
<1>1. CASE Work
  <2>1. DiskOK' /\ SetupOK' /\ JobOK' /\ CountersOK'
    BY <1>1, SameDiskOK DEF Work, SetupOK, JobOK, CountersOK, Serving, Idle
  <2>2. LiveOK'
    BY <1>1 DEF Work, LiveOK, Serving
  <2> QED BY <2>1, <2>2
<1>2. CASE Store
  <2>1. Serving /\ LongEnough(live) /\ live # None
    BY <1>2 DEF Store, LongEnough
  <2>2. PICK current \in BOOLEAN :
          \E key \in MayBeStoredAs(current) : BeginStore(key, None)
    BY <1>2 DEF Store
  <2>3. PICK key \in Texts : BeginStore(key, None)
    BY <2>1, <2>2, StoredTexts
  <2> QED BY <2>1, <2>3, BeginStoreOK
<1>3. CASE SwitchAway
  <2>1. Serving /\ LongEnough(live) /\ live # None
    BY <1>3 DEF SwitchAway, LongEnough
  <2>2. PICK prompt \in Prompt :
          \E key \in MayBeStoredAs(TRUE) : BeginStore(key, prompt)
    BY <1>3 DEF SwitchAway
  <2>3. PICK key \in Texts : BeginStore(key, prompt)
    BY <2>1, <2>2, StoredTexts
  <2> QED BY <2>1, <2>3, BeginStoreOK
<1>4. CASE SwitchFromNothing
  <2>1. DiskOK' /\ SetupOK' /\ LiveOK' /\ CountersOK'
    BY <1>4, SameDiskOK DEF SwitchFromNothing, SetupOK, LiveOK, CountersOK, Serving
  <2>2. PICK prompt \in Prompt : job' = [op |-> "load", key |-> <<>>, prompt |-> prompt]
    BY <1>4 DEF SwitchFromNothing
  <2>3. JobOK'
    BY <1>4, <2>2 DEF SwitchFromNothing, JobOK, Serving
  <2> QED BY <2>1, <2>3
<1>5. CASE Publish
  <2>1. PICK m \in 0..1 : disk' = With(job.key, Fresh(m))
    BY <1>5 DEF Publish
  <2>2. Serving /\ live # None /\ LongEnough(live) /\ job.key \in Texts
    BY <1>5 DEF Publish, JobOK, LongEnough
  <2>3. Fresh(m) \in Snapshot /\ Len(Fresh(m).tokens) >= MinTokens
    BY <2>2, OptionsAssumption
       DEF Fresh, Snapshot, LiveOK, SetupOK, LongEnough, Serving
  <2>4. DiskOK'
    BY <2>1, <2>2, <2>3, WithOK
  <2>5. SetupOK' /\ LiveOK' /\ CountersOK'
    BY <1>5 DEF Publish, SetupOK, LiveOK, CountersOK, Serving
  <2>6. JobOK'
    BY <1>5, <2>2 DEF Publish, JobOK, Serving
  <2> QED BY <2>4, <2>5, <2>6
<1>6. CASE StoreFails
  <2>1. DiskOK' /\ SetupOK' /\ LiveOK' /\ CountersOK'
    BY <1>6, SameDiskOK DEF StoreFails, SetupOK, LiveOK, CountersOK, Serving
  <2>2. JobOK'
    BY <1>6, AfterStoreOK DEF StoreFails, JobOK
  <2> QED BY <2>1, <2>2
<1>7. CASE EvictOne
  <2>1. DiskOK'
    BY <1>7, WithoutOK DEF EvictOne
  <2>2. SetupOK' /\ LiveOK' /\ JobOK' /\ CountersOK'
    BY <1>7 DEF EvictOne, SetupOK, LiveOK, JobOK, CountersOK, Serving
  <2> QED BY <2>1, <2>2
<1>8. CASE EvictFails
  <2>1. DiskOK' /\ SetupOK' /\ LiveOK' /\ CountersOK'
    BY <1>8, SameDiskOK DEF EvictFails, SetupOK, LiveOK, CountersOK, Serving
  <2>2. JobOK'
    BY <1>8, AfterStoreOK DEF EvictFails, JobOK
  <2> QED BY <2>1, <2>2
<1>9. CASE EvictDone
  <2>1. DiskOK' /\ SetupOK' /\ LiveOK' /\ CountersOK'
    BY <1>9, SameDiskOK DEF EvictDone, SetupOK, LiveOK, CountersOK, Serving
  <2>2. JobOK'
    BY <1>9, AfterStoreOK DEF EvictDone, JobOK
  <2> QED BY <2>1, <2>2
<1>10. CASE LoadNothing
  <2>1. DiskOK' /\ SetupOK' /\ LiveOK' /\ CountersOK'
    BY <1>10, SameDiskOK DEF LoadNothing, SetupOK, LiveOK, CountersOK, Serving
  <2>2. JobOK'
    BY <1>10 DEF LoadNothing, JobOK, Idle, Serving
  <2> QED BY <2>1, <2>2
<1>11. CASE LoadRefused
  <2>1. DiskOK' /\ SetupOK' /\ LiveOK' /\ CountersOK'
    BY <1>11, SameDiskOK DEF LoadRefused, SetupOK, LiveOK, CountersOK, Serving
  <2>2. JobOK'
    BY <1>11 DEF LoadRefused, JobOK, Idle, Serving
  <2> QED BY <2>1, <2>2
<1>12. CASE Load
  <2>1. PICK k \in Found(job.prompt) :
          /\ PayloadLoads(disk[k])
          /\ live' = [tokens |-> disk[k].tokens, chunk |-> setup.chunk]
          /\ disk' \in {Without(k), disk, With(k, Hit(disk[k]))}
    BY <1>12 DEF Load
  <2>2. k \in DOMAIN disk
    BY <2>1 DEF Found, Entries
  <2>3. Hit(disk[k]) \in Snapshot /\ Len(Hit(disk[k]).tokens) >= MinTokens
    <3>1. MaxHits \in Nat
      BY OptionsAssumption
    <3>2. disk[k] \in Snapshot /\ Len(disk[k].tokens) >= MinTokens
      BY <2>2 DEF DiskOK
    <3>3. Hit(disk[k]).tokens = disk[k].tokens
      BY <3>2 DEF Snapshot, Hit
    <3>4. Hit(disk[k]) \in Snapshot
      BY <3>1, <3>2 DEF Snapshot, Hit
    <3> QED BY <3>2, <3>3, <3>4
  <2>4. DiskOK'
    BY <2>1, <2>2, <2>3, WithoutOK, SameDiskOK, WithOK DEF DiskOK
  <2>5. SetupOK' /\ CountersOK' /\ UNCHANGED setup /\ Serving /\ job' = Idle
    BY <1>12 DEF Load, SetupOK, CountersOK, JobOK
  <2>6. LiveOK'
    BY <2>1, <2>2, <2>5 DEF LiveOK, DiskOK, Snapshot, Serving
  <2>7. JobOK'
    BY <2>5 DEF JobOK, Idle, Serving
  <2> QED BY <2>4, <2>5, <2>6, <2>7
<1>13. CASE Start
  <2>1. DiskOK'
    BY <1>13, SameDiskOK DEF Start
  <2>2. SetupOK' /\ CountersOK'
    <3>1. MaxFaults \in Nat
      BY OptionsAssumption
    <3>2. faults' = faults + 1 /\ faults < MaxFaults /\ blocked' = FALSE
      BY <1>13 DEF Start
    <3>3. faults' \in 0..MaxFaults
      BY <3>1, <3>2 DEF CountersOK
    <3>4. CountersOK'
      BY <3>2, <3>3, Zenon DEF CountersOK
    <3> QED BY <1>13, <3>4 DEF Start, SetupOK
  <2>3. LiveOK'
    BY <1>13 DEF Start, LiveOK, Serving
  <2>4. JobOK'
    BY <1>13, SetupAssumption DEF Start, JobOK, Serving
  <2> QED BY <2>1, <2>2, <2>3, <2>4
<1>14. CASE Crash
  BY <1>14, SameDiskOK DEF Crash, SetupOK, LiveOK, JobOK, CountersOK, Idle
<1>15. CASE PowerLoss
  <2>1. PICK short \in SUBSET DOMAIN disk :
          disk' = [k \in DOMAIN disk |->
                    [disk[k] EXCEPT !.whole = @ /\ k \notin short]]
    BY <1>15 DEF PowerLoss
  <2>2. ASSUME NEW k \in DOMAIN disk
        PROVE  [disk[k] EXCEPT !.whole = @ /\ k \notin short] \in Snapshot
    BY <2>2 DEF DiskOK, Snapshot
  <2>3. DiskOK'
    BY <2>1, <2>2 DEF DiskOK, Snapshot
  <2> QED BY <1>15, <2>3 DEF PowerLoss, SetupOK, LiveOK, JobOK, CountersOK, Idle
<1>16. CASE UNCHANGED vars
  BY <1>16, SameDiskOK
     DEF vars, SetupOK, LiveOK, JobOK, CountersOK, Serving, LongEnough
<1> QED
  BY <1>1, <1>2, <1>3, <1>4, <1>5, <1>6, <1>7, <1>8, <1>9, <1>10, <1>11, <1>12,
     <1>13, <1>14, <1>15, <1>16 DEF Next

\* Whatever histories, configurations and options: the files are snapshots of
\* at least the minimum length under texts of theirs, and the session and the
\* job fit the running server (kv_cache_store_live_prefix_text).
THEOREM TypeSafety == Spec => []TypeOK
<1>1. IInv => TypeOK
  BY DEF IInv, DiskOK, SetupOK, LiveOK, JobOK, CountersOK, TypeOK
<1> QED BY <1>1, IInvInit, IInvNext, PTL DEF Spec
-----------------------------------------------------------------------------
\* What a step may do to one snapshot.
Kept(k) == k \in DOMAIN disk' /\ disk'[k].whole /\ disk'[k].tokens = disk[k].tokens

Released(k) ==
  \/ disk[k].setup.ctx > setup.ctx
  \/ RejectQuant /\ disk[k].setup.quant # setup.quant
  \/ Total > Budget /\ job.op = "evict"
  \/ live' = [tokens |-> disk[k].tokens, chunk |-> disk[k].setup.chunk]

LEMMA KeptBySameDisk ==
  ASSUME NEW k \in Entries, disk' = disk PROVE Kept(k)
BY DEF Kept, Entries

LEMMA ReleasedMisfit ==
  ASSUME DiskOK, SetupOK, Serving, NEW k \in Entries, ~Fits(disk[k])
  PROVE  Released(k)
<1>1. disk[k].setup \in Setup /\ setup \in Setup
  BY DEF DiskOK, Snapshot, Entries, SetupOK, Serving
<1>2. disk[k].setup.ctx \in Nat /\ setup.ctx \in Nat
  BY <1>1, SetupAssumption
<1> QED BY <1>2 DEF Fits, Released

\* A new file, or none, under one text: the others stay.
LEMMA KeptByWith ==
  ASSUME NEW key, NEW f, disk' = With(key, f), NEW k \in Entries, k # key
  PROVE  Kept(k)
BY DEF Kept, Entries, With

LEMMA KeptByWithout ==
  ASSUME NEW key, disk' = Without(key), NEW k \in Entries, k # key
  PROVE  Kept(k)
BY DEF Kept, Entries, Without

LEMMA BeginStoreKeeps ==
  ASSUME IInv, Serving, NEW key, NEW next, BeginStore(key, next), NEW k \in Entries
  PROVE  Kept(k) \/ Released(k)
<1>1. CASE KeepFile(key, next)
  <2>1. PICK m \in 0..1 : disk' = [disk EXCEPT ![key].map = m]
    BY <1>1 DEF KeepFile
  <2>2. k \in DOMAIN disk /\ disk[k] \in Snapshot /\ disk[k].whole
    BY DEF IInv, DiskOK, Entries
  <2> QED BY <2>1, <2>2 DEF Kept, Snapshot
<1>2. CASE NewFile(key, next) /\ disk' = disk
  BY <1>2, KeptBySameDisk
<1>3. CASE NewFile(key, next) /\ disk' = Without(key) /\ key \in Entries
  <2>1. ~Fits(disk[key])
    BY <1>3 DEF NewFile
  <2> QED BY <1>3, <2>1, KeptByWithout, ReleasedMisfit DEF IInv
<1> QED BY <1>1, <1>2, <1>3 DEF BeginStore, NewFile

\* The file that is about to be replaced cannot be used by this server.
WriteOK ==
  job.op = "write" /\ job.key \in Entries => ~Fits(disk[job.key])

LEMMA WriteOKNext == IInv /\ WriteOK /\ [Next]_vars => WriteOK'
<1> SUFFICES ASSUME IInv, WriteOK, [Next]_vars PROVE WriteOK'
  OBVIOUS
<1>1. CASE \E key, next : NewFile(key, next)
  <2>1. PICK key, next : NewFile(key, next)
    BY <1>1
  <2>2. /\ job'.key = key /\ setup' = setup
        /\ \/ disk' = disk
           \/ disk' = Without(key)
        /\ ~(key \in Entries /\ Fits(disk[key]))
    BY <2>1 DEF NewFile
  <2>3. CASE disk' = disk
    BY <2>2, <2>3 DEF WriteOK, Entries, Fits
  <2>4. CASE disk' = Without(key)
    <3>1. key \notin Entries'
      BY <2>4 DEF Entries, Without
    <3> QED BY <2>2, <3>1 DEF WriteOK
  <2> QED BY <2>2, <2>3, <2>4
<1>2. CASE UNCHANGED vars
  BY <1>2 DEF vars, WriteOK, Entries, Fits
<1>3. CASE \E key, next : KeepFile(key, next)
  BY <1>3 DEF WriteOK, KeepFile, Idle
<1>4. CASE Work \/ Crash \/ PowerLoss \/ Start \/ Load \/ LoadRefused \/ LoadNothing
  BY <1>4 DEF WriteOK, Work, Crash, PowerLoss, Start, Load, LoadRefused, LoadNothing, Idle
<1>5. CASE EvictOne \/ Publish
  BY <1>5 DEF WriteOK, EvictOne, Publish, IInv, JobOK
<1>6. CASE StoreFails \/ EvictFails \/ EvictDone
  BY <1>6 DEF WriteOK, StoreFails, EvictFails, EvictDone, AfterStore, Idle, IInv, JobOK
<1>7. CASE SwitchFromNothing
  BY <1>7 DEF WriteOK, SwitchFromNothing
<1> QED BY <1>1, <1>2, <1>3, <1>4, <1>5, <1>6, <1>7
        DEF Next, Store, SwitchAway, BeginStore

LEMMA StepKeepsOrReleases ==
  ASSUME IInv, WriteOK, Next, Serving, setup' = setup, NEW k \in Entries
  PROVE  Kept(k) \/ Released(k)
<1>1. CASE Work \/ SwitchFromNothing \/ StoreFails \/ EvictFails \/ EvictDone
           \/ LoadNothing \/ LoadRefused
  <2>1. disk' = disk
    BY <1>1 DEF Work, SwitchFromNothing, StoreFails, EvictFails, EvictDone,
                LoadNothing, LoadRefused
  <2> QED BY <2>1, KeptBySameDisk
<1>2. CASE Store \/ SwitchAway
  <2>1. PICK key, next : BeginStore(key, next)
    BY <1>2 DEF Store, SwitchAway
  <2> QED BY <2>1, BeginStoreKeeps
<1>3. CASE Publish
  <2>1. PICK m : disk' = With(job.key, Fresh(m))
    BY <1>3 DEF Publish
  <2>2. CASE k # job.key
    BY <2>1, <2>2, KeptByWith
  <2>3. CASE k = job.key
    BY <1>3, <2>3, ReleasedMisfit DEF WriteOK, Publish, IInv
  <2> QED BY <2>2, <2>3
<1>4. CASE EvictOne
  BY <1>4 DEF EvictOne, OverBudget, Released
<1>5. CASE Load
  <2>1. PICK j \in Found(job.prompt) :
          /\ PayloadLoads(disk[j])
          /\ live' = [tokens |-> disk[j].tokens, chunk |-> setup.chunk]
          /\ disk' \in {Without(j), disk, With(j, Hit(disk[j]))}
    BY <1>5 DEF Load
  <2>2. CASE k # j
    BY <2>1, <2>2, KeptByWith, KeptByWithout, KeptBySameDisk
  <2>3. CASE k = j
    BY <2>1, <2>3 DEF PayloadLoads, Released
  <2> QED BY <2>2, <2>3
<1>6. CASE Start
  BY <1>6 DEF Start, Serving
<1>7. CASE Crash \/ PowerLoss
  BY <1>7 DEF Crash, PowerLoss, Serving
<1> QED BY <1>1, <1>2, <1>3, <1>4, <1>5, <1>6, <1>7 DEF Next

\* Whatever the budget, the failures and the order of requests: a running
\* server gives up a usable snapshot only for the budget or for the session
\* that now holds it (kv_cache_existing_compatible, kv_cache_evict,
\* kv_cache_try_load_text).
THEOREM NothingIsLost == Spec => NothingLostWhileServing
<1>1. Init => WriteOK
  BY DEF Init, WriteOK, Idle
<1>2. IInv /\ WriteOK /\ [Next]_vars => [Serving /\ setup' = setup =>
        \A k \in Entries : Kept(k) \/ Released(k)]_vars
  BY StepKeepsOrReleases
<1>3. IInv /\ WriteOK /\ [Next]_vars =>
        [Serving /\ setup' = setup =>
       \A k \in Entries :
         \/ /\ k \in DOMAIN disk' /\ disk'[k].whole
            /\ disk'[k].tokens = disk[k].tokens
         \/ disk[k].setup.ctx > setup.ctx
         \/ RejectQuant /\ disk[k].setup.quant # setup.quant
         \/ Total > Budget /\ job.op = "evict"
         \/ live' = [tokens |-> disk[k].tokens, chunk |-> disk[k].setup.chunk]
      ]_vars
  BY <1>2 DEF Kept, Released
<1> QED
  BY <1>1, <1>3, IInvInit, IInvNext, WriteOKNext, PTL
     DEF Spec, NothingLostWhileServing
-----------------------------------------------------------------------------
(***************************************************************************)
(* The directory implements PrefixStore.                                   *)
(***************************************************************************)
Held == [k \in Entries |-> [tokens |-> disk[k].tokens, chunk |-> disk[k].setup.chunk]]

\* A session is what the engine says it is, a store is of one of its texts, and
\* a load is for a prompt.
RefInv ==
  /\ live # None => live = [tokens |-> live.tokens, chunk |-> live.chunk]
  /\ job.op = "write" => job.key \in {live.tokens, Visible(live.tokens)}
  /\ job.op = "load" => job.prompt \in Prompt
  /\ job.prompt \in Prompt \cup {None}

LEMMA RefInvInit == Init => RefInv
BY DEF Init, RefInv, Idle

LEMMA BeginStoreRef ==
  ASSUME RefInv, NEW current \in BOOLEAN, NEW key \in MayBeStoredAs(current),
         NEW next \in Prompt \cup {None}, BeginStore(key, next)
  PROVE  RefInv'
<1>1. key \in {live.tokens, Visible(live.tokens)}
  BY DEF MayBeStoredAs
<1>2. CASE KeepFile(key, next)
  BY <1>2 DEF KeepFile, RefInv, Idle
<1>3. CASE NewFile(key, next)
  BY <1>1, <1>3 DEF NewFile, RefInv
<1> QED BY <1>2, <1>3 DEF BeginStore

LEMMA RefInvNext == IInv /\ RefInv /\ [Next]_vars => RefInv'
<1> SUFFICES ASSUME IInv, RefInv, [Next]_vars PROVE RefInv'
  OBVIOUS
<1>1. CASE Store \/ SwitchAway
  BY <1>1, BeginStoreRef DEF Store, SwitchAway
<1>2. CASE Work \/ Start \/ Crash \/ PowerLoss \/ LoadNothing \/ LoadRefused
  BY <1>2 DEF RefInv, Work, Start, Crash, PowerLoss, LoadNothing, LoadRefused, Idle
<1>3. CASE Load
  BY <1>3 DEF RefInv, Load, Idle
<1>4. CASE SwitchFromNothing
  BY <1>4 DEF RefInv, SwitchFromNothing
<1>7. CASE Publish
  <2>1. job'.op = "evict" /\ job'.prompt = job.prompt /\ live' = live
    BY <1>7 DEF Publish, IInv, JobOK
  <2> QED BY <2>1 DEF RefInv
<1>8. CASE EvictOne
  <2>1. job' = job /\ live' = live
    BY <1>8 DEF EvictOne
  <2> QED BY <2>1 DEF RefInv
<1>5. CASE StoreFails \/ EvictFails \/ EvictDone
  <2>1. job' = AfterStore /\ live' = live
    BY <1>5 DEF StoreFails, EvictFails, EvictDone
  <2> QED BY <2>1 DEF RefInv, AfterStore, Idle, IInv, JobOK
<1>6. CASE UNCHANGED vars
  BY <1>6 DEF RefInv, vars
<1> QED BY <1>1, <1>2, <1>3, <1>4, <1>5, <1>6, <1>7, <1>8 DEF Next

\* What happens to the store when files change.
LEMMA HeldBySameDisk == ASSUME disk' = disk PROVE Held' = Held
BY DEF Held, Entries

LEMMA HeldByKept ==
  ASSUME NEW key \in DOMAIN disk, NEW f, f.whole = disk[key].whole,
         f.tokens = disk[key].tokens, f.setup = disk[key].setup,
         disk' = With(key, f)
  PROVE  Held' = Held
<1>1. Entries' = Entries
  BY DEF Entries, With
<1>2. \A k \in Entries : disk'[k].tokens = disk[k].tokens /\ disk'[k].setup = disk[k].setup
  BY DEF Entries, With
<1> QED BY <1>1, <1>2 DEF Held

LEMMA HeldByWithout ==
  ASSUME NEW key, disk' = Without(key)
  PROVE  Held' = [k \in DOMAIN Held \ {key} |-> Held[k]]
<1>1. Entries' = Entries \ {key}
  BY DEF Entries, Without
<1>2. \A k \in Entries \ {key} : disk'[k] = disk[k]
  BY DEF Entries, Without
<1> QED BY <1>1, <1>2 DEF Held

\* The prompt that is being looked up.
Asked == IF job.op = "load" THEN job.prompt ELSE None

\* The steps of PrefixStore, in terms of what the files hold.
LEMMA StutterStep ==
  ASSUME Held' = Held, UNCHANGED <<setup, live, Asked>>
  PROVE  UNCHANGED Abstract!vars
BY DEF Held, Abstract!vars, Serving, Asked

LEMMA AskStep ==
  ASSUME SetupOK, Serving, Held' = Held, UNCHANGED <<setup, live>>,
         Asked = None, Asked' \in Prompt
  PROVE  Abstract!Next
<1>1. setup.chunk # None
  BY SetupAssumption DEF SetupOK, Serving
<1>2. Abstract!Ask(Asked')
  BY <1>1 DEF Held, Abstract!Ask, Serving, Asked
<1> QED BY <1>2 DEF Abstract!Next

\* A step at the end of a store either leaves the worker idle or asks.
LEMMA AskOrStutterStep ==
  ASSUME IInv, RefInv, Serving, Held' = Held, UNCHANGED <<setup, live>>,
         job.op # "load",
         \/ job' = Idle
         \/ job'.op = "load" /\ job'.prompt \in Prompt
         \/ job'.op \in {"write", "evict"}
  PROVE  Abstract!Next \/ UNCHANGED Abstract!vars
<1>1. Asked = None
  BY DEF Asked
<1>2. Asked' = None \/ Asked' \in Prompt
  BY DEF Asked, Idle
<1> QED BY <1>1, <1>2, AskStep, StutterStep DEF IInv

LEMMA ForgetStep ==
  ASSUME NEW keep \in SUBSET DOMAIN Held, Held' = [k \in keep |-> Held[k]],
         UNCHANGED <<setup, live>>, Asked = None, Asked' = None
  PROVE  Abstract!Next
<1>1. Abstract!Forget
  BY DEF Held, Abstract!Forget, Serving, Asked
<1> QED BY <1>1 DEF Abstract!Next

LEMMA DropStep ==
  ASSUME NEW key, disk' = Without(key), UNCHANGED <<setup, live>>,
         Asked = None, Asked' = None
  PROVE  Abstract!Next
<1>1. Held' = [k \in DOMAIN Held \ {key} |-> Held[k]]
  BY HeldByWithout
<1>2. DOMAIN Held \ {key} \in SUBSET DOMAIN Held
  OBVIOUS
<1> QED BY <1>1, <1>2, ForgetStep

LEMMA ComputeStep ==
  ASSUME SetupOK, Serving, Held' = Held, setup' = setup, Asked = None, Asked' = None,
         \/ live' = None
         \/ \E h \in History : live' = [tokens |-> h, chunk |-> setup.chunk]
  PROVE  Abstract!Next
<1>1. setup \in Setup /\ setup.chunk # None
  BY SetupAssumption DEF SetupOK, Serving
<1>2. live' \in {s \in [tokens: History, chunk: {s.chunk : s \in Setup}] :
                   s.chunk = setup.chunk} \cup {None}
  BY <1>1
<1>3. Abstract!Compute
  BY <1>1, <1>2 DEF Held, Abstract!Compute, Serving, Asked
<1> QED BY <1>3 DEF Abstract!Next

\* A lookup that gives nothing back.
LEMMA MissStep ==
  ASSUME Held' = Held, setup' = setup, live' \in {live, None},
         Asked # None, Asked' = None
  PROVE  Abstract!Next
<1>1. Abstract!Miss
  BY DEF Held, Abstract!Miss, Serving, Asked
<1> QED BY <1>1 DEF Abstract!Next

LEMMA BootStep ==
  ASSUME live' = None, Asked' = None, NEW keep \in SUBSET DOMAIN Held,
         Held' = [k \in keep |-> Held[k]],
         \/ setup' = None
         \/ setup = None /\ setup' \in Setup
  PROVE  Abstract!Next
<1>1. setup' \in Setup => setup'.chunk # None /\ setup' # None
  BY SetupAssumption
<1>2. Abstract!Boot
  BY <1>1 DEF Held, Abstract!Boot, Serving, Asked
<1> QED BY <1>2 DEF Abstract!Next

LEMMA PutStep ==
  ASSUME IInv, RefInv, Publish
  PROVE  Abstract!Next
<1>1. PICK m \in 0..1 : disk' = With(job.key, Fresh(m))
  BY DEF Publish
<1>2. live # None /\ live.chunk = setup.chunk /\ UNCHANGED <<setup, live>>
  BY DEF Publish, IInv, JobOK, LongEnough, LiveOK
<1>3. Entries' = Entries \cup {job.key}
  BY <1>1 DEF Entries, With, Fresh
<1>4. \A k \in Entries' : disk'[k] = IF k = job.key THEN Fresh(m) ELSE disk[k]
  BY <1>1, <1>3 DEF Entries, With
<1>5. Held' = [k \in DOMAIN Held \cup {job.key} |-> IF k = job.key THEN live ELSE Held[k]]
  <2>1. Fresh(m).tokens = live.tokens /\ Fresh(m).setup.chunk = live.chunk
    BY <1>2 DEF Fresh
  <2>2. live = [tokens |-> live.tokens, chunk |-> live.chunk]
    BY <1>2 DEF RefInv
  <2>3. DOMAIN Held = Entries /\ DOMAIN Held' = Entries'
    BY DEF Held
  <2>4. \A k \in Entries' : Held'[k] = IF k = job.key THEN live ELSE Held[k]
    BY <1>3, <1>4, <2>1, <2>2 DEF Held
  <2>5. Held' = [k \in Entries' |-> Held'[k]]
    BY DEF Held
  <2> QED BY <1>3, <2>3, <2>4, <2>5
<1>6. job.key \in {live.tokens, Visible(live.tokens)}
  BY DEF Publish, RefInv
<1>7. PICK k \in {live.tokens, Visible(live.tokens)} : k = job.key
  BY <1>6
<1>10. Asked = None /\ Asked' = None
  BY DEF Publish, Asked, IInv, JobOK
<1>8. Abstract!Put(k)
  BY <1>2, <1>5, <1>7, <1>10 DEF Held, Abstract!Put, Serving, Asked
<1>9. live # None
  BY <1>2
<1> QED BY <1>7, <1>8, <1>9, Zenon DEF Abstract!Next

LEMMA RecallStep ==
  ASSUME IInv, RefInv, Load
  PROVE  Abstract!Next
<1>1. PICK k \in Found(job.prompt) :
        /\ PayloadLoads(disk[k])
        /\ live' = [tokens |-> disk[k].tokens, chunk |-> setup.chunk]
        /\ disk' \in {Without(k), disk, With(k, Hit(disk[k]))}
  BY DEF Load
<1>2. /\ Serving /\ setup' = setup /\ job.prompt \in Prompt
      /\ Asked = job.prompt /\ Asked # None /\ Asked' = None
  BY SetupAssumption DEF Load, IInv, JobOK, RefInv, Asked, Idle
<1>3. k \in Entries /\ IsPrefix(k, job.prompt)
  BY DEF Found, Matches
<1>4. live' = Held[k] /\ live'.chunk = setup.chunk /\ k \in DOMAIN Held
  BY <1>1, <1>3 DEF PayloadLoads, Held
<1>5. Held' \in {Held, [t \in DOMAIN Held \ {k} |-> Held[t]]}
  <2>1. CASE disk' = With(k, Hit(disk[k]))
    <3>1. disk[k] \in Snapshot
      BY <1>3 DEF IInv, DiskOK, Entries
    <3>2. /\ Hit(disk[k]).whole = disk[k].whole
          /\ Hit(disk[k]).tokens = disk[k].tokens
          /\ Hit(disk[k]).setup = disk[k].setup
      BY <3>1 DEF Hit, Snapshot
    <3> QED BY <1>3, <2>1, <3>2, HeldByKept DEF Entries
  <2> QED BY <1>1, <2>1, HeldByWithout, HeldBySameDisk
<1>6. Abstract!Recall(k)
  <2> DEFINE store == [t \in Entries |-> [tokens |-> disk[t].tokens,
                                          chunk |-> disk[t].setup.chunk]]
  <2>1. Held = store /\ Held' = store'
    BY DEF Held
  <2>2. live' = store[k]
    BY <1>4, <2>1
  <2>3. store' \in {store, [t \in DOMAIN store \ {k} |-> store[t]]}
    BY <1>5, <2>1, Zenon
  <2>4. UNCHANGED (IF Serving THEN setup.chunk ELSE None)
    BY <1>2 DEF Serving
  <2>5. live'.chunk = IF Serving THEN setup.chunk ELSE None
    BY <1>2, <1>4
  <2>6. Abstract!IsPrefix(k, Asked)
    BY <1>2, <1>3 DEF IsPrefix, Abstract!IsPrefix
  <2> QED BY <1>2, <2>2, <2>3, <2>4, <2>5, <2>6, Zenon DEF Abstract!Recall, Asked
<1> QED BY <1>2, <1>4, <1>6 DEF Abstract!Next, Held

LEMMA StoreStep ==
  ASSUME IInv, RefInv, Serving, job = Idle, NEW key, NEW next \in Prompt \cup {None},
         BeginStore(key, next)
  PROVE  Abstract!Next \/ UNCHANGED Abstract!vars
<1>1. CASE KeepFile(key, next)
  <2>1. PICK m \in 0..1 : disk' = [disk EXCEPT ![key].map = m]
    BY <1>1 DEF KeepFile
  <2>2. key \in DOMAIN disk /\ disk[key] \in Snapshot
    BY <1>1 DEF KeepFile, Entries, IInv, DiskOK
  <2> DEFINE f == [disk[key] EXCEPT !.map = m]
  <2>3. f.whole = disk[key].whole /\ f.tokens = disk[key].tokens /\ f.setup = disk[key].setup
    BY <2>2 DEF Snapshot
  <2>4. disk' = With(key, f)
    BY <2>1, <2>2 DEF With, IInv, DiskOK
  <2>5. Held' = Held
    <3> HIDE DEF f
    <3> QED BY <2>2, <2>3, <2>4, HeldByKept
  <2> QED BY <1>1, <2>5, AskOrStutterStep DEF KeepFile, Idle
<1>2. CASE NewFile(key, next)
  <2>1. disk' = disk \/ disk' = Without(key)
    BY <1>2 DEF NewFile
  <2>2. Asked = None /\ Asked' = None /\ UNCHANGED <<setup, live>>
    BY <1>2 DEF NewFile, Asked, Idle
  <2> QED BY <2>1, <2>2, DropStep, HeldBySameDisk, StutterStep
<1> QED BY <1>1, <1>2 DEF BeginStore

LEMMA StepRefines ==
  IInv /\ RefInv /\ [Next]_vars => [Abstract!Next]_(Abstract!vars)
<1> SUFFICES ASSUME IInv, RefInv, [Next]_vars
             PROVE  Abstract!Next \/ UNCHANGED Abstract!vars
  OBVIOUS
<1>1. CASE Work
  BY <1>1, HeldBySameDisk, ComputeStep DEF Work, IInv, Asked, Idle
<1>2. CASE Store \/ SwitchAway
  BY <1>2, StoreStep DEF Store, SwitchAway
<1>3. CASE SwitchFromNothing
  BY <1>3, HeldBySameDisk, AskOrStutterStep DEF SwitchFromNothing, Idle
<1>10. CASE StoreFails \/ EvictFails \/ EvictDone
  <2>1. /\ disk' = disk /\ UNCHANGED <<setup, live>>
        /\ job.op \in {"write", "evict"} /\ job' = AfterStore
    BY <1>10 DEF StoreFails, EvictFails, EvictDone
  <2>2. Serving
    BY <2>1 DEF IInv, JobOK
  <2>3. job' = Idle \/ (job'.op = "load" /\ job'.prompt \in Prompt)
    BY <2>1 DEF AfterStore, RefInv, IInv, JobOK
  <2> QED BY <2>1, <2>2, <2>3, HeldBySameDisk, AskOrStutterStep
<1>11. CASE LoadNothing
  BY <1>11, HeldBySameDisk, MissStep, SetupAssumption
     DEF LoadNothing, RefInv, Asked, Idle
<1>12. CASE UNCHANGED vars
  BY <1>12, HeldBySameDisk, StutterStep DEF vars, Asked
<1>4. CASE Publish
  BY <1>4, PutStep
<1>5. CASE EvictOne
  BY <1>5, DropStep DEF EvictOne, Asked
<1>6. CASE LoadRefused
  BY <1>6, HeldBySameDisk, MissStep, SetupAssumption
     DEF LoadRefused, RefInv, Asked, Idle
<1>7. CASE Load
  BY <1>7, RecallStep
<1>8. CASE Start \/ Crash
  <2>1. Held' = [k \in DOMAIN Held |-> Held[k]]
    BY <1>8, HeldBySameDisk DEF Start, Crash, Held
  <2>2. live' = None
    BY <1>8 DEF Start, Crash, IInv, LiveOK, Serving
  <2>3. Asked' = None
    BY <1>8 DEF Start, Crash, Asked, Idle
  <2> QED BY <1>8, <2>1, <2>2, <2>3, BootStep DEF Start, Crash
<1>9. CASE PowerLoss
  <2>1. PICK short \in SUBSET DOMAIN disk :
          disk' = [k \in DOMAIN disk |-> [disk[k] EXCEPT !.whole = @ /\ k \notin short]]
    BY <1>9 DEF PowerLoss
  <2>2. \A k \in DOMAIN disk : /\ disk[k] \in Snapshot
                               /\ disk'[k].tokens = disk[k].tokens
                               /\ disk'[k].setup = disk[k].setup
                               /\ disk'[k].whole => disk[k].whole
    BY <2>1 DEF IInv, DiskOK, Snapshot
  <2>3. Entries' \subseteq Entries
    BY <2>1, <2>2 DEF Entries
  <2>4. Held' = [k \in Entries' |-> Held[k]] /\ Entries' \in SUBSET DOMAIN Held
    BY <2>2, <2>3 DEF Held, Entries
  <2>5. Asked' = None
    BY <1>9 DEF PowerLoss, Asked, Idle
  <2> QED BY <1>9, <2>4, <2>5, BootStep DEF PowerLoss
<1> QED BY <1>1, <1>2, <1>3, <1>4, <1>5, <1>6, <1>7, <1>8, <1>9, <1>10, <1>11, <1>12
        DEF Next

\* Whatever crashes, is evicted or refused, what a lookup gives back is a
\* session saved under a prefix of the prompt, token for token, by an engine of
\* the same layout, also when the file stays where it is
\* (kv_cache_store_live_prefix_text, kv_cache_try_load_text).
THEOREM DirectoryIsAPrefixStore == Spec => ImplementsPrefixStore
<1>1. Init => Abstract!Init
  BY IInvInit DEF Init, Abstract!Init, Entries, Serving, Idle
<1> QED BY <1>1, IInvInit, IInvNext, RefInvInit, RefInvNext, StepRefines, PTL
        DEF Spec, ImplementsPrefixStore, Abstract!Spec

-----------------------------------------------------------------------------
(* The budget.                                                             *)

TokensHeld == SumFunction([k \in Entries |-> Len(disk[k].tokens)])

\* A store that is being written has not added to the directory yet, and leaves
\* the budget to the eviction that follows it.
BudgetInv ==
  /\ IsFiniteSet(DOMAIN disk)
  /\ Serving /\ job.op \in {"idle", "load", "write"} /\ ~blocked => TokensHeld <= Budget

\* No file is added and none grows.
Thinner == /\ DOMAIN disk' \subseteq DOMAIN disk /\ Entries' \subseteq Entries
           /\ \A k \in Entries' : disk'[k].tokens = disk[k].tokens

LEMMA EntriesAreFinite ==
  ASSUME DiskOK, IsFiniteSet(DOMAIN disk)
  PROVE  IsFiniteSet(Entries) /\ \A k \in Entries : Len(disk[k].tokens) \in Nat
<1>1. Entries \subseteq DOMAIN disk
  BY DEF Entries
<1>2. \A k \in Entries : disk[k].tokens \in History
  BY <1>1 DEF DiskOK, Snapshot
<1>3. \A h \in History : Len(h) \in Nat
  BY SetupAssumption, LenProperties
<1> QED BY <1>1, <1>2, <1>3, FS_Subset

LEMMA ThinnerFits ==
  ASSUME IInv, IsFiniteSet(DOMAIN disk), Thinner
  PROVE  IsFiniteSet(DOMAIN disk)' /\ TokensHeld \in Nat /\ TokensHeld' \in Nat
         /\ TokensHeld' <= TokensHeld
<1> DEFINE w == [k \in Entries |-> Len(disk[k].tokens)]
           v == [k \in Entries' |-> Len(disk'[k].tokens)]
<1>1. IsFiniteSet(DOMAIN disk')
  BY FS_Subset DEF Thinner
<1>2. IsFiniteSet(Entries) /\ w \in [Entries -> Nat]
  BY EntriesAreFinite DEF IInv
<1>3. \A k \in Entries' : k \in Entries /\ disk'[k].tokens = disk[k].tokens
  BY DEF Thinner
<1>4. v \in [Entries' -> Nat] /\ \A k \in Entries' : v[k] <= w[k]
  BY <1>2, <1>3
<1>5. SumFunction(v) <= SumFunction(w) /\ SumFunction(v) \in Nat /\ SumFunction(w) \in Nat
  <2>1. Entries' \in SUBSET Entries
    BY <1>3
  <2> HIDE DEF v, w
  <2> QED BY <1>2, <1>4, <2>1, SumMonotone
<1>6. TokensHeld = SumFunction(w) /\ TokensHeld' = SumFunction(v)
  BY DEF TokensHeld
<1> QED BY <1>1, <1>5, <1>6

\* Files weigh at least their tokens.
LEMMA TokensWithinTotal ==
  ASSUME IInv, IsFiniteSet(DOMAIN disk)
  PROVE  TokensHeld \in Nat /\ Total \in Nat /\ TokensHeld <= Total
<1> DEFINE v == [k \in Entries |-> Len(disk[k].tokens)]
           w == [k \in Entries |-> Size(disk[k])]
<1>1. IsFiniteSet(Entries) /\ v \in [Entries -> Nat]
  BY EntriesAreFinite DEF IInv
<1>2. \A k \in Entries : disk[k].map \in 0..1
  BY DEF IInv, DiskOK, Snapshot, Entries
<1>3. w \in [Entries -> Nat] /\ \A k \in Entries : v[k] <= w[k]
  <2>1. \A k \in Entries : Len(disk[k].tokens) \in Nat
    BY EntriesAreFinite DEF IInv
  <2> QED BY <1>2, <2>1 DEF Size
<1>4. SumFunction(v) <= SumFunction(w) /\ SumFunction(v) \in Nat /\ SumFunction(w) \in Nat
  <2> HIDE DEF v, w
  <2> QED BY <1>1, <1>3, SumMonotone
<1> QED BY <1>4 DEF TokensHeld, Total

LEMMA ThinnerBySame == ASSUME disk' = disk PROVE Thinner
BY DEF Thinner, Entries

LEMMA ThinnerByWithout == ASSUME NEW k, disk' = Without(k) PROVE Thinner
BY DEF Thinner, Entries, Without

LEMMA ThinnerByWith ==
  ASSUME NEW k \in Entries, NEW f, disk' = With(k, f), f.tokens = disk[k].tokens
  PROVE  Thinner
BY DEF Thinner, Entries, With

LEMMA ThinnerByStore ==
  ASSUME IInv, NEW key, NEW next, BeginStore(key, next)
  PROVE  Thinner /\ UNCHANGED <<setup, blocked>>
<1>1. CASE KeepFile(key, next)
  <2>1. PICK m \in 0..1 : disk' = [disk EXCEPT ![key].map = m]
    BY <1>1 DEF KeepFile
  <2>2. DOMAIN disk' = DOMAIN disk
    BY <2>1
  <2>3. \A k \in DOMAIN disk : disk'[k].tokens = disk[k].tokens /\ disk'[k].whole = disk[k].whole
    BY <2>1 DEF IInv, DiskOK, Snapshot
  <2> QED BY <1>1, <2>2, <2>3 DEF KeepFile, Thinner, Entries
<1>2. CASE NewFile(key, next)
  BY <1>2, ThinnerBySame, ThinnerByWithout DEF NewFile
<1> QED BY <1>1, <1>2 DEF BeginStore

LEMMA BudgetNext == IInv /\ BudgetInv /\ [Next]_vars => BudgetInv'
<1> SUFFICES ASSUME IInv, BudgetInv, [Next]_vars PROVE BudgetInv'
  OBVIOUS
<1>1. IsFiniteSet(DOMAIN disk) /\ Budget \in Nat
  BY OptionsAssumption DEF BudgetInv
<1>2. ASSUME Thinner, UNCHANGED <<setup, blocked>>, job.op \in {"idle", "load", "write"}
      PROVE  BudgetInv'
  BY <1>1, <1>2, ThinnerFits DEF BudgetInv, Serving
<1>3. ASSUME Thinner, ~Serving' \/ job'.op = "evict" \/ blocked'
      PROVE  BudgetInv'
  BY <1>1, <1>3, ThinnerFits DEF BudgetInv
<1>4. CASE Work
  BY <1>2, <1>4, ThinnerBySame DEF Work, Idle
<1>5. CASE Store \/ SwitchAway
  <2>1. job = Idle /\ \E key, next : BeginStore(key, next)
    BY <1>5 DEF Store, SwitchAway
  <2> QED BY <1>2, <2>1, ThinnerByStore DEF Idle
<1>6. CASE SwitchFromNothing \/ StoreFails \/ LoadNothing \/ LoadRefused
  BY <1>2, <1>6, ThinnerBySame DEF SwitchFromNothing, StoreFails, LoadNothing, LoadRefused, Idle
<1>7. CASE Publish
  <2>1. PICK f : disk' = With(job.key, f)
    BY <1>7 DEF Publish
  <2>2. DOMAIN disk' = DOMAIN disk \cup {job.key}
    BY <2>1 DEF With
  <2>3. IsFiniteSet(DOMAIN disk')
    BY <1>1, <2>2, FS_AddElement
  <2>4. job'.op = "evict"
    BY <1>7 DEF Publish, IInv, JobOK
  <2> QED BY <2>3, <2>4 DEF BudgetInv
<1>8. CASE EvictOne
  BY <1>3, <1>8, ThinnerByWithout DEF EvictOne
<1>9. CASE EvictFails
  BY <1>3, <1>9, ThinnerBySame DEF EvictFails
<1>10. CASE EvictDone
  <2>1. UNCHANGED disk /\ ~OverBudget
    BY <1>10 DEF EvictDone
  <2>2. TokensHeld \in Nat /\ TokensHeld <= Budget
    BY <1>1, <2>1, TokensWithinTotal DEF OverBudget
  <2>3. IsFiniteSet(DOMAIN disk)' /\ TokensHeld' <= Budget
    BY <1>1, <2>1, <2>2, ThinnerBySame, ThinnerFits
  <2> QED BY <2>3 DEF BudgetInv
<1>11. CASE Load
  <2>1. PICK k \in Found(job.prompt) : disk' \in {Without(k), disk, With(k, Hit(disk[k]))}
    BY <1>11 DEF Load
  <2>2. k \in Entries /\ disk[k] \in Snapshot
    BY <2>1 DEF Found, Entries, IInv, DiskOK
  <2>3. Hit(disk[k]).tokens = disk[k].tokens
    BY <2>2 DEF Snapshot, Hit
  <2>4. Thinner
    BY <2>1, <2>2, <2>3, ThinnerBySame, ThinnerByWithout, ThinnerByWith
  <2> QED BY <1>2, <1>11, <2>4 DEF Load
<1>12. CASE Start
  BY <1>3, <1>12, ThinnerBySame DEF Start
<1>13. CASE Crash
  BY <1>3, <1>13, ThinnerBySame DEF Crash, Serving
<1>14. CASE PowerLoss
  <2>1. PICK short \in SUBSET DOMAIN disk :
          disk' = [k \in DOMAIN disk |->
                    [disk[k] EXCEPT !.whole = @ /\ k \notin short]]
    BY <1>14 DEF PowerLoss
  <2>2. IsFiniteSet(DOMAIN disk') /\ ~Serving'
    BY <1>1, <1>14, <2>1 DEF PowerLoss, Serving
  <2> QED BY <2>2 DEF BudgetInv
<1>15. CASE UNCHANGED vars
  <2>1. Thinner /\ UNCHANGED <<setup, blocked, job>>
    BY <1>15, ThinnerBySame DEF vars
  <2> QED BY <1>1, <2>1, ThinnerFits DEF BudgetInv, Serving
<1> QED BY <1>4, <1>5, <1>6, <1>7, <1>8, <1>9, <1>10, <1>11, <1>12, <1>13, <1>14, <1>15 DEF Next

\* A server that is not in the middle of a store is within its budget, however
\* many stores, switches, loads, failures and restarts under other configurations
\* came before (kv_cache_evict after every new file and at the start).
THEOREM StaysWithinBudget == Spec => []WithinBudget
<1>1. Init => BudgetInv
  BY FS_EmptySet DEF Init, BudgetInv, Serving
<1>2. BudgetInv => WithinBudget
  BY DEF BudgetInv, WithinBudget, TokensHeld
<1> QED BY <1>1, <1>2, IInvInit, IInvNext, BudgetNext, PTL DEF Spec
=============================================================================
