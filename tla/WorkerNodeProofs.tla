-------------------------- MODULE WorkerNodeProofs --------------------------
(***************************************************************************)
(* Proofs about the agent tokens and the telemetry of a worker node, for   *)
(* every number of services, starts, boots and events.                     *)
(***************************************************************************)
EXTENDS SecureStore, Telemetry, FiniteSetTheorems, SequenceTheorems, WellFoundedInduction,
        TLAPS

-----------------------------------------------------------------------------
(* The secure store: types *)

LEMMA StoreConstants ==
  /\ NoEnvelope \notin Envelope
  /\ NoSync \in SyncState
  /\ NoProxied \in ProxiedRequest
  /\ Closed \in Handle
<1>1. NoEnvelope \notin Envelope
  BY StoreAssumption DEF NoEnvelope, NoRecord, Envelope, Record, Start
<1>2. NoSync \in SyncState
  BY StoreAssumption DEF NoSync, SyncState
<1>3. NoProxied \in ProxiedRequest
  BY StoreAssumption DEF NoProxied, ProxiedRequest
<1>4. Closed \in Handle
  BY DEF Closed, Handle
<1>5. QED
  BY <1>1, <1>2, <1>3, <1>4

LEMMA OpenedType ==
  ASSUME NEW fips, NEW h \in Opened(fips)
  PROVE  h \in Handle /\ h.kem = 0
BY DEF Opened, Handle

LEMMA StoreInitInv == StoreInit => StoreInv
<1> SUFFICES ASSUME StoreInit PROVE StoreInv
  OBVIOUS
<1>1. StoreTypeOK
  <2>1. keystore \in KeystoreFile
    BY DEF StoreInit, KeystoreFile
  <2>2. QED
    BY <2>1, StoreConstants, StoreAssumption DEF StoreInit, StoreTypeOK
<1>2. KeysKept
  BY DEF StoreInit, KeysKept, Process, Closed, NoSync, Syncing
<1>3. FilesKept
  BY DEF StoreInit, FilesKept, Stored
<1>4. SyncKept
  BY DEF StoreInit, SyncKept, NoSync, Syncing, Writing
<1>5. ProxyKept
  BY DEF StoreInit, ProxyKept, NoProxied
<1>6. QED
  BY <1>1, <1>2, <1>3, <1>4, <1>5 DEF StoreInv

\* The parts of the state that only some steps change.
LEMMA ProceedType ==
  ASSUME StoreTypeOK, NEW p \in Process, NEW h \in Handle,
         NEW pc \in {"kem", "keystore", "commit", "parse"}, 
         pc = "commit" => p = "manager", pc = "parse" => p # "manager",
         Proceed(p, pc, h)
  PROVE  /\ handle' \in [Process -> Handle]
         /\ manager' \in SyncState
         /\ proxied' \in ProxiedRequest
<1>1. handle' \in [Process -> Handle]
  BY DEF Proceed, StoreTypeOK
<1>2. manager' \in SyncState
  BY DEF Proceed, StoreTypeOK, SyncState
<1>3. proxied' \in ProxiedRequest
  BY DEF Proceed, StoreTypeOK, ProxiedRequest
<1>4. QED
  BY <1>1, <1>2, <1>3

LEMMA GiveUpType ==
  ASSUME StoreTypeOK, NEW p \in Process, GiveUp(p)
  PROVE  /\ handle' \in [Process -> Handle]
         /\ manager' \in SyncState
         /\ proxied' \in ProxiedRequest
BY StoreConstants DEF GiveUp, StoreTypeOK

LEMMA StoreStepType == ASSUME StoreInv, [StoreNext]_storeVars PROVE StoreTypeOK'
<1> USE StoreAssumption
<1>0. StoreTypeOK
  BY DEF StoreInv
<1>1. CASE Sync
  <2>1. handle' \in [Process -> Handle]
    <3>1. ASSUME NEW status \in FIPSStatus, NEW h \in Opened(IsFIPSMode(status)),
                 handle' = [handle EXCEPT !["manager"] = h]
          PROVE  handle' \in [Process -> Handle]
      BY <1>0, <3>1, OpenedType DEF StoreTypeOK
    <3>2. QED
      BY <1>0, <1>1, <3>1 DEF Sync, StoreTypeOK
  <2>2. manager' \in SyncState
    <3>1. CASE manager' = [NoSync EXCEPT !.pc = "synced"]
      BY <3>1, StoreConstants DEF SyncState
    <3>2. ASSUME NEW fips \in BOOLEAN, NEW listed \in SUBSET Service, NEW expires \in 0 .. MaxNow,
                 NEW wanted \in SUBSET listed,
                 manager' = [NoSync EXCEPT !.pc = "delete", !.fips = fips,
                                          !.listed = listed, !.wanted = wanted, !.todo = wanted,
                                          !.stale = StaleFiles(wanted), !.expires = expires]
          PROVE  manager' \in SyncState
      <4>1. StaleFiles(wanted) \in SUBSET Service
        BY DEF StaleFiles
      <4>2. QED
        BY <3>2, <4>1, StoreConstants DEF SyncState
    <3>3. QED
      BY <1>0, <1>1, <3>1, <3>2 DEF Sync, StoreTypeOK, IsFIPSMode
  <2>3. /\ starts < MaxStarts /\ starts' = starts + 1
        /\ UNCHANGED <<keystore, tokenFile, worker, proxied, synced, keys, now>>
    BY <1>1 DEF Sync
  <2>4. QED
    BY <1>0, <2>1, <2>2, <2>3 DEF StoreTypeOK
<1>2. CASE DeleteAgentToken
  <2>1. manager' \in SyncState
    BY <1>0, <1>2 DEF DeleteAgentToken, StoreTypeOK, SyncState
  <2>2. tokenFile' \in [Service -> Envelope \cup {NoEnvelope}]
    BY <1>0, <1>2 DEF DeleteAgentToken, StoreTypeOK
  <2>3. UNCHANGED <<keystore, handle, worker, proxied, starts, synced, keys, now>>
    BY <1>2 DEF DeleteAgentToken
  <2>4. QED
    BY <1>0, <2>1, <2>2, <2>3 DEF StoreTypeOK
<1>3. ASSUME NEW s \in Service, PutAgentToken(s) PROVE StoreTypeOK'
  <2> DEFINE env == [record |-> [service |-> s, start |-> starts, expires |-> manager.expires],
                     kem |-> 0, master |-> handle["manager"].master]
  <2>1. env \in Envelope
    <3>1. starts \in Start /\ manager.expires \in 0 .. MaxNow
      BY <1>0, <1>3 DEF PutAgentToken, StoreInv, SyncKept, StoreTypeOK, SyncState, Start
    <3>2. handle["manager"].master \in Source
      BY <1>0, <1>3 DEF PutAgentToken, StoreInv, KeysKept, Syncing, StoreTypeOK, Handle, Process
    <3>3. QED
      BY <3>1, <3>2 DEF Envelope, Record
  <2>2. manager' = [manager EXCEPT !.pc = IF manager.fips THEN "commit" ELSE "kem",
                                   !.todo = @ \ {s}, !.held = env]
    BY <1>3 DEF PutAgentToken
  <2> HIDE DEF env
  <2>3. manager' \in SyncState
    BY <1>0, <2>1, <2>2 DEF StoreTypeOK, SyncState
  <2>4. QED
    BY <1>0, <1>3, <2>3 DEF PutAgentToken, StoreTypeOK
<1>4. CASE CommitToken
  <2>1. tokenFile' \in [Service -> Envelope \cup {NoEnvelope}]
    <3>1. manager.held \in Envelope
      BY <1>0, <1>4 DEF StoreInv, SyncKept, Writing, CommitToken, StoreTypeOK, SyncState
    <3>2. handle["manager"].kem \in {0} \cup KEMKey
      BY <1>0 DEF StoreTypeOK, Handle, Process
    <3>3. Sealed(manager.held) \in Envelope
      BY <3>1, <3>2 DEF Sealed, Envelope
    <3>4. QED
      BY <1>0, <1>4, <3>3 DEF CommitToken, StoreTypeOK
  <2>2. manager' \in SyncState
    BY <1>0, <1>4, StoreConstants, ZenonT(60) DEF CommitToken, StoreTypeOK, SyncState
  <2>3. QED
    BY <1>0, <1>4, <2>1, <2>2, StoreConstants DEF CommitToken, StoreTypeOK
<1>5. CASE SyncDone
  <2>1. manager' \in SyncState
    BY <1>0, <1>5, StoreConstants DEF SyncDone, WorkerConfig, StoreTypeOK, SyncState
  <2>2. QED
    BY <1>0, <1>5, <2>1, StoreConstants DEF SyncDone, StoreTypeOK
<1>6. CASE StartWorker
  <2>1. manager' \in SyncState
    BY <1>6, StoreConstants DEF StartWorker, SyncState
  <2>2. handle' \in [Process -> Handle]
    BY <1>0, <1>6, OpenedType, StoreConstants DEF StartWorker, StoreTypeOK
  <2>3. worker' \in [up : BOOLEAN, listeners : SUBSET Service]
    <3>1. manager.listed \in SUBSET Service
      BY <1>0 DEF StoreTypeOK, SyncState
    <3>2. ASSUME NEW sockets \in SUBSET manager.listed
          PROVE  Listening(sockets) \in [up : BOOLEAN, listeners : SUBSET Service]
      BY <3>1 DEF Listening
    <3>3. QED
      BY <1>0, <1>6, <3>2 DEF StartWorker, StoreTypeOK, SocketByService
  <2>4. QED
    BY <1>0, <1>6, <2>1, <2>2, <2>3, StoreConstants DEF StartWorker, StoreTypeOK
<1>7. CASE StopManager
  BY <1>0, <1>7, StoreConstants DEF StopManager, StoreTypeOK
<1>8. ASSUME NEW s \in Service, Proxy(s) PROVE StoreTypeOK'
  <2>1. proxied' \in ProxiedRequest
    BY <1>0, <1>8, StoreConstants DEF Proxy, StoreTypeOK, ProxiedRequest
  <2>2. QED
    BY <1>0, <1>8, <2>1 DEF Proxy, StoreTypeOK
<1>9. ASSUME NEW p \in Process, GetKEMKey(p) PROVE StoreTypeOK'
  <2>1. handle[p] \in Handle /\ handle[p].kem \in {0} \cup KEMKey
    BY <1>0 DEF StoreTypeOK, Handle
  <2>2. AfterKEM(p) \in {"commit", "parse"} /\ (AfterKEM(p) = "commit" <=> p = "manager")
    BY DEF AfterKEM
  <2>3. CASE Proceed(p, AfterKEM(p), handle[p]) /\ UNCHANGED <<keystore, keys>>
    BY <1>0, <1>9, <2>1, <2>2, <2>3, ProceedType DEF GetKEMKey, StoreTypeOK
  <2>4. CASE /\ Proceed(p, AfterKEM(p), [handle[p] EXCEPT !.kem = keystore.kem])
             /\ UNCHANGED <<keystore, keys>>
    <3>1. [handle[p] EXCEPT !.kem = keystore.kem] \in Handle
      BY <1>0, <2>1 DEF StoreTypeOK, Handle, KeystoreFile
    <3>2. QED
      BY <1>0, <1>9, <2>2, <2>4, <3>1, ProceedType DEF GetKEMKey, StoreTypeOK
  <2>5. CASE /\ handle[p].kem = 0 /\ KEMMissing(handle[p])
             /\ keys' = keys + 1
             /\ keystore' = [state |-> "torn", kem |-> keys', master |-> handle[p].master]
             /\ Proceed(p, "keystore", [handle[p] EXCEPT !.kem = keys'])
    <3>1. p = "manager" /\ starts >= 1 /\ keys = 0
      BY <1>9, <2>5 DEF StoreInv, KeysKept, SyncKept, ProxyKept, SealedByKey, GetKEMKey,
         PcOf, KEMMissing, Process
    <3>2. keys' \in KEMKey /\ keys' \in 0 .. 2 * MaxStarts
      BY <1>0, <2>5, <3>1 DEF KEMKey, StoreTypeOK
    <3>3. keystore' \in KeystoreFile
      BY <2>1, <2>5, <3>2 DEF KeystoreFile, Handle
    <3>4. [handle[p] EXCEPT !.kem = keys'] \in Handle
      BY <2>1, <3>2 DEF Handle
    <3>5. QED
      BY <1>0, <1>9, <2>5, <3>2, <3>3, <3>4, ProceedType DEF GetKEMKey, StoreTypeOK
  <2>6. CASE GiveUp(p) /\ UNCHANGED <<keystore, keys>>
    BY <1>0, <1>9, <2>6, GiveUpType DEF GetKEMKey, StoreTypeOK
  <2>7. QED
    BY <1>9, <2>3, <2>4, <2>5, <2>6 DEF GetKEMKey
<1>10. ASSUME NEW p \in Process, WriteKeystore(p) PROVE StoreTypeOK'
  <2>1. handle[p] \in Handle
    BY <1>0 DEF StoreTypeOK
  <2>2. AfterKEM(p) \in {"commit", "parse"} /\ (AfterKEM(p) = "commit" <=> p = "manager")
    BY DEF AfterKEM
  <2>3. keystore' \in KeystoreFile
    BY <1>0, <1>10 DEF WriteKeystore, StoreTypeOK, KeystoreFile
  <2>4. QED
    BY <1>0, <1>10, <2>1, <2>2, <2>3, ProceedType, GiveUpType DEF WriteKeystore, StoreTypeOK
<1>11. CASE ReadToken
  <2>1. proxied' \in ProxiedRequest
    <3>1. CASE proxied' = NoProxied
      BY <3>1, StoreConstants
    <3>2. CASE proxied' # NoProxied
      BY <1>0, <1>11, <3>2 DEF ReadToken, StoreInv, ProxyKept, StoreTypeOK, ProxiedRequest
    <3>3. QED
      BY <3>1, <3>2
  <2>2. QED
    BY <1>0, <1>11, <2>1 DEF ReadToken, StoreTypeOK
<1>12. CASE ParseToken
  <2>1. proxied' \in ProxiedRequest
    BY <1>0, <1>12, StoreConstants DEF ParseToken, StoreTypeOK, ProxiedRequest
  <2>2. QED
    BY <1>0, <1>12, <2>1 DEF ParseToken, StoreTypeOK
<1>13. CASE Forward
  BY <1>0, <1>13, StoreConstants DEF Forward, StoreTypeOK
<1>14. CASE StopWorker
  BY <1>0, <1>14, StoreConstants DEF StopWorker, StoreTypeOK
<1>15. CASE StoreTick
  BY <1>0, <1>15 DEF StoreTick, StoreTypeOK
<1>16. CASE UNCHANGED storeVars
  BY <1>0, <1>16 DEF storeVars, StoreTypeOK
<1>17. QED
  BY <1>1, <1>2, <1>3, <1>4, <1>5, <1>6, <1>7, <1>8, <1>9, <1>10, <1>11, <1>12, <1>13, <1>14,
     <1>15, <1>16 DEF StoreNext

\* A sync that opens the store begins with a new handle and all its work to do.
LEMMA SyncEffect ==
  ASSUME StoreInv, Sync
  PROVE  /\ starts' = starts + 1
         /\ UNCHANGED <<keystore, tokenFile, worker, proxied, synced, keys, now>>
         /\ \/ manager'.pc \in {"synced", "down"} /\ UNCHANGED handle
            \/ /\ manager'.pc = "delete"
               /\ manager'.todo = manager'.wanted
               /\ manager'.stale = StaleFiles(manager'.wanted)
               /\ handle'["manager"].kem = 0
               /\ handle'["manager"].master # "none"
               /\ handle'["worker"] = handle["worker"]
<1>1. CASE UNCHANGED handle /\ manager' = [NoSync EXCEPT !.pc = "synced"]
  BY <1>1 DEF Sync, NoSync
<1>2. ASSUME NEW status \in FIPSStatus, NEW listed \in SUBSET Service,
             NEW expires \in 0 .. MaxNow, NEW h \in Opened(IsFIPSMode(status)),
             NEW wanted \in SUBSET listed,
             handle' = [handle EXCEPT !["manager"] = h],
             manager' = [NoSync EXCEPT !.pc = "delete", !.fips = IsFIPSMode(status),
                                       !.listed = listed, !.wanted = wanted, !.todo = wanted,
                                       !.stale = StaleFiles(wanted), !.expires = expires]
      PROVE  /\ manager'.pc = "delete"
             /\ manager'.todo = manager'.wanted
             /\ manager'.stale = StaleFiles(manager'.wanted)
             /\ handle'["manager"].kem = 0
             /\ handle'["manager"].master # "none"
             /\ handle'["worker"] = handle["worker"]
  <2>1. h.kem = 0 /\ h.master # "none"
    BY DEF Opened, Source
  <2>2. handle'["manager"] = h /\ handle'["worker"] = handle["worker"]
    BY <1>2 DEF StoreInv, StoreTypeOK, Process
  <2>3. manager'.pc = "delete" /\ manager'.wanted = wanted /\ manager'.todo = wanted
        /\ manager'.stale = StaleFiles(wanted)
    BY <1>2 DEF NoSync
  <2>4. QED
    BY <2>1, <2>2, <2>3
<1>3. QED
  BY <1>1, <1>2 DEF Sync

LEMMA SyncKeeps ==
  ASSUME StoreInv, Sync
  PROVE  KeysKept' /\ FilesKept' /\ SyncKept' /\ ProxyKept'
<1>1. KeysKept'
  <2>1. manager.pc = "down" /\ KeysKept /\ keystore' = keystore /\ keys' = keys
    BY DEF Sync, StoreInv
  <2>2. CASE manager'.pc \in {"synced", "down"} /\ UNCHANGED handle
    BY <2>1, <2>2 DEF KeysKept, Syncing
  <2>3. CASE /\ manager'.pc = "delete" /\ handle'["manager"].kem = 0
             /\ handle'["manager"].master # "none" /\ handle'["worker"] = handle["worker"]
    BY <2>1, <2>3 DEF KeysKept, Syncing, Process
  <2>4. QED
    BY <2>2, <2>3, SyncEffect
<1>2. FilesKept'
  BY DEF StoreInv, FilesKept, SealedByKey, Stored, Sync
<1>3. SyncKept'
  BY SyncEffect, StoreAssumption DEF StoreInv, SyncKept, Syncing, Writing, Stored, StaleFiles,
     StoreTypeOK
<1>4. ProxyKept'
  BY DEF StoreInv, ProxyKept, SealedByKey, Sync
<1>5. QED
  BY <1>1, <1>2, <1>3, <1>4

LEMMA DeleteKeeps ==
  ASSUME StoreInv, DeleteAgentToken
  PROVE  KeysKept' /\ FilesKept' /\ SyncKept' /\ ProxyKept'
<1>1. KeysKept'
  BY StoreAssumption DEF StoreInv, KeysKept, Syncing, Process, DeleteAgentToken, StoreTypeOK,
     SyncState, ProxiedRequest
<1>2. FilesKept'
  BY StoreAssumption DEF StoreInv, FilesKept, SealedByKey, Stored, DeleteAgentToken, StoreTypeOK
<1>3. SyncKept'
  BY StoreAssumption DEF StoreInv, SyncKept, Syncing, Writing, Stored, DeleteAgentToken,
     StoreTypeOK, SyncState, ProxiedRequest
<1>4. ProxyKept'
  BY DEF StoreInv, ProxyKept, SealedByKey, DeleteAgentToken
<1>5. QED
  BY <1>1, <1>2, <1>3, <1>4

LEMMA PutKeeps ==
  ASSUME StoreInv, NEW s \in Service, PutAgentToken(s)
  PROVE  KeysKept' /\ FilesKept' /\ SyncKept' /\ ProxyKept'
<1>1. KeysKept'
  BY DEF StoreInv, KeysKept, Syncing, Process, PutAgentToken
<1>2. FilesKept'
  BY DEF StoreInv, FilesKept, SealedByKey, Stored, PutAgentToken
<1>3. SyncKept'
  <2> DEFINE env == [record |-> [service |-> s, start |-> starts, expires |-> manager.expires],
                     kem |-> 0, master |-> handle["manager"].master]
  <2>1. /\ manager'.pc \in {"commit", "kem"} /\ manager'.held = env
        /\ manager'.todo = manager.todo \ {s}
        /\ manager'.wanted = manager.wanted /\ manager'.stale = manager.stale
    BY DEF PutAgentToken, StoreInv, StoreTypeOK, SyncState
  <2>2. env.record.service = s /\ env.record.start = starts
    OBVIOUS
  <2>3. starts >= 1 /\ s \in manager.wanted
    BY DEF PutAgentToken, StoreInv, SyncKept, Syncing
  <2>4. env # NoEnvelope
    BY <2>3 DEF NoEnvelope, NoRecord
  <2> HIDE DEF env
  <2>5. QED
    BY <2>1, <2>2, <2>3, <2>4 DEF PutAgentToken, StoreInv, SyncKept, Syncing, Writing, Stored
<1>4. ProxyKept'
  BY DEF StoreInv, ProxyKept, SealedByKey, PutAgentToken
<1>5. QED
  BY <1>1, <1>2, <1>3, <1>4

LEMMA CommitKeeps ==
  ASSUME StoreInv, CommitToken
  PROVE  KeysKept' /\ FilesKept' /\ SyncKept' /\ ProxyKept'
<1>1. KeysKept'
  <2>1. CASE manager' = [manager EXCEPT !.pc = "put", !.held = NoEnvelope] /\ UNCHANGED handle
    <3>1. manager'.pc = "put"
      BY <2>1 DEF StoreInv, StoreTypeOK, SyncState
    <3>2. QED
      BY <2>1, <3>1 DEF CommitToken, StoreInv, KeysKept, Syncing
  <2>2. CASE manager' = NoSync /\ handle' = [handle EXCEPT !["manager"] = Closed]
    <3>1. /\ manager'.pc = "down" /\ handle'["manager"].kem = 0
          /\ handle'["worker"] = handle["worker"]
      BY <2>2 DEF NoSync, Closed, StoreInv, StoreTypeOK, Process
    <3>2. QED
      BY <3>1 DEF CommitToken, StoreInv, KeysKept, Syncing, Process
  <2>3. QED
    BY <2>1, <2>2 DEF CommitToken
<1>2. FilesKept'
  BY StoreAssumption DEF StoreInv, KeysKept, FilesKept, SyncKept, ProxyKept, SealedByKey,
     Syncing, Writing, Stored, CommitToken, Sealed, NoSync, NoEnvelope, NoRecord, Closed,
     StoreTypeOK, Envelope, Record, Start, KEMKey, Handle, Process, Source, SyncState,
     ProxiedRequest, KeystoreFile
<1>3. SyncKept'
  <2>1. CASE manager' = [manager EXCEPT !.pc = "put", !.held = NoEnvelope]
    <3> DEFINE s == manager.held.record.service
    <3>1. /\ manager'.pc = "put" /\ manager'.wanted = manager.wanted
          /\ manager'.todo = manager.todo /\ manager'.stale = manager.stale
      BY <2>1 DEF StoreInv, StoreTypeOK, SyncState
    <3>2. /\ s \in manager.wanted /\ manager.wanted \in SUBSET Service
          /\ manager.held.record.start = starts /\ starts >= 1
          /\ manager.held \in Envelope
      BY DEF CommitToken, StoreInv, SyncKept, Writing, StoreTypeOK, SyncState
    <3>3. Sealed(manager.held).record = manager.held.record /\ Sealed(manager.held) # NoEnvelope
      BY <3>2 DEF Sealed, Envelope, NoEnvelope, NoRecord
    <3>4. /\ \A x \in Service \ {s} : tokenFile'[x] = tokenFile[x]
          /\ tokenFile'[s] = Sealed(manager.held)
      BY <3>2 DEF CommitToken, StoreInv, StoreTypeOK
    <3>5. UNCHANGED <<starts, synced>>
      BY DEF CommitToken
    <3>6. \A x \in manager.wanted \ manager.todo :
             (Stored(x) /\ tokenFile[x].record.start = starts)'
      BY <3>2, <3>3, <3>4, <3>5 DEF CommitToken, StoreInv, SyncKept, Syncing, Writing, Stored
    <3>7. \A x \in Service : Stored(x)' => x \in manager.wanted \cup manager.stale
      BY <3>2, <3>4 DEF CommitToken, StoreInv, SyncKept, Syncing, Stored
    <3>8. QED
      BY <3>1, <3>2, <3>5, <3>6, <3>7 DEF CommitToken, StoreInv, SyncKept, Syncing, Writing
  <2>2. CASE manager' = NoSync
    BY <2>2 DEF CommitToken, StoreInv, SyncKept, NoSync, Syncing, Writing
  <2>3. QED
    BY <2>1, <2>2 DEF CommitToken
<1>4. ProxyKept'
  BY DEF StoreInv, ProxyKept, SealedByKey, CommitToken
<1>5. QED
  BY <1>1, <1>2, <1>3, <1>4

LEMMA SyncDoneKeeps ==
  ASSUME StoreInv, SyncDone
  PROVE  KeysKept' /\ FilesKept' /\ SyncKept' /\ ProxyKept'
<1>1. KeysKept'
  BY StoreAssumption DEF StoreInv, KeysKept, Syncing, Process, SyncDone, WorkerConfig, NoSync,
     Closed, StoreTypeOK
<1>2. FilesKept'
  BY StoreAssumption DEF StoreInv, KeysKept, FilesKept, SyncKept, ProxyKept, SealedByKey,
     Syncing, Writing, Stored, SyncDone, WorkerConfig, NoSync, Closed, StoreTypeOK, Envelope,
     Record, Start, KEMKey, Handle, Process, Source, SyncState, ProxiedRequest,
     KeystoreFile
<1>3. SyncKept'
  BY StoreAssumption DEF StoreInv, SyncKept, Syncing, Writing, Stored, SyncDone, WorkerConfig,
     NoSync, Closed, StoreTypeOK
<1>4. ProxyKept'
  BY StoreAssumption DEF StoreInv, KeysKept, FilesKept, SyncKept, ProxyKept, SealedByKey,
     Syncing, Writing, Stored, SyncDone, WorkerConfig, NoSync, Closed, StoreTypeOK, Envelope,
     Record, Start, KEMKey, Handle, Process, Source, SyncState, ProxiedRequest,
     KeystoreFile
<1>5. QED
  BY <1>1, <1>2, <1>3, <1>4

LEMMA StartWorkerKeeps ==
  ASSUME StoreInv, StartWorker
  PROVE  KeysKept' /\ FilesKept' /\ SyncKept' /\ ProxyKept'
<1>1. KeysKept'
  BY StoreAssumption DEF StoreInv, KeysKept, Syncing, Process, StartWorker, NoSync, Closed,
     Opened, Listening, SocketByService, NoProxied, StoreTypeOK
<1>2. FilesKept'
  BY DEF StoreInv, FilesKept, SealedByKey, Stored, StartWorker
<1>3. SyncKept'
  BY DEF StoreInv, SyncKept, Syncing, Writing, Stored, StartWorker
<1>4. ProxyKept'
  BY StoreAssumption DEF StoreInv, ProxyKept, SealedByKey, StartWorker, NoSync, Closed,
     Opened, Listening, SocketByService, NoProxied, StoreTypeOK
<1>5. QED
  BY <1>1, <1>2, <1>3, <1>4

LEMMA StopManagerKeeps ==
  ASSUME StoreInv, StopManager
  PROVE  KeysKept' /\ FilesKept' /\ SyncKept' /\ ProxyKept'
<1>1. KeysKept'
  BY StoreAssumption DEF StoreInv, KeysKept, Syncing, Process, StopManager, NoSync, Closed,
     StoreTypeOK
<1>2. FilesKept'
  BY DEF StoreInv, FilesKept, SealedByKey, Stored, StopManager
<1>3. SyncKept'
  BY StoreAssumption DEF StoreInv, SyncKept, Syncing, Writing, Stored, StopManager, NoSync,
     Closed, StoreTypeOK
<1>4. ProxyKept'
  BY DEF StoreInv, ProxyKept, SealedByKey, StopManager
<1>5. QED
  BY <1>1, <1>2, <1>3, <1>4

LEMMA ProxyStartKeeps ==
  ASSUME StoreInv, NEW s \in Service, Proxy(s)
  PROVE  KeysKept' /\ FilesKept' /\ SyncKept' /\ ProxyKept'
<1>1. KeysKept'
  BY DEF StoreInv, KeysKept, Syncing, Process, Proxy
<1>2. FilesKept'
  BY DEF StoreInv, FilesKept, SealedByKey, Stored, Proxy
<1>3. SyncKept'
  BY DEF StoreInv, SyncKept, Syncing, Writing, Stored, Proxy
<1>4. ProxyKept'
  BY StoreAssumption DEF StoreInv, ProxyKept, SealedByKey, Proxy, NoProxied, StoreTypeOK
<1>5. QED
  BY <1>1, <1>2, <1>3, <1>4

LEMMA ReadKeepsStore ==
  ASSUME StoreInv, ReadToken
  PROVE  KeysKept' /\ FilesKept' /\ SyncKept' /\ ProxyKept'
<1>1. KeysKept'
  BY DEF StoreInv, KeysKept, Syncing, Process, ReadToken
<1>2. FilesKept'
  BY DEF StoreInv, FilesKept, SealedByKey, Stored, ReadToken
<1>3. SyncKept'
  BY DEF StoreInv, SyncKept, Syncing, Writing, Stored, ReadToken
<1>4. ProxyKept'
  BY StoreAssumption DEF StoreInv, KeysKept, FilesKept, SyncKept, ProxyKept, SealedByKey,
     Syncing, Writing, Stored, ReadToken, NoProxied, StoreTypeOK, Envelope, Record, Start,
     KEMKey, Handle, Process, Source, SyncState, ProxiedRequest, KeystoreFile
<1>5. QED
  BY <1>1, <1>2, <1>3, <1>4

LEMMA ParseKeeps ==
  ASSUME StoreInv, ParseToken
  PROVE  KeysKept' /\ FilesKept' /\ SyncKept' /\ ProxyKept'
<1>1. KeysKept'
  BY DEF StoreInv, KeysKept, Syncing, Process, ParseToken
<1>2. FilesKept'
  BY DEF StoreInv, FilesKept, SealedByKey, Stored, ParseToken
<1>3. SyncKept'
  BY DEF StoreInv, SyncKept, Syncing, Writing, Stored, ParseToken
<1>4. ProxyKept'
  <2>1. CASE proxied' = NoProxied
    BY <2>1, StoreAssumption DEF ParseToken, ProxyKept, NoProxied, StoreInv, StoreTypeOK
  <2>2. CASE /\ Unexpired(proxied.held.record)
             /\ proxied' = [proxied EXCEPT !.pc = "forward", !.at = now]
    <3>1. /\ proxied'.pc = "forward" /\ proxied'.at = now
          /\ proxied'.held = proxied.held /\ proxied'.service = proxied.service
          /\ proxied'.since = proxied.since
      BY <2>2 DEF StoreInv, StoreTypeOK, ProxiedRequest
    <3>2. QED
      BY <2>2, <3>1 DEF ParseToken, StoreInv, ProxyKept, SealedByKey, Unexpired
  <2>3. QED
    BY <2>1, <2>2 DEF ParseToken
<1>5. QED
  BY <1>1, <1>2, <1>3, <1>4

LEMMA ForwardKeeps ==
  ASSUME StoreInv, Forward
  PROVE  KeysKept' /\ FilesKept' /\ SyncKept' /\ ProxyKept'
<1>1. KeysKept'
  BY DEF StoreInv, KeysKept, Syncing, Process, Forward
<1>2. FilesKept'
  BY DEF StoreInv, FilesKept, SealedByKey, Stored, Forward
<1>3. SyncKept'
  BY DEF StoreInv, SyncKept, Syncing, Writing, Stored, Forward
<1>4. ProxyKept'
  BY StoreAssumption DEF StoreInv, ProxyKept, SealedByKey, Forward, NoProxied, StoreTypeOK
<1>5. QED
  BY <1>1, <1>2, <1>3, <1>4

LEMMA StopWorkerKeeps ==
  ASSUME StoreInv, StopWorker
  PROVE  KeysKept' /\ FilesKept' /\ SyncKept' /\ ProxyKept'
<1>1. KeysKept'
  BY StoreAssumption DEF StoreInv, KeysKept, Syncing, Process, StopWorker, NoProxied, Closed,
     StoreTypeOK
<1>2. FilesKept'
  BY DEF StoreInv, FilesKept, SealedByKey, Stored, StopWorker
<1>3. SyncKept'
  BY DEF StoreInv, SyncKept, Syncing, Writing, Stored, StopWorker
<1>4. ProxyKept'
  BY StoreAssumption DEF StoreInv, ProxyKept, SealedByKey, StopWorker, NoProxied, Closed,
     StoreTypeOK
<1>5. QED
  BY <1>1, <1>2, <1>3, <1>4

LEMMA TickKeeps ==
  ASSUME StoreInv, StoreTick
  PROVE  KeysKept' /\ FilesKept' /\ SyncKept' /\ ProxyKept'
<1>1. KeysKept'
  BY DEF StoreInv, KeysKept, Syncing, Process, StoreTick
<1>2. FilesKept'
  BY DEF StoreInv, FilesKept, SealedByKey, Stored, StoreTick
<1>3. SyncKept'
  BY DEF StoreInv, SyncKept, Syncing, Writing, Stored, StoreTick
<1>4. ProxyKept'
  BY DEF StoreInv, ProxyKept, SealedByKey, StoreTick
<1>5. QED
  BY <1>1, <1>2, <1>3, <1>4

LEMMA GetKEMKeyKeeps ==
  ASSUME StoreInv, NEW p \in Process, GetKEMKey(p)
  PROVE  KeysKept' /\ FilesKept' /\ SyncKept' /\ ProxyKept'
<1>1. KeysKept'
  <2> DEFINE h == handle[p]
  <2>0. KeysKept /\ SyncKept /\ ProxyKept /\ StoreTypeOK
    BY DEF StoreInv
  <2>1. CASE h.kem # 0 /\ Proceed(p, AfterKEM(p), h) /\ UNCHANGED <<keystore, keys>>
    BY <2>0, <2>1 DEF Proceed, AfterKEM, KeysKept, Syncing, Process, StoreTypeOK, SyncState,
       GetKEMKey, PcOf
  <2>2. CASE /\ h.kem = 0 /\ KEMLoads(h)
             /\ Proceed(p, AfterKEM(p), [h EXCEPT !.kem = keystore.kem])
             /\ UNCHANGED <<keystore, keys>>
    <3>1. /\ handle'[p].kem = keystore.kem
          /\ handle'[p].master = handle[p].master
          /\ \A q \in Process \ {p} : handle'[q] = handle[q]
      BY <2>0, <2>2 DEF Proceed, StoreTypeOK, Handle
    <3>2. CASE p = "manager"
      <4>1. manager.pc = "kem" /\ manager'.pc = "commit"
        BY <2>0, <2>2, <3>2 DEF Proceed, AfterKEM, GetKEMKey, PcOf, StoreTypeOK, SyncState
      <4>2. handle["manager"].master # "none"
        BY <2>0, <4>1 DEF KeysKept, Syncing
      <4>3. manager'.fips = manager.fips /\ keystore.kem # 0
        BY <2>0, <2>2, <3>2 DEF Proceed, StoreTypeOK, SyncState, KeysKept, KEMLoads
      <4>4. QED
        BY <2>0, <2>2, <3>1, <3>2, <4>1, <4>2, <4>3 DEF KeysKept, KEMLoads, Process
    <3>3. CASE p = "worker"
      BY <2>0, <2>2, <3>1, <3>3 DEF Proceed, KeysKept, KEMLoads, Process, Syncing
    <3>4. QED
      BY <3>2, <3>3 DEF Process
  <2>3. CASE /\ h.kem = 0 /\ KEMMissing(h)
             /\ keys' = keys + 1
             /\ keystore' = [state |-> "torn", kem |-> keys', master |-> h.master]
             /\ Proceed(p, "keystore", [h EXCEPT !.kem = keys'])
    <3>1. p = "manager"
      BY <2>0, <2>3 DEF KEMMissing, GetKEMKey, PcOf, ProxyKept, SealedByKey, Process
    <3>2. /\ manager.pc = "kem" /\ keystore.state = "absent" /\ keys = 0
          /\ handle["worker"].kem = 0 /\ handle["manager"].master # "none"
      BY <2>0, <2>3, <3>1 DEF GetKEMKey, PcOf, KEMMissing, KeysKept, Syncing, Process
    <3>3. /\ handle'["manager"].kem = keys'
          /\ handle'["manager"].master = handle["manager"].master
          /\ handle'["worker"] = handle["worker"]
      BY <2>0, <2>3, <3>1 DEF Proceed, StoreTypeOK, Process, Handle
    <3>4. /\ manager'.pc = "keystore"
          /\ keystore'.state = "torn" /\ keystore'.kem = keys'
      BY <2>0, <2>3, <3>1 DEF Proceed, StoreTypeOK, SyncState
    <3>5. QED
      BY <2>3, <3>2, <3>3, <3>4 DEF KeysKept, Process
  <2>4. CASE GiveUp(p) /\ UNCHANGED <<keystore, keys>>
    BY <2>0, <2>4 DEF GiveUp, KeysKept, Syncing, Process, StoreTypeOK, NoSync, Closed
  <2>5. QED
    BY <2>1, <2>2, <2>3, <2>4 DEF GetKEMKey
<1>2. FilesKept'
  BY StoreAssumption DEF StoreInv, FilesKept, SealedByKey, Stored, GetKEMKey, PcOf, Proceed,
     GiveUp, NoProxied, NoSync, Closed, AfterKEM, KEMMissing, KEMLoads, StoreTypeOK
<1>3. SyncKept'
  BY StoreAssumption DEF StoreInv, SyncKept, Syncing, Writing, Stored, GetKEMKey, PcOf,
     Proceed, GiveUp, NoProxied, NoSync, Closed, AfterKEM, KEMMissing, KEMLoads, StoreTypeOK,
     SyncState, ProxiedRequest
<1>4. ProxyKept'
  BY StoreAssumption DEF StoreInv, ProxyKept, SealedByKey, GetKEMKey, PcOf, Proceed, GiveUp,
     NoProxied, NoSync, Closed, AfterKEM, KEMMissing, KEMLoads, StoreTypeOK, SyncState,
     ProxiedRequest
<1>5. QED
  BY <1>1, <1>2, <1>3, <1>4

LEMMA WriteKeystoreKeeps ==
  ASSUME StoreInv, NEW p \in Process, WriteKeystore(p)
  PROVE  KeysKept' /\ FilesKept' /\ SyncKept' /\ ProxyKept'
<1>1. KeysKept'
  BY StoreAssumption DEF StoreInv, KeysKept, FilesKept, SyncKept, ProxyKept, SealedByKey,
     Syncing, Writing, Stored, WriteKeystore, PcOf, Proceed, GiveUp, NoProxied, NoSync,
     Closed, AfterKEM, StoreTypeOK, Envelope, Record, Start, KEMKey, Handle, Process, Source,
     SyncState, ProxiedRequest, KeystoreFile
<1>2. FilesKept'
  BY StoreAssumption DEF StoreInv, FilesKept, SealedByKey, Stored, WriteKeystore, PcOf,
     Proceed, GiveUp, NoProxied, NoSync, Closed, AfterKEM, StoreTypeOK, KeystoreFile, Handle,
     SyncState, ProxiedRequest, Envelope, Record
<1>3. SyncKept'
  BY StoreAssumption DEF StoreInv, SyncKept, Syncing, Writing, Stored, WriteKeystore, PcOf,
     Proceed, GiveUp, NoProxied, NoSync, Closed, AfterKEM, StoreTypeOK, SyncState,
     ProxiedRequest
<1>4. ProxyKept'
  BY StoreAssumption DEF StoreInv, ProxyKept, SealedByKey, WriteKeystore, PcOf, Proceed,
     GiveUp, NoProxied, NoSync, Closed, AfterKEM, StoreTypeOK, KeystoreFile, Handle,
     SyncState, ProxiedRequest, Envelope, Record
<1>5. QED
  BY <1>1, <1>2, <1>3, <1>4

LEMMA StoreStepInv == StoreInv /\ [StoreNext]_storeVars => StoreInv'
<1> SUFFICES ASSUME StoreInv, [StoreNext]_storeVars
             PROVE  KeysKept' /\ FilesKept' /\ SyncKept' /\ ProxyKept'
  BY StoreStepType DEF StoreInv
<1>1. CASE Sync
  BY <1>1, SyncKeeps
<1>2. CASE DeleteAgentToken
  BY <1>2, DeleteKeeps
<1>3. CASE CommitToken
  BY <1>3, CommitKeeps
<1>4. CASE SyncDone
  BY <1>4, SyncDoneKeeps
<1>5. CASE StartWorker
  BY <1>5, StartWorkerKeeps
<1>6. CASE StopManager
  BY <1>6, StopManagerKeeps
<1>7. ASSUME NEW s \in Service, PutAgentToken(s) \/ Proxy(s)
      PROVE  KeysKept' /\ FilesKept' /\ SyncKept' /\ ProxyKept'
  BY <1>7, PutKeeps, ProxyStartKeeps
<1>8. ASSUME NEW p \in Process, GetKEMKey(p) \/ WriteKeystore(p)
      PROVE  KeysKept' /\ FilesKept' /\ SyncKept' /\ ProxyKept'
  BY <1>8, GetKEMKeyKeeps, WriteKeystoreKeeps
<1>9. CASE ReadToken \/ ParseToken \/ Forward
  BY <1>9, ReadKeepsStore, ParseKeeps, ForwardKeeps
<1>10. CASE StopWorker \/ StoreTick
  BY <1>10, StopWorkerKeeps, TickKeeps
<1>11. CASE UNCHANGED storeVars
  BY <1>11 DEF storeVars, StoreInv, KeysKept, FilesKept, SyncKept, ProxyKept, SealedByKey,
     Syncing, Writing, Stored
<1>12. QED
  BY <1>1, <1>2, <1>3, <1>4, <1>5, <1>6, <1>7, <1>8, <1>9, <1>10, <1>11 DEF StoreNext

LEMMA StoreAlways == StoreSpec => []StoreInv
BY StoreInitInv, StoreStepInv, PTL DEF StoreSpec

(***************************************************************************)
(* Wherever either process stops, whatever the state of the master key:    *)
(* the key that sealed a stored token is in the keystore, and a key that a *)
(* process has cached is that of the keystore.                             *)
(***************************************************************************)
THEOREM TokensKeepTheirKey == StoreSpec => []StoredTokensHaveTheirKey
<1>1. StoreInv => StoredTokensHaveTheirKey
  BY DEF StoreInv, KeysKept, FilesKept, SealedByKey, StoredTokensHaveTheirKey
<1>2. QED
  BY <1>1, StoreAlways, PTL

(***************************************************************************)
(* The proxy forwards a request with an unexpired token of the service it  *)
(* came from, which no sync had replaced or deleted when it came.          *)
(***************************************************************************)
THEOREM UsedTokensAreCurrent == StoreSpec => []UsedTokenIsCurrent
<1>1. StoreInv => UsedTokenIsCurrent
  BY DEF StoreInv, ProxyKept, UsedTokenIsCurrent
<1>2. QED
  BY <1>1, StoreAlways, PTL

(***************************************************************************)
(* The step that ends a sync finds exactly the tokens of the configuration *)
(* in the store, each written by this start of the node manager, however   *)
(* the starts before ended.                                                *)
(***************************************************************************)
THEOREM SyncLeavesDesired == StoreSpec => SyncedMeansDesired
<1> DEFINE Desired ==
       synced' # synced =>
         \A s \in Service : IF s \in manager.wanted
                            THEN Stored(s) /\ tokenFile[s].record.start = starts
                            ELSE ~Stored(s)
<1>1. ASSUME StoreInv, [StoreNext]_storeVars PROVE Desired
  <2> SUFFICES ASSUME synced' # synced, NEW s \in Service
               PROVE  IF s \in manager.wanted
                      THEN Stored(s) /\ tokenFile[s].record.start = starts
                      ELSE ~Stored(s)
    OBVIOUS
  <2>1. SyncDone
    BY <1>1 DEF StoreNext, storeVars, Sync, DeleteAgentToken, CommitToken, StartWorker,
       StopManager, PutAgentToken, Proxy, GetKEMKey, WriteKeystore, ReadToken, ParseToken,
       Forward, StopWorker, StoreTick
  <2>2. /\ Syncing /\ ~Writing /\ manager.pc # "delete" /\ manager.todo = {}
    BY <2>1 DEF SyncDone, Syncing, Writing
  <2>3. QED
    BY <1>1, <2>2 DEF StoreInv, SyncKept
<1>2. StoreInv /\ [StoreNext]_storeVars => [Desired]_storeVars
  BY <1>1
<1> HIDE DEF Desired
<1>3. StoreSpec => [][Desired]_storeVars
  BY <1>2, StoreAlways, PTL DEF StoreSpec
<1>4. QED
  BY <1>3 DEF Desired, SyncedMeansDesired
-----------------------------------------------------------------------------
(* Telemetry: the boots of a node *)

LEMMA BootInitInv == TelemetryInit => BootInv
<1>1. MaxBoots \in Nat
  BY TelemetryAssumption
<1>2. TelemetryInit => managerUp \in BOOLEAN /\ skip \in BOOLEAN
  BY Zenon DEF TelemetryInit
<1>3. TelemetryInit => boot \in 0 .. MaxBoots /\ nodeBoot = {} /\ ~managerUp
  BY <1>1 DEF TelemetryInit
<1>4. QED
  BY <1>2, <1>3 DEF BootInv, BootsKept

LEMMA BootStepInv == BootInv /\ [TelemetryNext]_telemetryVars => BootInv'
<1> SUFFICES ASSUME BootInv, [TelemetryNext]_telemetryVars PROVE BootInv'
  OBVIOUS
<1>0. MaxBoots \in Nat
  BY TelemetryAssumption
<1>1. CASE BootManager
  <2>1. /\ boot < MaxBoots /\ boot' = boot + 1 /\ managerUp' = TRUE
        /\ \/ nodeBoot' \in {nodeBoot, nodeBoot \cup {<<boot', "node_manager">>}} /\ skip' = TRUE
           \/ nodeBoot' = nodeBoot /\ skip' = FALSE
    BY <1>1 DEF BootManager, InsertNodeBoot
  <2>2. \A b \in nodeBoot : b[1] \in 1 .. boot /\ b[2] \in Writer
    BY DEF BootInv, BootsKept
  <2>3. boot' \in 1 .. MaxBoots
    BY <1>0, <2>1 DEF BootInv
  <2>4. nodeBoot' \subseteq (1 .. MaxBoots) \X Writer
    BY <2>1, <2>3 DEF BootInv, Writer
  <2>5. BootsKept'
    <3>1. CASE nodeBoot' = nodeBoot
      BY <2>1, <2>2, <2>3, <3>1 DEF BootInv, BootsKept
    <3>2. CASE nodeBoot' = nodeBoot \cup {<<boot', "node_manager">>} /\ skip' = TRUE
      BY <2>1, <2>2, <2>3, <3>2 DEF BootInv, BootsKept
    <3>3. QED
      BY <2>1, <3>1, <3>2
  <2>6. managerUp' \in BOOLEAN /\ skip' \in BOOLEAN
    BY <2>1, Zenon
  <2>7. QED
    BY <2>3, <2>4, <2>5, <2>6 DEF BootInv
<1>2. CASE BootWorker
  <2>1. /\ managerUp /\ UNCHANGED <<boot, managerUp, skip>>
        /\ \/ nodeBoot' = nodeBoot
           \/ ~skip /\ nodeBoot' = nodeBoot \cup {<<boot, "worker_api">>}
    BY <1>2 DEF BootWorker, RecordNodeBoot, SkipsBoot, InsertNodeBoot
  <2>2. CASE nodeBoot' = nodeBoot
    BY <2>1, <2>2 DEF BootInv, BootsKept
  <2>3. CASE ~skip /\ nodeBoot' = nodeBoot \cup {<<boot, "worker_api">>}
    <3>1. boot \in 1 .. MaxBoots /\ \A b \in nodeBoot : b[1] \in 1 .. boot /\ b[2] \in Writer
      BY <2>1 DEF BootInv, BootsKept
    <3>2. nodeBoot' \subseteq (1 .. MaxBoots) \X Writer
      BY <2>3, <3>1 DEF BootInv, Writer
    <3>3. \A b \in nodeBoot : b[1] = boot => b = <<boot, "worker_api">>
      BY <2>1, <2>3 DEF BootInv, BootsKept, Writer
    <3>4. BootsKept'
      BY <2>1, <2>3, <3>1, <3>3 DEF BootInv, BootsKept
    <3>5. QED
      BY <2>1, <3>2, <3>4 DEF BootInv
  <2>4. QED
    BY <2>1, <2>2, <2>3
<1>3. CASE ShutdownManager
  BY <1>3 DEF ShutdownManager, ProcessEnds, BootInv, BootsKept
<1>4. CASE StopWorkerAPI
  BY <1>4 DEF StopWorkerAPI, ProcessEnds, BootInv, BootsKept
<1>5. CASE UNCHANGED <<nodeBoot, boot, managerUp, skip>>
  BY <1>5 DEF BootInv, BootsKept
<1>6. QED
  BY <1>1, <1>2, <1>3, <1>4, <1>5 DEF TelemetryNext, telemetryVars, Log, InsertLogEvent,
     EnforceRetention, BeginQuery, QueryLogs, EndQuery, TelemetryTick

(***************************************************************************)
(* A start of the node is recorded at most once, for every number of       *)
(* starts and wherever the two processes fail or stop.                     *)
(***************************************************************************)
THEOREM BootsRecordedOnce == TelemetrySpec => []BootRecordedOnce
<1>1. ASSUME BootInv, NEW n \in 1 .. MaxBoots
      PROVE  Cardinality({b \in nodeBoot : b[1] = n}) <= 1
  <2> DEFINE S == {b \in nodeBoot : b[1] = n}
  <2>1. CASE S = {}
    BY <2>1, FS_EmptySet
  <2>2. CASE S # {}
    <3>1. PICK b \in S : TRUE
      BY <2>2
    <3>2. S = {b}
      BY <1>1, <3>1 DEF BootInv, BootsKept
    <3> HIDE DEF S
    <3>3. Cardinality(S) = 1
      BY <3>2, FS_Singleton
    <3>4. QED
      BY <3>3 DEF S
  <2>3. QED
    BY <2>1, <2>2
<1>2. BootInv => BootRecordedOnce
  BY <1>1 DEF BootRecordedOnce
<1>3. QED
  BY <1>2, BootInitInv, BootStepInv, PTL DEF TelemetrySpec

-----------------------------------------------------------------------------
(* Telemetry: lists of log events *)

LEMMA FunctionIsSeq ==
  ASSUME NEW S, NEW n \in Nat, NEW f \in [1 .. n -> S]
  PROVE  f \in Seq(S)
OBVIOUS

\* The events of a source are a sequence.
LEMMA EventsFacts ==
  ASSUME IsFiniteSet(logEvent), NEW source
  PROVE  \E S : EventsOf(source) \in Seq(S)
<1> DEFINE T == {e \in logEvent : e.source = source}
           Nth(n) == CHOOSE e \in T : Cardinality({d \in T : Precedes(d, e)}) = n - 1
<1>1. IsFiniteSet(T)
  BY FS_Subset
<1>2. PICK k \in Nat : k = Cardinality(T)
  BY <1>1, FS_CardinalityType
<1>3. EventsOf(source) = [n \in 1 .. k |-> Nth(n)]
  BY <1>2 DEF EventsOf
<1> HIDE DEF Nth
<1>4. PICK f : f = [n \in 1 .. k |-> Nth(n)]
  OBVIOUS
<1>5. PICK S : S = {Nth(n) : n \in 1 .. k}
  OBVIOUS
<1>6. f \in [1 .. k -> S]
  BY <1>4, <1>5
<1>7. f \in Seq(S)
  BY <1>2, <1>6, FunctionIsSeq
<1>8. QED
  BY <1>3, <1>4, <1>7

\* The first event that does not fit, if there is one.
LEMMA FitsFacts ==
  ASSUME NEW S, NEW rows \in Seq(S)
  PROVE  FitsIn(rows) \in 0 .. Len(rows)
<1> DEFINE Fits(m) == Bytes(rows, m) <= MaxBytes
           Over == {m \in 1 .. Len(rows) : ~Fits(m)}
           Answer(n) == /\ \A m \in 1 .. n : Fits(m)
                        /\ n < Len(rows) => ~Fits(n + 1)
<1>1. Len(rows) \in Nat
  OBVIOUS
<1>2. FitsIn(rows) = CHOOSE n \in 0 .. Len(rows) : Answer(n)
  BY DEF FitsIn
<1> HIDE DEF Fits
<1>3. CASE Over = {}
  <2>1. Answer(Len(rows)) /\ Len(rows) \in 0 .. Len(rows)
    BY <1>1, <1>3
  <2>2. QED
    BY <1>2, <2>1
<1>4. CASE Over # {}
  <2>1. PICK m \in Over : \A x \in Over : ~(<<x, m>> \in OpToRel(<, Nat))
    <3>1. IsWellFoundedOn(OpToRel(<, Nat), Nat)
      BY NatLessThanWellFounded
    <3>2. Over \subseteq Nat
      OBVIOUS
    <3>3. QED
      BY <1>4, <3>1, <3>2, WFMin
  <2>2. m \in 1 .. Len(rows) /\ ~Fits(m)
    OBVIOUS
  <2>3. \A x \in 1 .. m - 1 : Fits(x)
    <3> SUFFICES ASSUME NEW x \in 1 .. m - 1, ~Fits(x) PROVE FALSE
      OBVIOUS
    <3>1. x \in Over /\ x < m /\ x \in Nat /\ m \in Nat
      BY <1>1, <2>2
    <3>2. QED
      BY <2>1, <3>1 DEF OpToRel
  <2>4. m - 1 \in 0 .. Len(rows) /\ (m - 1) + 1 = m
    BY <1>1, <2>2
  <2>5. Answer(m - 1)
    BY <2>2, <2>3, <2>4
  <2> HIDE DEF Answer
  <2>6. QED
    BY <1>2, <2>4, <2>5
<1>5. QED
  BY <1>3, <1>4

\* One event more than the limit n is asked for after o of them.
Asked(E, o, n) == SubSeq(E, o + 1, IF o + n + 1 < Len(E) THEN o + n + 1 ELSE Len(E))

LEMMA AskedFacts ==
  ASSUME NEW S, NEW E \in Seq(S), NEW o \in Nat, NEW n \in Nat \ {0}
  PROVE  /\ Asked(E, o, n) \in Seq(S)
         /\ o <= Len(E) => Len(Asked(E, o, n)) = IF o + n + 1 < Len(E) THEN n + 1 ELSE Len(E) - o
<1>1. Len(E) \in Nat
  OBVIOUS
<1>2. PICK m \in Nat : m = (IF o + n + 1 < Len(E) THEN o + n + 1 ELSE Len(E)) /\ m <= Len(E)
  BY <1>1
<1>3. \A i \in o + 1 .. m : E[i] \in S
  <2>1. \A i \in o + 1 .. m : i \in 1 .. Len(E)
    BY <1>1, <1>2
  <2>2. QED
    BY <2>1
<1>4. /\ Asked(E, o, n) \in Seq(S)
      /\ Len(Asked(E, o, n)) = IF o + 1 <= m THEN m - (o + 1) + 1 ELSE 0
  BY <1>2, <1>3, SubSeqProperties DEF Asked
<1>5. o <= Len(E) => o <= m
  BY <1>1, <1>2
<1>6. o <= Len(E) => Len(Asked(E, o, n)) = m - o
  BY <1>2, <1>4, <1>5
<1>7. QED
  BY <1>1, <1>2, <1>4, <1>6

\* A full page is as much as the limit; one that is not full is the rest.
LEMMA FullPage ==
  ASSUME NEW S, NEW E \in Seq(S), NEW o \in Nat, o <= Len(E), NEW n \in Nat \ {0},
         Len(Asked(E, o, n)) > n
  PROVE  /\ o + n <= Len(E)
         /\ SubSeq(E, 1, o) \o SubSeq(Asked(E, o, n), 1, n) = SubSeq(E, 1, o + n)
<1>1. Len(E) \in Nat
  OBVIOUS
<1>2. o + n + 1 <= Len(E) /\ Asked(E, o, n) = SubSeq(E, o + 1, o + n + 1)
  <2>1. o + n + 1 <= Len(E)
    <3>1. Len(Asked(E, o, n)) = IF o + n + 1 < Len(E) THEN n + 1 ELSE Len(E) - o
      BY AskedFacts
    <3>2. QED
      BY <1>1, <3>1
  <2>2. QED
    BY <1>1, <2>1 DEF Asked
<1>3. /\ o + 1 \in 1 .. Len(E) /\ o + n + 1 \in 1 .. Len(E)
      /\ (o + n + 1) - (o + 1) + 1 = n + 1
      /\ 1 \in 1 .. n + 1 /\ n \in 1 .. n + 1
      /\ (o + 1) + 1 - 1 = o + 1 /\ (o + 1) + n - 1 = o + n
  BY <1>1, <1>2
<1>4. SubSeq(SubSeq(E, o + 1, o + n + 1), 1, n) = SubSeq(E, (o + 1) + 1 - 1, (o + 1) + n - 1)
  BY <1>3, SubSeqOfSubSeq
<1>5. SubSeq(Asked(E, o, n), 1, n) = SubSeq(E, o + 1, o + n)
  BY <1>2, <1>3, <1>4
<1>6. 1 \in 1 .. Len(E) + 1 /\ o \in 1 - 1 .. Len(E) /\ o + n \in o .. Len(E) /\ o + n <= Len(E)
  BY <1>1, <1>2
<1>7. SubSeq(E, 1, o) \o SubSeq(E, o + 1, o + n) = SubSeq(E, 1, o + n)
  BY <1>6, ConcatAdjacentSubSeq
<1>8. QED
  BY <1>5, <1>6, <1>7

LEMMA LastPage ==
  ASSUME NEW S, NEW E \in Seq(S), NEW o \in Nat, o <= Len(E), NEW n \in Nat \ {0},
         ~(Len(Asked(E, o, n)) > n)
  PROVE  SubSeq(E, 1, o) \o SubSeq(Asked(E, o, n), 1, Len(Asked(E, o, n))) = E
<1>1. Len(E) \in Nat
  OBVIOUS
<1>2. ~(o + n + 1 < Len(E))
  BY <1>1, AskedFacts
<1>3. Asked(E, o, n) = SubSeq(E, o + 1, Len(E))
  BY <1>2 DEF Asked
<1>4. SubSeq(Asked(E, o, n), 1, Len(Asked(E, o, n))) = Asked(E, o, n)
  BY AskedFacts, SubSeqFull
<1>5. 1 \in 1 .. Len(E) + 1 /\ o \in 1 - 1 .. Len(E) /\ Len(E) \in o .. Len(E)
  BY <1>1
<1>6. SubSeq(E, 1, o) \o SubSeq(E, o + 1, Len(E)) = SubSeq(E, 1, Len(E))
  BY <1>5, ConcatAdjacentSubSeq
<1>7. QED
  BY <1>3, <1>4, <1>6, SubSeqFull

QueryOf(seen) == [pc : {"idle", "ask", "told"}, source : Writer, offset : Nat, seen : {seen},
                  limitedBy : {"none", "count", "bytes"}, calm : BOOLEAN]

LEMMA QueryLogsKeeps ==
  ASSUME QueryInv, QueryLogs
  PROVE  QueryInv'
<1> DEFINE E == EventsOf(query.source)
           o == query.offset
           rows == Fetched(query.source, o)
           fits == FitsIn(rows)
           more == fits > PageLimit
           shown == SubSeq(rows, 1, IF more THEN PageLimit ELSE fits)
<1>1. query \in QueryOf(query.seen) /\ IsFiniteSet(logEvent) /\ logEvent' = logEvent
  BY DEF QueryInv, QueryOf, QueryLogs
<1>2. PICK S : E \in Seq(S)
  BY <1>1, EventsFacts
<1>3. o \in Nat /\ PageLimit \in Nat \ {0} /\ query.pc = "ask"
  BY <1>1, TelemetryAssumption DEF QueryOf, QueryLogs
<1>4. rows = Asked(E, o, PageLimit)
  BY DEF Fetched, Asked
<1>5. rows \in Seq(S) /\ Len(rows) \in Nat /\ fits \in 0 .. Len(rows)
  <2>1. rows \in Seq(S)
    BY <1>2, <1>3, <1>4, AskedFacts
  <2>2. QED
    BY <2>1, FitsFacts
<1>6. PICK seen : seen = query.seen \o shown
  OBVIOUS
<1>7. PICK pc \in {"ask", "told"} : pc = (IF more THEN "ask" ELSE "told")
  OBVIOUS
<1>8. PICK offset \in Nat : offset = (IF more THEN o + PageLimit ELSE o)
  BY <1>3
<1>9. PICK by \in {"none", "count", "bytes"} :
         by = (IF fits < Len(rows) THEN "bytes" ELSE IF more THEN "count" ELSE "none")
  OBVIOUS
<1>10. query' = [query EXCEPT !.pc = pc, !.seen = seen, !.offset = offset, !.limitedBy = by]
  BY <1>6, <1>7, <1>8, <1>9 DEF QueryLogs
<1>11. ASSUME query.calm
      PROVE  /\ pc = "ask" => offset <= Len(E) /\ seen = SubSeq(E, 1, offset)
             /\ pc = "told" /\ by = "none" => seen = E
  <2>1. o <= Len(E) /\ query.seen = SubSeq(E, 1, o)
    BY <1>3, <1>11 DEF QueryInv, SeenSoFar
  <2>2. CASE more
    <3>1. Len(Asked(E, o, PageLimit)) > PageLimit
      BY <1>3, <1>4, <1>5, <2>2
    <3>2. /\ o + PageLimit <= Len(E)
          /\ SubSeq(E, 1, o) \o SubSeq(Asked(E, o, PageLimit), 1, PageLimit)
               = SubSeq(E, 1, o + PageLimit)
      BY <1>2, <1>3, <2>1, <3>1, FullPage
    <3>3. shown = SubSeq(Asked(E, o, PageLimit), 1, PageLimit)
      BY <1>4, <2>2
    <3>4. QED
      BY <1>6, <1>7, <1>8, <2>1, <2>2, <3>2, <3>3
  <2>3. CASE ~more /\ fits = Len(rows)
    <3>1. ~(Len(Asked(E, o, PageLimit)) > PageLimit)
      BY <1>4, <2>3
    <3>2. SubSeq(E, 1, o) \o SubSeq(Asked(E, o, PageLimit), 1, Len(Asked(E, o, PageLimit))) = E
      BY <1>2, <1>3, <2>1, <3>1, LastPage
    <3>3. shown = SubSeq(Asked(E, o, PageLimit), 1, Len(Asked(E, o, PageLimit)))
      BY <1>4, <2>3
    <3>4. QED
      BY <1>6, <1>7, <1>8, <2>1, <2>3, <3>2, <3>3
  <2>4. CASE ~more /\ fits # Len(rows)
    <3>1. fits < Len(rows)
      BY <1>5, <2>4
    <3>2. QED
      BY <1>7, <1>9, <2>4, <3>1
  <2>5. QED
    BY <2>2, <2>3, <2>4
<1> HIDE DEF E, o, rows, fits, more, shown
<1>12. /\ query' \in QueryOf(seen)
      /\ query'.pc = pc /\ query'.seen = seen /\ query'.offset = offset /\ query'.limitedBy = by
      /\ query'.source = query.source /\ query'.calm = query.calm
  BY <1>1, <1>10 DEF QueryOf
<1>13. EventsOf(query.source)' = E
  BY <1>1, <1>12 DEF E, EventsOf
<1>14. QED
  BY <1>1, <1>11, <1>12, <1>13 DEF QueryInv, QueryOf, SeenSoFar, TruncationIsTold

LEMMA SameEvents ==
  ASSUME QueryInv, UNCHANGED <<logEvent, query>>
  PROVE  QueryInv'
<1>1. PICK E : E = EventsOf(query.source)
  OBVIOUS
<1>2. EventsOf(query.source)' = E
  BY <1>1 DEF EventsOf
<1>3. PICK q : q = query
  OBVIOUS
<1>4. query' = q /\ logEvent' = logEvent
  BY <1>3
<1>5. SeenSoFar = SeenSoFar'
  BY <1>1, <1>2, <1>3, <1>4 DEF SeenSoFar
<1>6. TruncationIsTold'
  BY <1>1, <1>2, <1>3, <1>4 DEF QueryInv, TruncationIsTold
<1>7. QED
  BY <1>3, <1>4, <1>5, <1>6 DEF QueryInv

LEMMA IdleClient ==
  ASSUME IsFiniteSet(logEvent'), NEW q \in QueryOf(<<>>), query' = q, q.pc = "idle"
  PROVE  QueryInv'
<1>1. query' \in QueryOf(query'.seen) /\ query'.pc = "idle"
  BY DEF QueryOf
<1>2. QED
  BY <1>1 DEF QueryInv, QueryOf, TruncationIsTold

LEMMA NoQueryFacts ==
  NoQuery \in QueryOf(<<>>) /\ NoQuery.pc = "idle"
BY DEF NoQuery, QueryOf, Writer

\* A client in the middle of a list notices that an event comes or goes.
LEMMA EventsChange ==
  ASSUME QueryInv, NEW new, IsFiniteSet(new), ChangeEvents(new)
  PROVE  QueryInv'
<1>1. query \in QueryOf(query.seen) /\ logEvent' = new
  BY DEF QueryInv, QueryOf, ChangeEvents
<1>2. CASE new = logEvent
  BY <1>1, <1>2, SameEvents DEF ChangeEvents
<1>3. CASE query.pc = "idle"
  <2>1. query' = query
    BY <1>3 DEF ChangeEvents
  <2>2. query'.pc = "idle"
    BY <1>3, <2>1
  <2>3. query' \in QueryOf(query'.seen)
    BY <1>1, <2>1
  <2>4. QED
    BY <1>1, <2>2, <2>3 DEF QueryInv, QueryOf, TruncationIsTold
<1>4. CASE new # logEvent /\ query.pc # "idle"
  <2>1. query' = [query EXCEPT !.calm = FALSE]
    BY <1>4 DEF ChangeEvents
  <2>2. ~query'.calm
    BY <1>1, <2>1 DEF QueryOf
  <2>3. query' \in QueryOf(query'.seen)
    BY <1>1, <2>1 DEF QueryOf
  <2>4. QED
    BY <1>1, <2>2, <2>3 DEF QueryInv, QueryOf, TruncationIsTold
<1>5. QED
  BY <1>2, <1>3, <1>4

LEMMA QueryBegins ==
  ASSUME QueryInv, BeginQuery
  PROVE  QueryInv'
<1>1. PICK source \in Writer : query' = [NoQuery EXCEPT !.pc = "ask", !.source = source]
  BY DEF BeginQuery
<1>2. IsFiniteSet(logEvent')
  BY DEF QueryInv, BeginQuery
<1>3. /\ query' \in QueryOf(query'.seen)
      /\ query'.pc = "ask" /\ query'.source = source /\ query'.offset = 0 /\ query'.seen = <<>>
  BY <1>1 DEF NoQuery, QueryOf
<1>4. PICK E : E = EventsOf(query.source)'
  OBVIOUS
<1>5. PICK S : E \in Seq(S)
  <2>1. \E T : EventsOf(source) \in Seq(T)
    BY EventsFacts DEF QueryInv
  <2>2. E = EventsOf(source)
    BY <1>3, <1>4 DEF EventsOf, BeginQuery
  <2>3. QED
    BY <2>1, <2>2
<1>6. 0 <= Len(E) /\ SubSeq(E, 1, 0) = <<>>
  <2>1. Len(E) \in Nat
    BY <1>5
  <2>2. SubSeq(E, 1, 0) = <<>>
    BY <1>5, SubSeqEmpty
  <2>3. QED
    BY <2>1, <2>2
<1>7. SeenSoFar'
  BY <1>3, <1>4, <1>6 DEF SeenSoFar
<1>8. QED
  BY <1>2, <1>3, <1>7 DEF QueryInv, QueryOf, TruncationIsTold

LEMMA QueryStep ==
  ASSUME QueryInv, [TelemetryNext]_telemetryVars
  PROVE  QueryInv'
<1>1. IsFiniteSet(logEvent)
  BY DEF QueryInv
<1>2. \A e : IsFiniteSet(logEvent \cup {e})
  BY <1>1, FS_AddElement
<1>3. ASSUME NEW e \in inserting, InsertLogEvent(e)
      PROVE  QueryInv'
  BY <1>2, <1>3, EventsChange, SameEvents DEF InsertLogEvent
<1>4. CASE ShutdownManager
  <2>1. CASE \E id \in EventId, size \in Sizes :
               ChangeEvents(logEvent \cup {[id |-> id, at |-> hour,
                                            source |-> "node_manager", size |-> size]})
    BY <1>2, <2>1, EventsChange
  <2>2. CASE UNCHANGED <<logEvent, logged, query>>
    BY <2>2, SameEvents
  <2>3. QED
    BY <1>4, <2>1, <2>2 DEF ShutdownManager
<1>5. CASE EnforceRetention
  <2>1. IsFiniteSet({e \in logEvent : e.at >= RetentionCutoff})
    BY <1>1, FS_Subset
  <2>2. QED
    BY <1>5, <2>1, EventsChange DEF EnforceRetention
<1>6. CASE StopWorkerAPI
  BY <1>1, <1>6, NoQueryFacts, IdleClient DEF StopWorkerAPI
<1>7. CASE EndQuery
  BY <1>1, <1>7, NoQueryFacts, IdleClient DEF EndQuery
<1>8. CASE BootManager
  BY <1>8, SameEvents DEF BootManager
<1>9. CASE BootWorker
  BY <1>9, SameEvents DEF BootWorker
<1>10. ASSUME NEW w \in Writer, Log(w)
       PROVE  QueryInv'
  BY <1>10, SameEvents DEF Log
<1>11. CASE TelemetryTick
  BY <1>11, SameEvents DEF TelemetryTick
<1>12. CASE UNCHANGED telemetryVars
  BY <1>12, SameEvents DEF telemetryVars
<1>13. QED
  BY <1>3, <1>4, <1>5, <1>6, <1>7, <1>8, <1>9, <1>10, <1>11, <1>12, QueryBegins, QueryLogsKeeps
     DEF TelemetryNext

(***************************************************************************)
(* A client of the worker API that follows the page tokens, and is told at *)
(* the end that nothing was cut off, has seen every event once, in the     *)
(* order of the query, whatever the sizes of events and pages              *)
(* (handleQueryLogs, QueryLogs and applyLogTruncation).                    *)
(***************************************************************************)
THEOREM ListsToldWhole == TelemetrySpec => []TruncationIsTold
<1>1. TelemetryInit => QueryInv
  <2> SUFFICES ASSUME TelemetryInit
               PROVE  QueryInv
    OBVIOUS
  <2>1. IsFiniteSet(logEvent)
    BY FS_EmptySet DEF TelemetryInit
  <2>2. query \in QueryOf(query.seen) /\ query.pc = "idle"
    BY NoQueryFacts DEF TelemetryInit, NoQuery, QueryOf
  <2>3. QED
    BY <2>1, <2>2 DEF QueryInv, QueryOf, TruncationIsTold
<1>2. QueryInv /\ [TelemetryNext]_telemetryVars => QueryInv'
  BY QueryStep
<1>3. QueryInv => TruncationIsTold
  BY DEF QueryInv
<1>4. QED
  BY <1>1, <1>2, <1>3, PTL DEF TelemetrySpec

-----------------------------------------------------------------------------
(* Telemetry: what a list of log events is *)

\* Events of T that the query puts before e.
Before(T, e) == {d \in T : Precedes(d, e)}

Numbered(T) == T \subseteq LogEvent /\ \A d, e \in T : d.id = e.id => d = e

LEMMA EventIds == \A e \in LogEvent : e.id \in 1 .. MaxEvents /\ e.id \in Int
<1>1. MaxEvents \in Nat
  BY TelemetryAssumption
<1>2. QED
  BY <1>1 DEF LogEvent, EventId

LEMMA EventTimes == \A e \in LogEvent : e.at \in Int
<1>1. MaxHour \in Nat
  BY TelemetryAssumption
<1>2. QED
  BY <1>1 DEF LogEvent

\* The query orders the events of T from the first to the last.
LEMMA PrecedesOrders ==
  ASSUME NEW T, Numbered(T)
  PROVE  /\ \A e \in T : ~Precedes(e, e)
         /\ \A c, d, e \in T : Precedes(c, d) /\ Precedes(d, e) => Precedes(c, e)
         /\ \A d, e \in T : Precedes(d, e) \/ Precedes(e, d) \/ d = e
<1>1. \A e \in T : e.id \in Int /\ e.at \in Int
  BY EventIds, EventTimes DEF Numbered
<1>2. \A d, e \in T : d.id = e.id => d = e
  BY DEF Numbered
<1>3. QED
  BY <1>1, <1>2 DEF Precedes

\* There are no more events than log ids.
LEMMA EventsBounded ==
  ASSUME NEW T, Numbered(T)
  PROVE  IsFiniteSet(T) /\ Cardinality(T) \in 0 .. MaxEvents
<1> DEFINE f == [e \in T |-> e.id]
<1>1. f \in [T -> 1 .. MaxEvents]
  BY EventIds DEF Numbered
<1>2. \A d, e \in T : f[d] = f[e] => d = e
  BY DEF Numbered
<1>3. f \in Injection(T, 1 .. MaxEvents)
  BY <1>1, <1>2 DEF Injection, IsInjective
<1> HIDE DEF f
<1>4. /\ MaxEvents \in Nat /\ IsFiniteSet(1 .. MaxEvents)
      /\ Cardinality(1 .. MaxEvents) = IF 1 > MaxEvents THEN 0 ELSE MaxEvents - 1 + 1
  <2>1. MaxEvents \in Nat
    BY TelemetryAssumption
  <2>2. PICK lo \in Int, hi \in Int : lo = 1 /\ hi = MaxEvents
    BY <2>1
  <2>3. IsFiniteSet(lo .. hi) /\ Cardinality(lo .. hi) = IF lo > hi THEN 0 ELSE hi - lo + 1
    BY FS_Interval
  <2>4. QED
    BY <2>1, <2>2, <2>3
<1>5. IsFiniteSet(T) /\ Cardinality(T) <= Cardinality(1 .. MaxEvents)
  BY <1>3, <1>4, FS_Injection
<1>6. Cardinality(T) \in Nat
  BY <1>5, FS_CardinalityType
<1>7. QED
  BY <1>4, <1>5, <1>6

\* A later event has more before it.
LEMMA BeforeGrows ==
  ASSUME NEW T, Numbered(T), NEW d \in T, NEW e \in T, Precedes(d, e)
  PROVE  /\ Cardinality(Before(T, d)) \in Nat /\ Cardinality(Before(T, e)) \in Nat
         /\ Cardinality(Before(T, d)) < Cardinality(Before(T, e))
<1>1. IsFiniteSet(T)
  BY EventsBounded
<1>2. /\ IsFiniteSet(Before(T, d)) /\ Cardinality(Before(T, d)) \in Nat
      /\ IsFiniteSet(Before(T, e)) /\ Cardinality(Before(T, e)) \in Nat
  <2>1. Before(T, d) \in SUBSET T /\ Before(T, e) \in SUBSET T
    BY DEF Before
  <2>2. QED
    BY <1>1, <2>1, FS_Subset, FS_CardinalityType
<1>3. Before(T, d) \in SUBSET Before(T, e)
  BY PrecedesOrders DEF Before
<1>4. d \in Before(T, e) /\ d \notin Before(T, d)
  BY PrecedesOrders DEF Before
<1>5. /\ Cardinality(Before(T, d)) <= Cardinality(Before(T, e))
      /\ Cardinality(Before(T, d)) # Cardinality(Before(T, e))
  BY <1>2, <1>3, <1>4, FS_Subset
<1>6. QED
  BY <1>2, <1>5

\* The numbers of events before an event are those below the number of events.
LEMMA Ranks ==
  ASSUME NEW T, Numbered(T), NEW n \in 0 .. Cardinality(T) - 1
  PROVE  \E e \in T : Cardinality(Before(T, e)) = n
<1> DEFINE k == Cardinality(T)
           f == [e \in T |-> Cardinality(Before(T, e))]
<1>1. IsFiniteSet(T) /\ k \in Nat
  BY EventsBounded, FS_CardinalityType
<1>2. ASSUME NEW e \in T PROVE Cardinality(Before(T, e)) \in 0 .. k - 1
  <2>1. Before(T, e) \in SUBSET T /\ e \notin Before(T, e)
    BY PrecedesOrders DEF Before
  <2>2. /\ IsFiniteSet(Before(T, e)) /\ Cardinality(Before(T, e)) <= k
        /\ (k = Cardinality(Before(T, e)) => T = Before(T, e))
    BY <1>1, <2>1, FS_Subset
  <2>3. Cardinality(Before(T, e)) \in Nat
    BY <2>2, FS_CardinalityType
  <2>4. Cardinality(Before(T, e)) # k
    BY <2>1, <2>2
  <2>5. QED
    BY <1>1, <2>2, <2>3, <2>4
<1>3. ASSUME NEW d \in T, NEW e \in T, Cardinality(Before(T, d)) = Cardinality(Before(T, e))
      PROVE  d = e
  <2>1. ~Precedes(d, e) /\ ~Precedes(e, d)
    BY <1>3, BeforeGrows
  <2>2. QED
    BY <2>1, PrecedesOrders
<1>4. f \in Injection(T, 0 .. k - 1)
  <2>1. f \in [T -> 0 .. k - 1]
    BY <1>2
  <2>2. \A d, e \in T : f[d] = f[e] => d = e
    BY <1>3
  <2>3. QED
    BY <2>1, <2>2 DEF Injection, IsInjective
<1>5. IsFiniteSet(0 .. k - 1) /\ Cardinality(0 .. k - 1) = k
  <2>1. /\ IsFiniteSet(0 .. k - 1)
        /\ Cardinality(0 .. k - 1) = IF 0 > k - 1 THEN 0 ELSE (k - 1) - 0 + 1
    <3>1. PICK lo \in Int, hi \in Int : lo = 0 /\ hi = k - 1
      BY <1>1
    <3>2. IsFiniteSet(lo .. hi) /\ Cardinality(lo .. hi) = IF lo > hi THEN 0 ELSE hi - lo + 1
      BY FS_Interval
    <3>3. QED
      BY <3>1, <3>2
  <2>2. QED
    BY <1>1, <2>1
<1>6. PICK g : g = f
  OBVIOUS
<1> HIDE DEF f
<1>7. g \in Surjection(T, 0 .. k - 1)
  BY <1>4, <1>5, <1>6, FS_Injection
<1>8. PICK e \in T : g[e] = n
  BY <1>7 DEF Surjection
<1>9. QED
  BY <1>6, <1>8 DEF f

\* EventsOf has each event of the source once, an older one before a younger one.
LEMMA EventsInOrder ==
  ASSUME Numbered(logEvent), NEW source
  PROVE  LET T == {e \in logEvent : e.source = source}
             E == EventsOf(source)
         IN  /\ E \in Seq(LogEvent) /\ Len(E) \in 0 .. MaxEvents
             /\ ToSet(E) = T
             /\ \A i, j \in DOMAIN E : i < j => E[i] # E[j] /\ E[i].at <= E[j].at
<1> DEFINE T == {e \in logEvent : e.source = source}
           Nth(n) == CHOOSE e \in T : Cardinality(Before(T, e)) = n - 1
<1>1. Numbered(T)
  BY DEF Numbered
<1>2. PICK k \in 0 .. MaxEvents : k = Cardinality(T)
  BY <1>1, EventsBounded
<1>3. PICK E : E = [n \in 1 .. k |-> Nth(n)]
  OBVIOUS
<1>4. EventsOf(source) = E
  BY <1>2, <1>3 DEF EventsOf, Before
<1>5. k \in Nat
  BY <1>2, TelemetryAssumption
<1> HIDE DEF T, Nth
<1>6. ASSUME NEW n \in 1 .. k
      PROVE  E[n] \in T /\ Cardinality(Before(T, E[n])) = n - 1
  <2>1. n - 1 \in 0 .. Cardinality(T) - 1
    BY <1>2, <1>5
  <2>2. \E e \in T : Cardinality(Before(T, e)) = n - 1
    BY <1>1, <2>1, Ranks
  <2>3. Nth(n) \in T /\ Cardinality(Before(T, Nth(n))) = n - 1
    BY <2>2 DEF Nth
  <2>4. QED
    BY <1>3, <2>3
<1>7. DOMAIN E = 1 .. k /\ E \in [1 .. k -> LogEvent]
  <2>1. T \subseteq LogEvent
    BY <1>1 DEF Numbered
  <2>2. DOMAIN E = 1 .. k
    BY <1>3
  <2>3. QED
    BY <1>3, <1>6, <2>1, <2>2
<1>8. E \in Seq(LogEvent) /\ Len(E) = k
  BY <1>5, <1>7, FunctionIsSeq
<1>9. ToSet(E) = T
  <2>1. ToSet(E) \subseteq T
    BY <1>6, <1>7 DEF ToSet
  <2>2. ASSUME NEW e \in T PROVE e \in ToSet(E)
    <3>1. Cardinality(Before(T, e)) \in 0 .. k - 1
      <4>1. IsFiniteSet(T) /\ Before(T, e) \in SUBSET T /\ e \notin Before(T, e)
        BY <1>1, EventsBounded, PrecedesOrders DEF Before
      <4>2. /\ IsFiniteSet(Before(T, e)) /\ Cardinality(Before(T, e)) <= k
            /\ (k = Cardinality(Before(T, e)) => T = Before(T, e))
        BY <1>2, <4>1, FS_Subset
      <4>3. Cardinality(Before(T, e)) \in Nat
        BY <4>2, FS_CardinalityType
      <4>4. Cardinality(Before(T, e)) # k
        BY <2>2, <4>1, <4>2
      <4>5. QED
        BY <1>5, <4>2, <4>3, <4>4
    <3>2. PICK n \in 1 .. k : n - 1 = Cardinality(Before(T, e))
      <4>1. Cardinality(Before(T, e)) + 1 \in 1 .. k
        BY <1>5, <3>1
      <4>2. (Cardinality(Before(T, e)) + 1) - 1 = Cardinality(Before(T, e))
        BY <1>5, <3>1
      <4>3. QED
        BY <4>1, <4>2
    <3>3. E[n] \in T /\ Cardinality(Before(T, E[n])) = Cardinality(Before(T, e))
      BY <1>6, <3>2
    <3>4. ~Precedes(E[n], e) /\ ~Precedes(e, E[n])
      BY <1>1, <2>2, <3>3, BeforeGrows
    <3>5. E[n] = e
      BY <1>1, <2>2, <3>3, <3>4, PrecedesOrders
    <3>6. QED
      BY <1>7, <3>5 DEF ToSet
  <2>3. QED
    BY <2>1, <2>2
<1>10. ASSUME NEW i \in 1 .. k, NEW j \in 1 .. k, i < j
       PROVE  E[i] # E[j] /\ E[i].at <= E[j].at
  <2>1. /\ E[i] \in T /\ Cardinality(Before(T, E[i])) = i - 1
        /\ E[j] \in T /\ Cardinality(Before(T, E[j])) = j - 1
    BY <1>6
  <2>2. ~Precedes(E[j], E[i])
    <3>1. SUFFICES ASSUME Precedes(E[j], E[i]) PROVE FALSE
      OBVIOUS
    <3>2. Cardinality(Before(T, E[j])) < Cardinality(Before(T, E[i]))
      BY <1>1, <2>1, <3>1, BeforeGrows
    <3>3. QED
      BY <1>5, <1>10, <2>1, <3>2
  <2>3. E[i] # E[j]
    BY <1>5, <1>10, <2>1
  <2>4. Precedes(E[i], E[j])
    BY <1>1, <2>1, <2>2, <2>3, PrecedesOrders
  <2>5. E[i].at \in Int /\ E[j].at \in Int
    BY <1>1, <2>1, EventTimes DEF Numbered
  <2>6. QED
    BY <2>3, <2>4, <2>5 DEF Precedes
<1>11. QED
  BY <1>2, <1>4, <1>7, <1>8, <1>9, <1>10 DEF T

-----------------------------------------------------------------------------
(* Telemetry: types *)

QueryType == [pc : {"idle", "ask", "told"}, source : Writer, offset : 0 .. MaxEvents,
              seen : Seq(LogEvent), limitedBy : {"none", "count", "bytes"}, calm : BOOLEAN]

\* The part of the type that is about events and the clients that read them.
EventTypes ==
    /\ logEvent \subseteq LogEvent /\ inserting \subseteq LogEvent
    /\ logged \subseteq EventId /\ hour \in 0 .. MaxHour
    /\ query \in QueryType

ProcessTypes == opened \subseteq Writer /\ workerRuns \in BOOLEAN

TelemetryTypeInv == EventTypes /\ ProcessTypes /\ EventsKept

\* A full page is followed by more events, wherever the client is.
LEMMA MoreToCome ==
  ASSUME NEW S, NEW E \in Seq(S), NEW o \in Nat, NEW n \in Nat \ {0}, Len(Asked(E, o, n)) > n
  PROVE  o + n <= Len(E)
<1>1. Len(E) \in Nat
  OBVIOUS
<1>2. PICK m \in Nat : m = (IF o + n + 1 < Len(E) THEN o + n + 1 ELSE Len(E)) /\ m <= Len(E)
  BY <1>1
<1>3. \A i \in o + 1 .. m : E[i] \in S
  <2>1. \A i \in o + 1 .. m : i \in 1 .. Len(E)
    BY <1>1, <1>2
  <2>2. QED
    BY <2>1
<1>4. Len(Asked(E, o, n)) = IF o + 1 <= m THEN m - (o + 1) + 1 ELSE 0
  BY <1>2, <1>3, SubSeqProperties DEF Asked
<1>5. QED
  BY <1>1, <1>2, <1>4

LEMMA PrefixOfSeq ==
  ASSUME NEW S, NEW s \in Seq(S), NEW n \in 0 .. Len(s)
  PROVE  SubSeq(s, 1, n) \in Seq(S)
<1>1. Len(s) \in Nat /\ n \in Nat
  OBVIOUS
<1>2. \A i \in 1 .. n : s[i] \in S
  BY <1>1
<1>3. QED
  BY <1>1, <1>2, SubSeqProperties

\* One page keeps the client in its type.
LEMMA PageType ==
  ASSUME EventTypes, EventsKept, QueryLogs
  PROVE  query' \in QueryType
<1> DEFINE E == EventsOf(query.source)
           o == query.offset
           rows == Fetched(query.source, o)
           fits == FitsIn(rows)
           more == fits > PageLimit
           shown == SubSeq(rows, 1, IF more THEN PageLimit ELSE fits)
<1>1. Numbered(logEvent)
  BY DEF EventTypes, EventsKept, Numbered
<1>2. E \in Seq(LogEvent) /\ Len(E) \in 0 .. MaxEvents
  BY <1>1, EventsInOrder
<1>3. /\ query \in QueryType /\ o \in 0 .. MaxEvents /\ o \in Nat
      /\ PageLimit \in Nat \ {0} /\ MaxEvents \in Nat
  BY TelemetryAssumption DEF EventTypes, QueryType
<1>4. rows = Asked(E, o, PageLimit)
  BY DEF Fetched, Asked
<1>5. rows \in Seq(LogEvent) /\ Len(rows) \in Nat /\ fits \in 0 .. Len(rows)
  <2>1. rows \in Seq(LogEvent)
    BY <1>2, <1>3, <1>4, AskedFacts
  <2>2. QED
    BY <2>1, FitsFacts
<1>6. PICK n \in 0 .. Len(rows) : n = IF more THEN PageLimit ELSE fits
  BY <1>3, <1>5
<1>7. shown \in Seq(LogEvent)
  <2>1. shown = SubSeq(rows, 1, n)
    BY <1>6
  <2>2. QED
    BY <1>5, <2>1, PrefixOfSeq
<1>8. PICK seen \in Seq(LogEvent) : seen = query.seen \o shown
  <2>1. query.seen \in Seq(LogEvent)
    BY <1>3 DEF QueryType
  <2>2. query.seen \o shown \in Seq(LogEvent)
    BY <1>7, <2>1, ConcatProperties
  <2>3. QED
    BY <2>2
<1>9. PICK pc \in {"ask", "told"} : pc = (IF more THEN "ask" ELSE "told")
  OBVIOUS
<1>10. PICK offset \in 0 .. MaxEvents : offset = (IF more THEN o + PageLimit ELSE o)
  <2>1. CASE more
    <3>1. Len(Asked(E, o, PageLimit)) > PageLimit
      BY <1>3, <1>4, <1>5, <2>1
    <3>2. o + PageLimit <= Len(E)
      BY <1>2, <1>3, <3>1, MoreToCome
    <3>3. QED
      BY <1>2, <1>3, <2>1, <3>2
  <2>2. CASE ~more
    BY <1>3, <2>2
  <2>3. QED
    BY <2>1, <2>2
<1>11. PICK by \in {"none", "count", "bytes"} :
          by = (IF fits < Len(rows) THEN "bytes" ELSE IF more THEN "count" ELSE "none")
  OBVIOUS
<1>12. query' = [query EXCEPT !.pc = pc, !.seen = seen, !.offset = offset, !.limitedBy = by]
  BY <1>8, <1>9, <1>10, <1>11 DEF QueryLogs
<1> HIDE DEF E, o, rows, fits, more, shown
<1>13. QED
  BY <1>3, <1>12 DEF QueryType

LEMMA NoQueryType == NoQuery \in QueryType
<1>1. 0 \in 0 .. MaxEvents
  BY TelemetryAssumption
<1>2. <<>> \in Seq(LogEvent)
  OBVIOUS
<1>3. QED
  BY <1>1, <1>2 DEF NoQuery, QueryType, Writer

\* A new event has a log id of its own.
LEMMA NewEvent ==
  ASSUME EventTypes, EventsKept, NEW id \in EventId \ logged, NEW w \in Writer, NEW size \in Sizes
  PROVE  LET e == [id |-> id, at |-> hour, source |-> w, size |-> size]
         IN  /\ e \in LogEvent /\ e.id = id
             /\ \A d \in logEvent \cup inserting : d.id # id
BY DEF LogEvent, EventTypes, EventsKept

\* A client keeps its type when events come or go.
LEMMA ClientNotices ==
  ASSUME query \in QueryType, NEW new, ChangeEvents(new)
  PROVE  query' \in QueryType /\ logEvent' = new
BY DEF ChangeEvents, QueryType

LEMMA EventTypesStep ==
  ASSUME EventTypes, EventsKept, ProcessTypes, [TelemetryNext]_telemetryVars
  PROVE  EventTypes' /\ EventsKept'
<1>1. /\ query \in QueryType /\ MaxEvents \in Nat /\ MaxHour \in Nat
      /\ hour \in 0 .. MaxHour
  BY TelemetryAssumption DEF EventTypes
<1>2. ASSUME logEvent' \cup inserting' \subseteq logEvent \cup inserting, query' \in QueryType,
             UNCHANGED <<logged, hour>>
      PROVE  EventTypes' /\ EventsKept'
  BY <1>2 DEF EventTypes, EventsKept
<1>3. ASSUME NEW w \in Writer, Log(w) PROVE EventTypes' /\ EventsKept'
  <2>1. PICK id \in EventId \ logged, size \in Sizes :
          /\ logged' = logged \cup {id}
          /\ inserting' = inserting \cup
                {[id |-> id, at |-> hour, source |-> w, size |-> size]}
    BY <1>3 DEF Log
  <2>2. PICK e : e = [id |-> id, at |-> hour, source |-> w, size |-> size]
    OBVIOUS
  <2>3. UNCHANGED <<logEvent, query, hour>>
    BY <1>3 DEF Log
  <2>4. /\ e \in LogEvent /\ e.id = id
        /\ \A d \in logEvent \cup inserting : d.id # id
    BY <2>2, NewEvent
  <2>5. inserting' = inserting \cup {e} /\ logged' = logged \cup {id}
    BY <2>1, <2>2
  <2>6. EventTypes'
    BY <1>1, <2>3, <2>4, <2>5 DEF EventTypes
  <2>7. EventsKept'
    BY <1>1, <2>3, <2>4, <2>5 DEF EventsKept
  <2>8. QED
    BY <2>6, <2>7
<1>4. ASSUME NEW e \in inserting, InsertLogEvent(e) PROVE EventTypes' /\ EventsKept'
  <2>1. inserting' = inserting \ {e} /\ UNCHANGED <<logged, hour>>
    BY <1>4 DEF InsertLogEvent
  <2>2. query' \in QueryType /\ (logEvent' = logEvent \/ logEvent' = logEvent \cup {e})
    BY <1>1, <1>4, ClientNotices DEF InsertLogEvent
  <2>3. QED
    BY <1>2, <1>4, <2>1, <2>2
<1>5. CASE ShutdownManager
  <2>1. inserting' \subseteq inserting /\ UNCHANGED hour
    BY <1>5 DEF ShutdownManager, ProcessEnds
  <2>2. CASE UNCHANGED <<logEvent, logged, query>>
    BY <1>1, <1>2, <2>1, <2>2
  <2>3. CASE \E id \in EventId \ logged, size \in Sizes :
                /\ logged' = logged \cup {id}
                /\ ChangeEvents(logEvent \cup {[id |-> id, at |-> hour,
                                                source |-> "node_manager", size |-> size]})
    <3>1. PICK id \in EventId \ logged, size \in Sizes :
                /\ logged' = logged \cup {id}
                /\ ChangeEvents(logEvent \cup {[id |-> id, at |-> hour,
                                                source |-> "node_manager", size |-> size]})
      BY <2>3
    <3>2. PICK e : e = [id |-> id, at |-> hour, source |-> "node_manager", size |-> size]
      OBVIOUS
    <3>3. logEvent' = logEvent \cup {e} /\ query' \in QueryType
      BY <1>1, <3>1, <3>2, ClientNotices
    <3>4. "node_manager" \in Writer
      BY DEF Writer
    <3>5. /\ e \in LogEvent /\ e.id = id
          /\ \A d \in logEvent \cup inserting : d.id # id
      BY <3>2, <3>4, NewEvent
    <3>6. EventTypes'
      BY <1>1, <2>1, <3>1, <3>3, <3>5 DEF EventTypes
    <3>7. EventsKept'
      BY <1>1, <2>1, <3>1, <3>3, <3>5 DEF EventsKept
    <3>8. QED
      BY <3>6, <3>7
  <2>4. QED
    BY <1>5, <2>2, <2>3 DEF ShutdownManager
<1>6. CASE EnforceRetention
  <2>1. /\ UNCHANGED <<inserting, logged, hour>>
        /\ ChangeEvents({e \in logEvent : e.at >= RetentionCutoff})
    BY <1>6 DEF EnforceRetention
  <2>2. query' \in QueryType /\ logEvent' = {e \in logEvent : e.at >= RetentionCutoff}
    BY <1>1, <2>1, ClientNotices
  <2>3. QED
    BY <1>2, <2>1, <2>2
<1>7. CASE StopWorkerAPI
  <2>1. inserting' \subseteq inserting /\ query' = NoQuery /\ UNCHANGED <<logEvent, logged, hour>>
    BY <1>7 DEF StopWorkerAPI, ProcessEnds
  <2>2. QED
    BY <1>2, <2>1, NoQueryType
<1>8. CASE EndQuery
  BY <1>2, <1>8, NoQueryType DEF EndQuery
<1>9. CASE BeginQuery
  <2>1. PICK source \in Writer : query' = [NoQuery EXCEPT !.pc = "ask", !.source = source]
    BY <1>9 DEF BeginQuery
  <2>2. query' \in QueryType
    BY <2>1, NoQueryType DEF QueryType
  <2>3. QED
    BY <1>2, <1>9, <2>2 DEF BeginQuery
<1>10. CASE QueryLogs
  <2>1. query' \in QueryType
    BY <1>10, PageType
  <2>2. UNCHANGED <<logEvent, inserting, logged, hour>>
    BY <1>10 DEF QueryLogs
  <2>3. QED
    BY <1>2, <2>1, <2>2
<1>11. CASE BootManager \/ BootWorker \/ UNCHANGED telemetryVars
  <2>1. UNCHANGED <<logEvent, inserting, logged, query, hour>>
    BY <1>11 DEF BootManager, BootWorker, telemetryVars
  <2>2. QED
    BY <1>1, <1>2, <2>1
<1>12. CASE TelemetryTick
  <2>1. /\ UNCHANGED <<logEvent, inserting, logged, query>>
        /\ hour < MaxHour /\ hour' = hour + 1
    BY <1>12 DEF TelemetryTick
  <2>2. hour' \in 0 .. MaxHour
    BY <1>1, <2>1
  <2>3. QED
    BY <2>1, <2>2 DEF EventTypes, EventsKept
<1>13. QED
  BY <1>3, <1>4, <1>5, <1>6, <1>7, <1>8, <1>9, <1>10, <1>11, <1>12 DEF TelemetryNext

LEMMA ProcessTypesStep ==
  ASSUME ProcessTypes, [TelemetryNext]_telemetryVars
  PROVE  ProcessTypes'
<1>1. {"node_manager", "worker_api"} \subseteq Writer
  BY DEF Writer
<1>2. CASE BootManager \/ BootWorker
  <2>1. workerRuns' \in BOOLEAN
    BY <1>2 DEF BootManager, BootWorker
  <2>2. opened' \subseteq opened \cup Writer
    BY <1>1, <1>2 DEF BootManager, BootWorker, OpenFor
  <2>3. QED
    BY <2>1, <2>2 DEF ProcessTypes
<1>3. CASE ShutdownManager \/ StopWorkerAPI
  BY <1>3 DEF ProcessTypes, ShutdownManager, StopWorkerAPI, ProcessEnds
<1>4. CASE \/ \E w \in Writer : Log(w)
           \/ \E e \in inserting : InsertLogEvent(e)
           \/ EnforceRetention \/ BeginQuery \/ QueryLogs \/ EndQuery \/ TelemetryTick
           \/ UNCHANGED telemetryVars
  <2>1. UNCHANGED <<opened, workerRuns>>
    BY <1>4 DEF Log, InsertLogEvent, EnforceRetention, BeginQuery, QueryLogs, EndQuery,
       TelemetryTick, telemetryVars
  <2>2. QED
    BY <2>1 DEF ProcessTypes
<1>5. QED
  BY <1>2, <1>3, <1>4 DEF TelemetryNext

LEMMA TelemetryTypesAlways == TelemetrySpec => []TelemetryTypeInv
<1>1. TelemetryInit => TelemetryTypeInv
  <2> SUFFICES ASSUME TelemetryInit PROVE TelemetryTypeInv
    OBVIOUS
  <2>1. 0 \in 0 .. MaxEvents /\ 0 \in 0 .. MaxHour
    BY TelemetryAssumption
  <2>2. QED
    BY <2>1, NoQueryType
       DEF TelemetryInit, TelemetryTypeInv, EventTypes, ProcessTypes, EventsKept
<1>2. TelemetryTypeInv /\ [TelemetryNext]_telemetryVars => TelemetryTypeInv'
  BY EventTypesStep, ProcessTypesStep DEF TelemetryTypeInv
<1>3. QED
  BY <1>1, <1>2, PTL DEF TelemetrySpec

(***************************************************************************)
(* The telemetry database, the processes that have it open and the clients *)
(* keep their types, for any numbers of boots, events, hours and pages; a  *)
(* page token never points behind the events there can be (QueryLogs).     *)
(***************************************************************************)
THEOREM TelemetryTypes == TelemetrySpec => []TelemetryTypeOK
<1>1. TelemetryTypeInv /\ BootInv => TelemetryTypeOK
  BY DEF TelemetryTypeInv, EventTypes, ProcessTypes, QueryType, BootInv, TelemetryTypeOK
<1>2. TelemetrySpec => []BootInv
  BY BootInitInv, BootStepInv, PTL DEF TelemetrySpec
<1>3. QED
  BY <1>1, <1>2, TelemetryTypesAlways, PTL

(***************************************************************************)
(* What a list that is not said to be cut means for its reader: the events *)
(* of the source and no other, none twice and an older one before a        *)
(* younger one, if none came or went meanwhile (handleQueryLogs,           *)
(* QueryLogs).  Events of one time come in any order.                      *)
(***************************************************************************)
THEOREM ListsHaveEachEvent == TelemetrySpec => []SeenEachOnce
<1>1. TelemetryTypeInv /\ TruncationIsTold => SeenEachOnce
  <2>1. SUFFICES ASSUME TelemetryTypeInv, TruncationIsTold,
                        query.pc = "told", query.calm, query.limitedBy = "none"
                 PROVE  /\ ToSet(query.seen) = {e \in logEvent : e.source = query.source}
                        /\ \A i, j \in DOMAIN query.seen :
                              i < j => /\ query.seen[i] # query.seen[j]
                                       /\ query.seen[i].at <= query.seen[j].at
    BY DEF SeenEachOnce
  <2>2. query.seen = EventsOf(query.source)
    BY <2>1 DEF TruncationIsTold
  <2>3. Numbered(logEvent)
    BY <2>1 DEF TelemetryTypeInv, EventTypes, EventsKept, Numbered
  <2>4. QED
    BY <2>2, <2>3, EventsInOrder
<1>2. QED
  BY <1>1, TelemetryTypesAlways, ListsToldWhole, PTL
=============================================================================
