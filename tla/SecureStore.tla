----------------------------- MODULE SecureStore ----------------------------
(***************************************************************************)
(* Agent tokens on a worker node.  The node manager writes them to the     *)
(* secure store when it starts, one encrypted file per managed service;    *)
(* the internal proxy of the worker API reads the file of the calling      *)
(* service for every request and forwards the request with the token.  The *)
(* two processes share nothing but the files: the token files and the      *)
(* keystore with the ML-KEM key that seals them, itself sealed with the    *)
(* master key.  Either process may stop at any step.                       *)
(*                                                                         *)
(* A ciphertext is opened by the key that made it and by no other.  Keys   *)
(* are numbered as they are generated; a token is named by the start of    *)
(* the node manager that stored it, and by when it expires.                *)
(***************************************************************************)
EXTENDS Naturals

CONSTANTS
    Service,    \* ids of managed services
    MaxStarts,  \* bound: starts of the node manager
    MaxNow      \* bound: the clock

ASSUME StoreAssumption == MaxStarts \in Nat /\ MaxNow \in Nat

VARIABLES
    keystore,   \* .kem_keystore.enc
    tokenFile,  \* agent_tokens/<service_id>.json.enc
    handle,     \* the Store of each process
    manager,    \* syncManagedServiceAgentTokens
    worker,     \* the worker API process
    proxied,    \* a request to the internal proxy
    starts,     \* starts of the node manager so far
    synced,     \* the last start that brought the files up to date
    keys,       \* keys generated so far
    now         \* the clock

storeVars == <<keystore, tokenFile, handle, manager, worker, proxied, starts, synced, keys, now>>

-----------------------------------------------------------------------------
Process == {"manager", "worker"}
Start == 1 .. MaxStarts
KEMKey == 1 .. 2 * MaxStarts

\* Where the master key came from; a system credential and the environment
\* hold different keys.
Source == {"system_credential", "env_b64"}

\* expires 0: the token has no expires_at.
Record == [service : Service, start : Start, expires : 0 .. MaxNow]

\* kem 0: sealed with the master key (version 1), else with that key (version 2).
Envelope == [record : Record, kem : {0} \cup KEMKey, master : Source]

NoRecord == [service |-> "none", start |-> 0, expires |-> 0]
NoEnvelope == [record |-> NoRecord, kem |-> 0, master |-> "none"]

Handle == [master : Source \cup {"none"}, kem : {0} \cup KEMKey]
Closed == [master |-> "none", kem |-> 0]

NoSync == [pc |-> "down", fips |-> FALSE, listed |-> {}, wanted |-> {}, stale |-> {},
           todo |-> {}, expires |-> 0, held |-> NoEnvelope]
NoProxied == [pc |-> "idle", service |-> "none", since |-> 0, held |-> NoEnvelope, at |-> 0]

KeystoreFile == [state : {"absent", "torn", "whole"},
                 kem : {0} \cup KEMKey, master : Source \cup {"none"}]
SyncState == [pc : {"down", "delete", "put", "kem", "keystore", "commit", "synced", "running"},
                 fips : BOOLEAN,
                 listed : SUBSET Service,   \* services of the configuration
                 wanted : SUBSET Service,   \* those that have a token
                 stale : SUBSET Service,    \* files still to be deleted
                 todo : SUBSET Service,     \* tokens still to be written
                 expires : 0 .. MaxNow,
                 held : Envelope \cup {NoEnvelope}]
ProxiedRequest == [pc : {"idle", "read", "kem", "keystore", "parse", "forward"},
                   service : Service \cup {"none"}, since : 0 .. MaxStarts,
                   held : Envelope \cup {NoEnvelope}, at : 0 .. MaxNow]

StoreTypeOK ==
    /\ keystore \in KeystoreFile
    /\ tokenFile \in [Service -> Envelope \cup {NoEnvelope}]
    /\ handle \in [Process -> Handle]
    /\ manager \in SyncState
    /\ worker \in [up : BOOLEAN, listeners : SUBSET Service]
    /\ proxied \in ProxiedRequest
    /\ starts \in 0 .. MaxStarts
    /\ synced \in 0 .. MaxStarts
    /\ keys \in 0 .. 2 * MaxStarts
    /\ now \in 0 .. MaxNow

StoreInit ==
    /\ keystore = [state |-> "absent", kem |-> 0, master |-> "none"]
    /\ tokenFile = [s \in Service |-> NoEnvelope]
    /\ handle = [p \in Process |-> Closed]
    /\ manager = NoSync
    /\ worker = [up |-> FALSE, listeners |-> {}]
    /\ proxied = NoProxied
    /\ starts = 0
    /\ synced = 0
    /\ keys = 0
    /\ now = 0

-----------------------------------------------------------------------------
(* Open and the key encapsulation key *)

Stored(s) == tokenFile[s] # NoEnvelope

\* What the environment or the kernel says about FIPS mode.
FIPSStatus == {"on", "off", "unknown"}

IsFIPSMode(status) == status # "off"

FIPSAllows(fips, source) == fips => source # "env_b64"

\* resolveMasterKey: whatever is wrong with the system credential, the key of
\* the environment is taken where FIPS mode allows it.
Opened(fips) ==
    {[master |-> source, kem |-> 0] : source \in {x \in Source : FIPSAllows(fips, x)}}

\* Mutant: a keystore that cannot be read is replaced.
KEMMissingAny(h) == ~(keystore.state = "whole" /\ keystore.master = h.master)

\* Only a file that is not there is made: one that cannot be decoded, or was
\* sealed with another master key, is an error.
KEMMissing(h) == keystore.state = "absent"

KEMLoads(h) == keystore.state = "whole" /\ keystore.master = h.master

\* The step of process p moves on to pc, and its handle becomes h.
Proceed(p, pc, h) ==
    /\ handle' = [handle EXCEPT ![p] = h]
    /\ IF p = "manager"
       THEN manager' = [manager EXCEPT !.pc = pc] /\ UNCHANGED proxied
       ELSE proxied' = [proxied EXCEPT !.pc = pc] /\ UNCHANGED manager

\* The node manager exits when its sync fails; the proxy answers 401.
GiveUp(p) ==
    IF p = "manager"
    THEN manager' = NoSync /\ handle' = [handle EXCEPT ![p] = Closed] /\ UNCHANGED proxied
    ELSE proxied' = NoProxied /\ UNCHANGED <<handle, manager>>

PcOf(p) == IF p = "manager" THEN manager.pc ELSE proxied.pc

AfterKEM(p) == IF p = "manager" THEN "commit" ELSE "parse"

\* getOrCreateKEMKey: the cached key, else the one of the file, else a new one.
\* The new file is there before its content is.
GetKEMKey(p) ==
    /\ PcOf(p) = "kem"
    /\ LET h == handle[p] IN
       \/ /\ h.kem # 0
          /\ Proceed(p, AfterKEM(p), h)
          /\ UNCHANGED <<keystore, keys>>
       \/ /\ h.kem = 0 /\ KEMLoads(h)
          /\ Proceed(p, AfterKEM(p), [h EXCEPT !.kem = keystore.kem])
          /\ UNCHANGED <<keystore, keys>>
       \/ /\ h.kem = 0 /\ KEMMissing(h)
          /\ keys' = keys + 1
          /\ keystore' = [state |-> "torn", kem |-> keys', master |-> h.master]
          /\ Proceed(p, "keystore", [h EXCEPT !.kem = keys'])
       \/ /\ h.kem = 0 /\ ~KEMLoads(h) /\ ~KEMMissing(h)
          /\ GiveUp(p)
          /\ UNCHANGED <<keystore, keys>>
    /\ UNCHANGED <<tokenFile, worker, starts, synced, now>>

\* persistNewKEMKey: os.WriteFile may fail half way.
WriteKeystore(p) ==
    /\ PcOf(p) = "keystore"
    /\ \/ keystore' = [keystore EXCEPT !.state = "whole"] /\ Proceed(p, AfterKEM(p), handle[p])
       \/ GiveUp(p) /\ UNCHANGED keystore
    /\ UNCHANGED <<tokenFile, worker, starts, synced, keys, now>>

-----------------------------------------------------------------------------
(* The node manager *)

\* Mutant: nothing is deleted when no service is left.
StaleUnlessEmpty(wanted) ==
    IF wanted = {} THEN {} ELSE {s \in Service : Stored(s)} \ wanted

\* The files of services that have no token any more.
StaleFiles(wanted) == {s \in Service : Stored(s)} \ wanted

\* The node manager starts and fetches its configuration.  Without a section
\* on managed services the store is not opened; when a token cannot be
\* resolved, or the store not be opened, the node manager exits.
Sync ==
    /\ manager.pc = "down" /\ starts < MaxStarts
    /\ starts' = starts + 1
    /\ \/ /\ manager' = [NoSync EXCEPT !.pc = "synced"]
          /\ UNCHANGED handle
       \/ \E status \in FIPSStatus, listed \in SUBSET Service, expires \in 0 .. MaxNow :
          LET fips == IsFIPSMode(status) IN
          \E h \in Opened(fips), wanted \in SUBSET listed :
             /\ handle' = [handle EXCEPT !["manager"] = h]
             /\ manager' = [NoSync EXCEPT !.pc = "delete", !.fips = fips,
                                          !.listed = listed, !.wanted = wanted, !.todo = wanted,
                                          !.stale = StaleFiles(wanted), !.expires = expires]
       \/ UNCHANGED <<manager, handle>>
    /\ UNCHANGED <<keystore, tokenFile, worker, proxied, synced, keys, now>>

\* reconcileAgentTokenStore: deletes first, one file at a time.
DeleteAgentToken ==
    /\ manager.pc = "delete"
    /\ \/ /\ manager.stale = {}
          /\ manager' = [manager EXCEPT !.pc = "put"]
          /\ UNCHANGED tokenFile
       \/ \E s \in manager.stale :
             /\ tokenFile' = [tokenFile EXCEPT ![s] = NoEnvelope]
             /\ manager' = [manager EXCEPT !.stale = @ \ {s}]
    /\ UNCHANGED <<keystore, handle, worker, proxied, starts, synced, keys, now>>

\* PutAgentToken up to the envelope, which has the KEM key filled in later.
PutAgentToken(s) ==
    /\ manager.pc = "put" /\ s \in manager.todo
    /\ manager' =
          [manager EXCEPT
             !.pc = IF manager.fips THEN "commit" ELSE "kem",
             !.todo = @ \ {s},
             !.held = [record |-> [service |-> s, start |-> starts, expires |-> manager.expires],
                       kem |-> 0, master |-> handle["manager"].master]]
    /\ UNCHANGED <<keystore, tokenFile, handle, worker, proxied, starts, synced, keys, now>>

\* buildEncryptedEnvelope: version 1 in FIPS mode, else version 2.
Sealed(env) == [env EXCEPT !.kem = IF manager.fips THEN 0 ELSE handle["manager"].kem]

\* The temporary file is complete before it is renamed, so that the token file
\* changes at once; the permissions are set afterwards, and may fail to be.
CommitToken ==
    /\ manager.pc = "commit"
    /\ tokenFile' = [tokenFile EXCEPT ![manager.held.record.service] = Sealed(manager.held)]
    /\ \/ manager' = [manager EXCEPT !.pc = "put", !.held = NoEnvelope] /\ UNCHANGED handle
       \/ manager' = NoSync /\ handle' = [handle EXCEPT !["manager"] = Closed]
    /\ UNCHANGED <<keystore, worker, proxied, starts, synced, keys, now>>

\* applyWorkerProxyConfigEnv: what is left for the worker API are the services
\* and where they listen, without their tokens.
WorkerConfig == [NoSync EXCEPT !.pc = "synced", !.listed = manager.listed]

\* The last token is written, and the Store is left to the garbage collector.
SyncDone ==
    /\ manager.pc = "put" /\ manager.todo = {}
    /\ manager' = WorkerConfig
    /\ handle' = [handle EXCEPT !["manager"] = Closed]
    /\ synced' = starts
    /\ UNCHANGED <<keystore, tokenFile, worker, proxied, starts, keys, now>>

\* The services of the configuration that have an orchestrator section get a
\* socket each; a worker API in a container gets no configuration.
SocketByService(listed) == SUBSET listed

\* startInternalUDSListeners.  A process that cannot listen on one of its
\* sockets ends.
Listening(sockets) == [up |-> TRUE, listeners |-> sockets]

\* StartWorkerAPI: a new process listens, with a Store of its own if it can
\* open one; a worker API that is still there goes on instead.
StartWorker ==
    /\ manager.pc = "synced"
    /\ manager' = [NoSync EXCEPT !.pc = "running"]
    /\ \/ /\ \E sockets \in SocketByService(manager.listed) : worker' = Listening(sockets)
          /\ \E status \in FIPSStatus : \E h \in Opened(IsFIPSMode(status)) \cup {Closed} :
                handle' = [handle EXCEPT !["worker"] = h]
          /\ proxied' = NoProxied
       \/ worker.up /\ UNCHANGED <<worker, handle, proxied>>
    /\ UNCHANGED <<keystore, tokenFile, starts, synced, keys, now>>

\* The process ends between any two steps, or because a file could not be
\* written or deleted.
StopManager ==
    /\ manager.pc # "down"
    /\ manager' = NoSync
    /\ handle' = [handle EXCEPT !["manager"] = Closed]
    /\ UNCHANGED <<keystore, tokenFile, worker, proxied, starts, synced, keys, now>>

-----------------------------------------------------------------------------
(* The internal proxy of the worker API *)

\* A request on the socket of a service.  Requests without a caller's identity,
\* or without a secure store, are refused.
Proxy(s) ==
    /\ worker.up /\ s \in worker.listeners /\ proxied.pc = "idle"
    /\ handle["worker"].master # "none"
    /\ proxied' = [NoProxied EXCEPT !.pc = "read", !.service = s, !.since = synced]
    /\ UNCHANGED <<keystore, tokenFile, handle, manager, worker, starts, synced, keys, now>>

\* GetAgentToken reads the file.
ReadToken ==
    /\ proxied.pc = "read"
    /\ LET env == tokenFile[proxied.service]
       IN  proxied' = IF env = NoEnvelope THEN NoProxied
                      ELSE [proxied EXCEPT !.pc = IF env.kem = 0 THEN "parse" ELSE "kem",
                                           !.held = env]
    /\ UNCHANGED <<keystore, tokenFile, handle, manager, worker, starts, synced, keys, now>>

\* Does the key of a handle open an envelope?
Opens(h, env) == IF env.kem = 0 THEN h.master = env.master ELSE h.kem = env.kem

\* Mutant: a token may be used at the time it expires.
UnexpiredLate(record) == record.expires = 0 \/ now <= record.expires

Unexpired(record) == record.expires = 0 \/ now < record.expires

\* decryptAndParseTokenRecord; decodeManagedProxyRequest may still refuse.
ParseToken ==
    /\ proxied.pc = "parse"
    /\ proxied' \in
          {NoProxied} \cup
          (IF Opens(handle["worker"], proxied.held) /\ Unexpired(proxied.held.record)
           THEN {[proxied EXCEPT !.pc = "forward", !.at = now]} ELSE {})
    /\ UNCHANGED <<keystore, tokenFile, handle, manager, worker, starts, synced, keys, now>>

\* forwardManagedProxyRequest, and the answer or its failure.
Forward ==
    /\ proxied.pc = "forward"
    /\ proxied' = NoProxied
    /\ UNCHANGED <<keystore, tokenFile, handle, manager, worker, starts, synced, keys, now>>

\* The sockets and the request are gone with the process.
StopWorker ==
    /\ worker.up
    /\ worker' = [up |-> FALSE, listeners |-> {}]
    /\ handle' = [handle EXCEPT !["worker"] = Closed]
    /\ proxied' = NoProxied
    /\ UNCHANGED <<keystore, tokenFile, manager, starts, synced, keys, now>>

StoreTick ==
    /\ now < MaxNow /\ now' = now + 1
    /\ UNCHANGED <<keystore, tokenFile, handle, manager, worker, proxied, starts, synced, keys>>

StoreNext ==
    \/ Sync \/ DeleteAgentToken \/ CommitToken \/ SyncDone \/ StartWorker \/ StopManager
    \/ \E s \in Service : PutAgentToken(s) \/ Proxy(s)
    \/ \E p \in Process : GetKEMKey(p) \/ WriteKeystore(p)
    \/ ReadToken \/ ParseToken \/ Forward \/ StopWorker
    \/ StoreTick

StoreSpec == StoreInit /\ [][StoreNext]_storeVars

-----------------------------------------------------------------------------
(* The inductive invariant behind the safety properties *)

\* A sync goes on; it has a token in its hands.
Syncing == manager.pc \in {"delete", "put", "kem", "keystore", "commit"}
Writing == manager.pc \in {"kem", "keystore", "commit"}

\* Only a missing keystore gets a key, so that there is never a second one; who
\* has the key has it from a complete keystore, or is about to complete it.
KeysKept ==
    /\ IF keystore.state = "absent" THEN keys = 0 ELSE keystore.kem # 0
    /\ \A p \in Process : handle[p].kem # 0 =>
          keystore.state # "absent" /\ keystore.kem = handle[p].kem
    /\ Syncing => handle["manager"].master # "none"
    /\ handle["worker"].kem # 0 => keystore.state = "whole"
    /\ handle["manager"].kem # 0 => keystore.state = "whole" \/ manager.pc = "keystore"
    /\ (manager.pc = "keystore" \/ (manager.pc = "commit" /\ ~manager.fips)) =>
          handle["manager"].kem # 0

\* Can the keystore open an envelope?
SealedByKey(env) == env.kem # 0 => keystore.state = "whole" /\ keystore.kem = env.kem

FilesKept ==
    \A s \in Service : Stored(s) =>
        /\ tokenFile[s].record.service = s
        /\ tokenFile[s].record.start >= synced
        /\ SealedByKey(tokenFile[s])

\* While a sync goes on, a file is wanted or still to be deleted, and a token
\* that is wanted is written, in hand or still to do.
SyncKept ==
    /\ synced <= starts
    /\ manager.pc # "down" => starts >= 1
    /\ Syncing =>
          /\ manager.pc # "delete" => manager.stale = {}
          /\ manager.todo \subseteq manager.wanted
          /\ manager.pc = "delete" => manager.todo = manager.wanted
          /\ \A s \in Service : Stored(s) => s \in manager.wanted \cup manager.stale
          /\ \A s \in manager.wanted \ manager.todo :
                \/ Stored(s) /\ tokenFile[s].record.start = starts
                \/ Writing /\ s = manager.held.record.service
    /\ Writing =>
          /\ manager.held # NoEnvelope
          /\ manager.held.record.service \in manager.wanted
          /\ manager.held.record.start = starts

\* The envelope in the hands of a request came from the file of its service,
\* which had no token from before its last sync, and its key is kept as well.
ProxyKept ==
    /\ proxied.pc # "keystore"
    /\ proxied.since <= synced
    /\ proxied.pc \in {"kem", "parse", "forward"} =>
          /\ proxied.held # NoEnvelope
          /\ proxied.held.record.service = proxied.service
          /\ proxied.held.record.start >= proxied.since
          /\ SealedByKey(proxied.held)
    /\ proxied.pc = "kem" => proxied.held.kem # 0
    /\ proxied.pc = "read" => proxied.service \in Service
    /\ proxied.pc = "forward" =>
          proxied.held.record.expires = 0 \/ proxied.at < proxied.held.record.expires

StoreInv == StoreTypeOK /\ KeysKept /\ FilesKept /\ SyncKept /\ ProxyKept

-----------------------------------------------------------------------------
(* Properties *)

(***************************************************************************)
(* Wherever the node manager stopped before, and whatever a broken         *)
(* credential or FIPS mode made it do: the key in the keystore opens every *)
(* version 2 token file, the key that a process has cached is that of the  *)
(* keystore, and each file holds the record of its own service.  No stored *)
(* token is lost for want of its key.                                      *)
(***************************************************************************)
StoredTokensHaveTheirKey ==
    /\ \A s \in Service :
          Stored(s) => /\ tokenFile[s].record.service = s
                       /\ tokenFile[s].kem # 0 =>
                             keystore.state = "whole" /\ keystore.kem = tokenFile[s].kem
    /\ \A p \in Process :
          handle[p].kem # 0 => keystore.kem = handle[p].kem /\ keystore.state # "absent"

(***************************************************************************)
(* After a sync that succeeded the files are those of the configuration:   *)
(* every service has the token of this start, and no service that lost its *)
(* token, in this or in an unfinished earlier start, has a file.           *)
(***************************************************************************)
SyncedMeansDesired ==
    [][synced' # synced =>
         \A s \in Service : IF s \in manager.wanted
                            THEN Stored(s) /\ tokenFile[s].record.start = starts
                            ELSE ~Stored(s)]_storeVars

(***************************************************************************)
(* A request is forwarded with a token of the service whose socket it came *)
(* in on, that had not expired when it was read and that was not replaced  *)
(* or deleted by a sync before the request came.                           *)
(***************************************************************************)
UsedTokenIsCurrent ==
    proxied.pc = "forward" =>
        LET record == proxied.held.record
        IN  /\ record.service = proxied.service
            /\ record.start >= proxied.since
            /\ record.expires = 0 \/ proxied.at < record.expires
=============================================================================
