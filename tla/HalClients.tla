----------------------------- MODULE HalClients -----------------------------
(***************************************************************************)
(* The clients of the Context Hub HAL (host/hal_generic/common:            *)
(* hal_client_manager.cc and what multi_client_context_hub_base.cc does    *)
(* with it).  Binder threads serve the clients' calls and the deaths of    *)
(* their processes, another thread CHRE's responses; each takes the        *)
(* manager's mutex several times in one call, and every such section that  *)
(* changes or decides something is a step (the lookups that precede the    *)
(* removal of a dead client's endpoints are part of it).  Client IDs are   *)
(* kept in a file, over restarts of the HAL.                               *)
(*                                                                         *)
(* Callbacks are of version 3 or later, so that a client has a uuid.  A    *)
(* call that binder delivered goes on when its process dies.               *)
(***************************************************************************)
EXTENDS Integers, Sequences, FiniteSets

CONSTANTS
  Processes,                \* pairs of a client's uuid and a number
  SystemServer,             \* kSystemServerUuid
  kMaxHalClientId,          \* a power of two less one
  kNumOfBitsForEndpointId,
  kVendorEndpointIdBitMask,
  EndpointsOf,              \* the endpoint IDs of each client
  Fragments,                \* numbers of fragments a nanoapp can have
  FaultSets,                \* what may go wrong
  MaxTransactions           \* bound: loads and unloads asked for

kPidUnset == <<"none", 0>>
kHostClientIdUnspecified == 0
kMaxNumOfHalClients == kMaxHalClientId - 1
kMaxVendorEndpointId == 2^kNumOfBitsForEndpointId - 1
UuidOf(pid) == pid[1]
NoTransaction == [txn |-> 0]
Idle == [pc |-> "idle"]

VARIABLES
  alive,     \* processes that run
  mClients,  \* of each known client: its ID, process and endpoints
  mNextClientId,
  file,      \* the file of client IDs
  load,      \* mPendingLoadTransaction
  unload,    \* mPendingUnloadTransaction
  mIsChreReady,
  calls,     \* of each process, the call a binder thread executes for it
  deaths,    \* of each process, how far its death is handled
  response,  \* what the thread that receives from CHRE does
  chre,      \* CHRE: endpoints it knows, requests it has, answers under way
  txns,      \* history: of each transaction, its client and who was told
  torn,      \* history: the HAL was killed while it rewrote the file
  faults

vars == <<alive, mClients, mNextClientId, file, load, unload, mIsChreReady,
          calls, deaths, response, chre, txns, torn, faults>>

clientVars == <<mClients, mNextClientId, file>>
pendingVars == <<load, unload>>

-----------------------------------------------------------------------------
(* The table of clients.                                                   *)

Known == DOMAIN mClients

ByPid(pid) == {c \in Known : mClients[c].pid = pid}

ByClientId(id) == {c \in Known : mClients[c].clientId = id}

\* getClientId
ClientIdOf(pid) ==
  IF ByPid(pid) = {} THEN kHostClientIdUnspecified
  ELSE mClients[CHOOSE c \in ByPid(pid) : TRUE].clientId

\* getCallback: the process the callback of a client ID belongs to.
CallbackOf(id) ==
  IF ByClientId(id) = {} THEN kPidUnset
  ELSE mClients[CHOOSE c \in ByClientId(id) : TRUE].pid

Used(clients) == {clients[c].clientId : c \in DOMAIN clients}

\* updateNextClientId: the first of the IDs after `next' that is free, or none.
NextClientId(next, clients) ==
  LET id(i) == (next + i) % kMaxHalClientId
      free(i) == id(i) \notin Used(clients) \cup {kHostClientIdUnspecified}
      found == {i \in 1..kMaxNumOfHalClients : free(i)}
  IN  IF found = {} THEN kHostClientIdUnspecified
      ELSE id(CHOOSE i \in found : \A j \in found : i <= j)

\* mutateVendorEndpointId, mutateEndpointIdFromHostIfNeeded.  The fields of
\* the sum do not overlap for an endpoint ID that isValidEndpointId accepts.
Mutate(client, id, e) ==
  IF client = SystemServer THEN e
  ELSE kVendorEndpointIdBitMask + id * 2^kNumOfBitsForEndpointId + e

MutatedAll(c, endpointIds) ==
  {Mutate(c, mClients[c].clientId, e) : e \in endpointIds}

\* CHRE's endpoints but those with one of the given IDs.
Without(endpoints, ids) == {m \in endpoints : m.id \notin ids}

IsVendor(m) == (m \div kVendorEndpointIdBitMask) % 2 = 1

\* convertToOriginalEndpointId
ConvertToOriginalEndpointId(m) ==
  IF IsVendor(m) THEN m % (kMaxVendorEndpointId + 1) ELSE m

\* getCallbackForEndpoint: the clients a message of CHRE's is passed to.
ClientsForEndpoint(m) ==
  IF IsVendor(m)
  THEN ByClientId((m \div 2^kNumOfBitsForEndpointId) % (kMaxHalClientId + 1))
  ELSE Known \cap {SystemServer}

\* isValidEndpointId
IsValidEndpointId(client, e) ==
  client = SystemServer \/ e <= kMaxVendorEndpointId

Init ==
  /\ alive = Processes
  /\ mClients = <<>>
  /\ mNextClientId = NextClientId(kHostClientIdUnspecified, <<>>)
  /\ file = <<>>
  /\ load = NoTransaction
  /\ unload = NoTransaction
  /\ mIsChreReady = TRUE
  /\ calls = [p \in Processes |-> Idle]
  /\ deaths = [p \in Processes |-> "not linked"]
  /\ response = Idle
  /\ chre = [endpoints |-> {}, requests |-> {}, answers |-> <<>>]
  /\ txns = <<>>
  /\ torn = FALSE
  /\ faults \in FaultSets

Goes(p, call) == calls' = [calls EXCEPT ![p] = call]

-----------------------------------------------------------------------------
(* Registration and death.                                                 *)

\* registerCallback, up to AIBinder_linkToDeath, which fails for the dead.  A
\* process that is connected only replaces its callback by another of its own,
\* which the table does not show.
LinkToDeath(p) ==
  /\ p \in alive
  /\ calls[p] = Idle
  /\ ByPid(p) = {}
  /\ deaths' = [deaths EXCEPT ![p] = "linked"]
  /\ Goes(p, [pc |-> "register"])
  /\ UNCHANGED <<alive, clientVars, pendingVars, mIsChreReady, response, chre,
                 txns, torn, faults>>

Connected(p, id) == [clientId |-> id, pid |-> p, endpointIds |-> {}]

Creates(p) ==
  /\ UuidOf(p) \notin Known
  /\ Cardinality(Known) <= kMaxNumOfHalClients
  /\ mNextClientId # kHostClientIdUnspecified

With(clients, c, value) ==
  [d \in DOMAIN clients \cup {c} |-> IF d = c THEN value ELSE clients[d]]

\* createClient with updateClientIdMappingFile and updateNextClientId.
CreateClient(p) ==
  /\ Creates(p)
  /\ mClients' = With(mClients, UuidOf(p), Connected(p, mNextClientId))
  /\ file' = With(file, UuidOf(p), mNextClientId)
  /\ mNextClientId' = NextClientId(mNextClientId, mClients')

\* A known client keeps its ID; one that is connected is refused.
ReuseClient(p) ==
  /\ UuidOf(p) \in Known
  /\ mClients' =
       IF mClients[UuidOf(p)].pid # kPidUnset THEN mClients
       ELSE [mClients EXCEPT ![UuidOf(p)] = Connected(p, @.clientId)]
  /\ UNCHANGED <<mNextClientId, file>>

RefuseClient(p) ==
  /\ UuidOf(p) \notin Known
  /\ ~Creates(p)
  /\ UNCHANGED clientVars

\* HalClientManager::registerCallback
RegisterCallback(p) ==
  /\ calls[p].pc = "register"
  /\ CreateClient(p) \/ ReuseClient(p) \/ RefuseClient(p)
  /\ Goes(p, Idle)
  /\ UNCHANGED <<alive, pendingVars, mIsChreReady, deaths, response, chre,
                 txns, torn, faults>>

\* A process dies; who is linked to its death will be told.
Die(p) ==
  /\ "dies" \in faults
  /\ p \in alive
  /\ alive' = alive \ {p}
  /\ deaths' = [deaths EXCEPT ![p] = IF @ = "linked" THEN "noticed" ELSE @]
  /\ UNCHANGED <<clientVars, pendingVars, mIsChreReady, calls, response, chre,
                 txns, torn, faults>>

\* MultiClientContextHubBase::handleClientDeath, up to the messages to CHRE
\* that the endpoints are gone.
DisconnectEndpoints(p) ==
  /\ deaths[p] = "noticed"
  /\ deaths' = [deaths EXCEPT ![p] = "disconnected"]
  /\ LET ids == UNION {MutatedAll(c, mClients[c].endpointIds) : c \in ByPid(p)}
     IN  chre' = [chre EXCEPT !.endpoints = Without(@, ids)]
  /\ UNCHANGED <<alive, clientVars, pendingVars, mIsChreReady, calls, response,
                 txns, torn, faults>>

\* HalClientManager::handleClientDeath.  When the pending unload is the dead
\* client's, it is the pending load that is reset (line 235).
HandleClientDeath(p) ==
  /\ deaths[p] = "disconnected"
  /\ deaths' = [deaths EXCEPT ![p] = "handled"]
  /\ LET id == ClientIdOf(p)
         its(t) == t # NoTransaction /\ ByPid(p) # {} /\ t.clientId = id
     IN  load' = IF its(load) \/ its(unload) THEN NoTransaction ELSE load
  /\ mClients' = [c \in Known |->
                    IF c \notin ByPid(p) THEN mClients[c]
                    ELSE Connected(kPidUnset, mClients[c].clientId)]
  /\ UNCHANGED <<alive, mNextClientId, file, unload, mIsChreReady, calls,
                 response, chre, txns, torn, faults>>

-----------------------------------------------------------------------------
(* Loading and unloading.                                                  *)

\* isNewTransactionAllowed: a pending transaction is in the way until it is
\* older than kTransactionTimeoutThresholdMs; then it is dropped.
IsNewTransactionAllowed ==
  CASE load # NoTransaction ->
         [allowed |-> load.old, load |-> NoTransaction, unload |-> unload]
    [] load = NoTransaction /\ unload # NoTransaction ->
         [allowed |-> unload.old, load |-> load, unload |-> NoTransaction]
    [] OTHER -> [allowed |-> TRUE, load |-> load, unload |-> unload]

Asked(p) ==
  /\ p \in alive
  /\ calls[p] = Idle
  /\ mIsChreReady
  /\ Len(txns) < MaxTransactions
  /\ txns' = Append(txns, [client |-> UuidOf(p), told |-> <<>>])

\* loadNanoapp with registerPendingLoadTransaction.
LoadNanoapp(p, n) ==
  /\ Asked(p)
  /\ IF ByPid(p) # {} /\ IsNewTransactionAllowed.allowed
     THEN /\ load' = [txn |-> Len(txns'), clientId |-> ClientIdOf(p),
                      current |-> 0, next |-> 1, total |-> n, old |-> FALSE]
          /\ unload' = IsNewTransactionAllowed.unload
          /\ Goes(p, [pc |-> "load"])
     ELSE UNCHANGED <<pendingVars, calls>>
  /\ UNCHANGED <<alive, clientVars, mIsChreReady, deaths, response, chre, torn,
                 faults>>

SendWorks == {TRUE} \cup (IF "send fails" \in faults THEN {FALSE} ELSE {})

\* The fragments of the pending load are all sent (isComplete).
NoneLeft == load.next > load.total

\* getNextFragmentedLoadRequest, and the request it returns sent for the client
\* `id' if sent is TRUE.
NextFragment(id, sent) ==
  /\ load # NoTransaction
  /\ IF NoneLeft
     THEN load' = NoTransaction /\ UNCHANGED chre
     ELSE /\ load' = [load EXCEPT !.current = load.next, !.next = @ + 1]
          /\ chre' = [chre EXCEPT !.requests =
                        IF sent THEN @ \cup {[load |-> TRUE, clientId |-> id,
                                              txn |-> load.txn,
                                              fragment |-> load.next]}
                        ELSE @]

\* loadNanoapp and unloadNanoapp: getClientId, after the transaction was
\* registered.  The ID is used in the steps that follow.
GetClientId(p) ==
  /\ \/ /\ calls[p].pc = "load"
        /\ Goes(p, [pc |-> "send load", clientId |-> ClientIdOf(p)])
     \/ /\ calls[p].pc = "unload"
        /\ Goes(p, [pc |-> "send unload", clientId |-> ClientIdOf(p),
                    txn |-> calls[p].txn])
  /\ UNCHANGED <<alive, clientVars, pendingVars, mIsChreReady, deaths, response,
                 chre, txns, torn, faults>>

\* loadNanoapp, from getNextFragmentedLoadRequest on.
SendFirstFragment(p, sent) ==
  /\ calls[p].pc = "send load"
  /\ NextFragment(calls[p].clientId, sent)
  /\ Goes(p, IF NoneLeft \/ sent THEN Idle ELSE [pc |-> "load failed"])
  /\ UNCHANGED <<alive, clientVars, unload, mIsChreReady, deaths, response,
                 txns, torn, faults>>

\* resetPendingLoadTransaction, whoever's transaction it is by then.
ResetPendingLoadTransaction(p) ==
  /\ calls[p].pc = "load failed"
  /\ load' = NoTransaction
  /\ Goes(p, Idle)
  /\ UNCHANGED <<alive, clientVars, unload, mIsChreReady, deaths, response,
                 chre, txns, torn, faults>>

\* unloadNanoapp with registerPendingUnloadTransaction.
UnloadNanoapp(p) ==
  /\ Asked(p)
  /\ IF ByPid(p) # {} /\ IsNewTransactionAllowed.allowed
     THEN /\ load' = IsNewTransactionAllowed.load
          /\ unload' = [txn |-> Len(txns'), clientId |-> ClientIdOf(p),
                        old |-> FALSE]
          /\ Goes(p, [pc |-> "unload", txn |-> Len(txns')])
     ELSE UNCHANGED <<pendingVars, calls>>
  /\ UNCHANGED <<alive, clientVars, mIsChreReady, deaths, response, chre, torn,
                 faults>>

\* isPendingTransactionMatched
Matches(t, id, txn) == t # NoTransaction /\ t.clientId = id /\ t.txn = txn

\* unloadNanoapp: the request is sent.
SendUnload(p, sent) ==
  /\ calls[p].pc = "send unload"
  /\ IF sent
     THEN /\ chre' = [chre EXCEPT !.requests = @ \cup
                        {[load |-> FALSE, clientId |-> calls[p].clientId,
                          txn |-> calls[p].txn, fragment |-> 0]}]
          /\ Goes(p, Idle)
     ELSE /\ UNCHANGED chre
          /\ Goes(p, [calls[p] EXCEPT !.pc = "unload failed"])
  /\ UNCHANGED <<alive, clientVars, pendingVars, mIsChreReady, deaths, response,
                 txns, torn, faults>>

\* resetPendingUnloadTransaction, after the request could not be sent.
ResetPendingUnloadTransaction(p) ==
  /\ calls[p].pc = "unload failed"
  /\ unload' = IF Matches(unload, calls[p].clientId, calls[p].txn)
               THEN NoTransaction ELSE unload
  /\ Goes(p, Idle)
  /\ UNCHANGED <<alive, clientVars, load, mIsChreReady, deaths, response, chre,
                 txns, torn, faults>>

\* kTransactionTimeoutThresholdMs pass.
TransactionGrowsOld ==
  /\ "slow" \in faults
  /\ \/ /\ load # NoTransaction /\ ~load.old
        /\ load' = [load EXCEPT !.old = TRUE] /\ UNCHANGED unload
     \/ /\ unload # NoTransaction /\ ~unload.old
        /\ unload' = [unload EXCEPT !.old = TRUE] /\ UNCHANGED load
  /\ UNCHANGED <<alive, clientVars, mIsChreReady, calls, deaths, response, chre,
                 txns, torn, faults>>

\* CHRE answers a request.
Answer(r, success) ==
  /\ r \in chre.requests
  /\ "chre is down" \notin faults
  /\ chre' = [chre EXCEPT !.requests = @ \ {r},
                          !.answers = Append(@, [r |-> r, success |-> success])]
  /\ UNCHANGED <<alive, clientVars, pendingVars, mIsChreReady, calls, deaths,
                 response, txns, torn, faults>>

ResponseGoes(state) == response' = state

Telling(r) == [pc |-> "tell", r |-> r]

\* onNanoappLoadResponse, up to getNanoappInfoFromPendingLoadTransaction.
OnNanoappLoadResponse ==
  /\ response = Idle
  /\ chre.answers # <<>>
  /\ LET a == Head(chre.answers) IN
       /\ a.r.load
       /\ ResponseGoes(
            IF /\ Matches(load, a.r.clientId, a.r.txn)
               /\ load.current = a.r.fragment
            THEN [pc |-> IF a.success THEN "next" ELSE "failed", r |-> a.r]
            ELSE Idle)
  /\ chre' = [chre EXCEPT !.answers = Tail(@)]
  /\ UNCHANGED <<alive, clientVars, pendingVars, mIsChreReady, calls, deaths,
                 txns, torn, faults>>

SendNextFragment(sent) ==
  /\ response.pc = "next"
  /\ NextFragment(response.r.clientId, sent)
  /\ ResponseGoes(CASE NoneLeft -> Telling(response.r)
                     [] ~NoneLeft /\ sent -> Idle
                     [] OTHER -> [response EXCEPT !.pc = "failed"])
  /\ UNCHANGED <<alive, clientVars, unload, mIsChreReady, calls, deaths, txns,
                 torn, faults>>

\* onNanoappLoadResponse for a fragment that failed, with
\* resetPendingLoadTransaction.
LoadFailed ==
  /\ response.pc = "failed"
  /\ load' = NoTransaction
  /\ ResponseGoes(Telling(response.r))
  /\ UNCHANGED <<alive, clientVars, unload, mIsChreReady, calls, deaths, chre,
                 txns, torn, faults>>

\* onNanoappUnloadResponse, up to resetPendingUnloadTransaction.
OnNanoappUnloadResponse ==
  /\ response = Idle
  /\ chre.answers # <<>>
  /\ LET r == Head(chre.answers).r IN
       /\ ~r.load
       /\ IF Matches(unload, r.clientId, r.txn)
          THEN unload' = NoTransaction /\ ResponseGoes(Telling(r))
          ELSE UNCHANGED <<unload, response>>
  /\ chre' = [chre EXCEPT !.answers = Tail(@)]
  /\ UNCHANGED <<alive, clientVars, load, mIsChreReady, calls, deaths, txns,
                 torn, faults>>

\* getCallback and handleTransactionResult.
HandleTransactionResult ==
  /\ response.pc = "tell"
  /\ LET p == CallbackOf(response.r.clientId)
     IN  txns' = IF p = kPidUnset THEN txns
                 ELSE [txns EXCEPT ![response.r.txn].told = Append(@, p)]
  /\ response' = Idle
  /\ UNCHANGED <<alive, clientVars, pendingVars, mIsChreReady, calls, deaths,
                 chre, torn, faults>>

-----------------------------------------------------------------------------
(* Endpoints.                                                              *)

\* onHostEndpointConnected with registerEndpointId.
OnHostEndpointConnected(p, e) ==
  /\ p \in alive
  /\ calls[p] = Idle
  /\ mIsChreReady
  /\ e \in EndpointsOf[UuidOf(p)]
  /\ \E c \in ByPid(p) :
       /\ IsValidEndpointId(c, e)
       /\ mClients' = [mClients EXCEPT ![c].endpointIds = @ \cup {e}]
  /\ Goes(p, [pc |-> "connect", endpoint |-> e])
  /\ UNCHANGED <<alive, mNextClientId, file, pendingVars, mIsChreReady, deaths,
                 response, chre, txns, torn, faults>>

\* onHostEndpointDisconnected with removeEndpointId.
OnHostEndpointDisconnected(p, e) ==
  /\ p \in alive
  /\ calls[p] = Idle
  /\ mIsChreReady
  /\ \E c \in ByPid(p) :
       /\ e \in mClients[c].endpointIds
       /\ mClients' = [mClients EXCEPT ![c].endpointIds = @ \ {e}]
  /\ Goes(p, [pc |-> "disconnect", endpoint |-> e])
  /\ UNCHANGED <<alive, mNextClientId, file, pendingVars, mIsChreReady, deaths,
                 response, chre, txns, torn, faults>>

\* Both, from mutateEndpointIdFromHostIfNeeded on: a process that is gone by
\* now sends nothing.
SendEndpoint(p) ==
  /\ calls[p].pc \in {"connect", "disconnect"}
  /\ LET ids == UNION {MutatedAll(c, {calls[p].endpoint}) : c \in ByPid(p)}
     IN  chre' = [chre EXCEPT !.endpoints = Without(@, ids) \cup
                    (IF calls[p].pc = "disconnect" THEN {}
                     ELSE {[id |-> i, client |-> UuidOf(p)] : i \in ids})]
  /\ Goes(p, Idle)
  /\ UNCHANGED <<alive, clientVars, pendingVars, mIsChreReady, deaths, response,
                 txns, torn, faults>>

-----------------------------------------------------------------------------
(* Restarts.                                                               *)

\* CHRE goes down, with onChreDisconnected if the connection notices.  Requests
\* may still be in the queue for it, and its answers in the queue of the HAL.
OnChreDisconnected ==
  /\ "chre restarts" \in faults
  /\ faults' = (faults \cup {"chre is down"}) \ {"chre restarts"}
  /\ mIsChreReady' \in BOOLEAN
  /\ \E kept \in SUBSET chre.requests :
       chre' = [chre EXCEPT !.endpoints = {}, !.requests = kept]
  /\ UNCHANGED <<alive, clientVars, pendingVars, calls, deaths, response, txns,
                 torn>>

\* onChreReconnected with handleChreRestart.
OnChreReconnected ==
  /\ "chre is down" \in faults
  /\ faults' = faults \ {"chre is down"}
  /\ mIsChreReady' = TRUE
  /\ load' = NoTransaction
  /\ unload' = NoTransaction
  /\ mClients' = [c \in Known |-> [mClients[c] EXCEPT !.endpointIds = {}]]
  /\ UNCHANGED <<alive, mNextClientId, file, calls, deaths, response, chre,
                 txns, torn>>

\* The constructor of HalClientManager, after the HAL went down: the clients
\* of the file, none of them connected.
Restart(mappings) ==
  /\ mClients' = [c \in DOMAIN mappings |-> Connected(kPidUnset, mappings[c])]
  /\ mNextClientId' = NextClientId(kHostClientIdUnspecified, mClients')
  /\ file' = mappings
  /\ load' = NoTransaction
  /\ unload' = NoTransaction
  /\ mIsChreReady' = TRUE
  /\ calls' = [p \in Processes |-> Idle]
  /\ deaths' = [p \in Processes |-> "not linked"]
  /\ response' = Idle
  /\ chre' = [chre EXCEPT !.answers = <<>>]
  /\ UNCHANGED <<alive, txns>>

HalRestarts ==
  /\ "hal restarts" \in faults
  /\ faults' = faults \ {"hal restarts"}
  /\ Restart(file)
  /\ UNCHANGED torn

\* The HAL goes down in updateClientIdMappingFile, between the opening of the
\* file, which empties it, and the end of the writing.
HalRestartsWriting(p) ==
  /\ "hal restarts" \in faults
  /\ faults' = faults \ {"hal restarts"}
  /\ calls[p].pc = "register"
  /\ Creates(p)
  /\ Restart(<<>>)
  /\ torn' = TRUE

\* getNextFragmentedLoadRequest without a pending transaction (undefined
\* behaviour): the HAL goes down, or reads a transaction that is complete.
NoTransactionRead ==
  /\ load = NoTransaction
  /\ \/ /\ \/ response.pc = "next"
           \/ \E p \in Processes : calls[p].pc = "send load"
        /\ Restart(file)
     \/ /\ response.pc = "next"
        /\ ResponseGoes(Telling(response.r))
        /\ UNCHANGED <<alive, clientVars, pendingVars, mIsChreReady, calls,
                       deaths, chre, txns>>
     \/ /\ \E p \in Processes : calls[p].pc = "send load" /\ Goes(p, Idle)
        /\ UNCHANGED <<alive, clientVars, pendingVars, mIsChreReady, deaths,
                       response, chre, txns>>
  /\ UNCHANGED <<torn, faults>>

Next ==
  \/ \E p \in Processes :
       \/ LinkToDeath(p) \/ RegisterCallback(p)
       \/ Die(p) \/ DisconnectEndpoints(p) \/ HandleClientDeath(p)
       \/ \E n \in Fragments : LoadNanoapp(p, n)
       \/ GetClientId(p)
       \/ \E sent \in SendWorks : SendFirstFragment(p, sent)
       \/ ResetPendingLoadTransaction(p)
       \/ UnloadNanoapp(p)
       \/ \E sent \in SendWorks : SendUnload(p, sent)
       \/ ResetPendingUnloadTransaction(p)
       \/ \E e \in EndpointsOf[UuidOf(p)] : OnHostEndpointConnected(p, e)
       \/ \E e \in EndpointsOf[UuidOf(p)] : OnHostEndpointDisconnected(p, e)
       \/ SendEndpoint(p)
       \/ HalRestartsWriting(p)
  \/ TransactionGrowsOld
  \/ \E r \in chre.requests, success \in BOOLEAN : Answer(r, success)
  \/ OnNanoappLoadResponse
  \/ \E sent \in SendWorks : SendNextFragment(sent)
  \/ LoadFailed
  \/ OnNanoappUnloadResponse
  \/ HandleTransactionResult
  \/ OnChreDisconnected
  \/ OnChreReconnected
  \/ HalRestarts
  \/ NoTransactionRead

Spec == Init /\ [][Next]_vars

-----------------------------------------------------------------------------
(* The table names processes and IDs that there are.                          *)
HalTypeOK ==
  /\ alive \subseteq Processes
  /\ Known \subseteq {UuidOf(p) : p \in Processes}
  /\ \A c \in Known :
       /\ mClients[c].clientId \in 1 .. kMaxHalClientId - 1
       /\ mClients[c].pid \in Processes \cup {kPidUnset}
       /\ mClients[c].endpointIds \subseteq EndpointsOf[c]
  /\ mNextClientId \in 0 .. kMaxHalClientId - 1
  /\ DOMAIN calls = Processes /\ DOMAIN deaths = Processes
  /\ Len(txns) <= MaxTransactions

(* No two clients have the same ID, the ID for the next one is free, and the  *)
(* file has the IDs of the table, so that the next start of the HAL gives     *)
(* every client its old ID (createClient, updateNextClientId, the             *)
(* constructor), even if the file was lost once.                              *)
ClientIdsUnique ==
  /\ \A c, d \in Known : mClients[c].clientId = mClients[d].clientId => c = d
  /\ mNextClientId \notin Used(mClients)
  /\ DOMAIN file = Known /\ \A c \in Known : file[c] = mClients[c].clientId

(* One transaction is pending at a time, either load or unload                *)
(* (isNewTransactionAllowed).                                                 *)
OneTransactionPending == load = NoTransaction \/ unload = NoTransaction

(* No transaction is answered twice, whichever processes died, transactions   *)
(* were overridden, or restarts came in between (onNanoappLoadResponse,       *)
(* onNanoappUnloadResponse).                                                  *)
TransactionsToldOnce == \A t \in DOMAIN txns : Len(txns[t].told) <= 1

(* The result of a transaction is told to a process of the client that asked  *)
(* for it, as long as the file of IDs was not lost (getCallback).             *)
TransactionsToldToTheirClient ==
  \A t \in DOMAIN txns : \A i \in DOMAIN txns[t].told :
    ~torn => UuidOf(txns[t].told[i]) = txns[t].client

(* An endpoint that CHRE knows leads back to the client that connected it,    *)
(* with its own ID, over restarts of the HAL that leave the file intact       *)
(* (mutateVendorEndpointId, getCallbackForEndpoint).                          *)
EndpointsLeadBack ==
  \A m \in chre.endpoints : ~torn =>
    /\ ClientsForEndpoint(m.id) = {m.client}
    /\ ConvertToOriginalEndpointId(m.id) \in EndpointsOf[m.client]

(* Does not hold: a process that dies between AIBinder_linkToDeath and        *)
(* registerCallback is recorded after its death was handled, and its client   *)
(* is refused from then on.  The comment in registerCallback says "the        *)
(* previous connection is still active because otherwise the pid will be      *)
(* cleared in handleClientDeath()".                                           *)
ConnectionsAreWatched ==
  \A c \in Known : mClients[c].pid \in Processes \ alive =>
    deaths[mClients[c].pid] \in {"noticed", "disconnected"}

(* Does not hold: the unload of a client that died stays pending (line 235).  *)
PendingOfConnected ==
  \A t \in {load, unload} \ {NoTransaction} : CallbackOf(t.clientId) # kPidUnset

(* Does not hold: between the check and the use of the pending transaction    *)
(* another client can register its own (the first was reset by the death of   *)
(* its process or by a restart of CHRE, or is too old); its fragment is then  *)
(* sent for the first client (getNextFragmentedLoadRequest).                  *)
FragmentsOfTheirClient ==
  \A r \in chre.requests :
    ~torn /\ r.load => ByClientId(r.clientId) = {txns[r.txn].client}
=============================================================================
