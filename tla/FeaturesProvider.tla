-------------------------- MODULE FeaturesProvider --------------------------
(***************************************************************************)
(* The per-account cache of feature flags of the backend adapter           *)
(* (adapters/backend/v1/skip_alerts.go).  The cache is a sync.Map that is  *)
(* written by the adapter (register, unregister), by one goroutine per     *)
(* registration and by the refresh loop.  A refresh reads its arguments,   *)
(* asks a remote endpoint, and stores the answer: the fetch and the store  *)
(* are two steps, with anything in between.                                *)
(***************************************************************************)
EXTENDS Naturals, FiniteSets

CONSTANTS
    Account,       \* customer accounts
    AccessKey,     \* access keys the clusters of an account present
    Registrant,    \* the connections that register accounts, each once
    NoEntry        \* the account has no entry in the cache

ASSUME NoEntryAssumption ==
    NoEntry \notin [accessKey : AccessKey, features : {"nil", "on", "off"}]

VARIABLES
    cache,         \* account -> entry, or NoEntry
    refreshing     \* refreshAccount calls that wait for the endpoint's answer

fpVars == <<cache, refreshing>>

(* What an entry knows of the feature flag: not fetched (a nil slice),     *)
(* in the list of enabled features, or not in it.                          *)
Features == {"nil", "on", "off"}

cachedAccount == [accessKey : AccessKey, features : Features]

(* A refreshAccount call, of the goroutine of a registration or of the     *)
(* refresh loop.                                                           *)
Refresh ==
    [by : Registrant \cup {"loop"}, account : Account, accessKey : AccessKey]

FPInit ==
    /\ cache = [a \in Account |-> NoEntry]
    /\ refreshing = {}

-----------------------------------------------------------------------------

AlreadyFetched(a, k) ==
    /\ cache[a] # NoEntry
    /\ cache[a].accessKey = k
    /\ cache[a].features # "nil"

RegisterAccount(by, a, k) ==
    \/ /\ AlreadyFetched(a, k)
       /\ UNCHANGED fpVars
    \/ /\ ~ AlreadyFetched(a, k)
       /\ cache' = [cache EXCEPT ![a] = [accessKey |-> k, features |-> "nil"]]
       /\ refreshing' = refreshing \cup
              {[by |-> by, account |-> a, accessKey |-> k]}

UnregisterAccount(a) ==
    /\ cache' = [cache EXCEPT ![a] = NoEntry]
    /\ UNCHANGED refreshing

(* The loop visits the accounts one after the other, each with the access  *)
(* key its entry has when it is visited.                                   *)
StartRefreshLoop(a) ==
    /\ \A r \in refreshing : r.by # "loop"
    /\ cache[a] # NoEntry
    /\ refreshing' = refreshing \cup
           {[by |-> "loop", account |-> a, accessKey |-> cache[a].accessKey]}
    /\ UNCHANGED cache

(* The endpoint's answer: the enabled features, or an error.               *)
fetchFeatures == Features \cup {"error"}

refreshAccount(r) ==
    /\ r \in refreshing
    /\ refreshing' = refreshing \ {r}
    /\ \E answer \in fetchFeatures :
          \/ /\ answer = "error"
             /\ UNCHANGED cache
          \/ /\ answer # "error"
             /\ cache' = [cache EXCEPT ![r.account] =
                    [accessKey |-> r.accessKey, features |-> answer]]

FPNext ==
    \/ \E a \in Account : StartRefreshLoop(a)
    \/ \E r \in refreshing : refreshAccount(r)

FPTypeOK ==
    /\ cache \in [Account -> cachedAccount \cup {NoEntry}]
    /\ refreshing \subseteq Refresh
=============================================================================
