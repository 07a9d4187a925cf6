----------------------------- MODULE Connections -----------------------------
(***************************************************************************)
(* The social connections of a workspace: an OAuth flow that ends in a     *)
(* stored grant, the discovery of its accounts, the refreshes of its token *)
(* by the API and by publishing workers, and the disconnect that purges    *)
(* it.  A platform may rotate refresh tokens: each can then be used once.  *)
(***************************************************************************)
EXTENDS Naturals, FiniteSets

CONSTANTS
  Connections,    \* social_connections rows (bound)
  NoConnection,
  Flows,          \* social_oauth_attempts rows (bound)
  Callbacks,      \* OAuth callbacks, each with the state of some flow (bound)
  Accounts,       \* accounts the platform may report
  Refreshers,     \* refreshes and uses of a connection, one each
  ByApi,          \* those of them that the API makes
  NoToken,
  MaxRotations    \* bound on the rotations of a grant's refresh token

ASSUME ConnectionConstants ==
  /\ NoConnection \notin Connections
  /\ NoToken \notin [grant : Callbacks, n : 0 .. MaxRotations]
  /\ ByApi \subseteq Refreshers
  /\ MaxRotations \in Nat

VARIABLES
  rotates,     \* whether the platform sends a new refresh token with each use
  conn,        \* [Connections -> row]
  account,     \* [Accounts -> the live row's connection, or NoConnection]
  flow,        \* [Flows -> row]
  grant,       \* [Callbacks -> the grant the platform gave for its code]
  callback,    \* [Callbacks -> where each stands]
  refresh,     \* [Refreshers -> what each has read and where it stands]
  disconnect   \* [Connections -> where its disconnect stands]

vars == <<rotates, conn, account, flow, grant, callback, refresh, disconnect>>

Tokens == [grant : Callbacks, n : 0 .. MaxRotations]

ConnectionRows ==
  [status : {"NONE", "CONNECTED", "REAUTH_REQUIRED", "REVOKED"}, token : Tokens \cup {NoToken},
   refreshed : Nat, disconnected : BOOLEAN]
NoRow == [status |-> "NONE", token |-> NoToken, refreshed |-> 0, disconnected |-> FALSE]

(* connection is the row a RECONNECT renews. *)
FlowRows ==
  [status : {"NONE", "OPEN", "EXPIRED"}, consumed : BOOLEAN,
   connection : Connections \cup {NoConnection},
   outcome : {"NONE", "CONNECTED", "DENIED", "FAILED"}]
NoFlow == [status |-> "NONE", consumed |-> FALSE, connection |-> NoConnection, outcome |-> "NONE"]

(* current is the one refresh token that is still good; lost says that the   *)
(* answer which carried it reached nobody.                                   *)
Grants == [status : {"NONE", "LIVE", "REVOKED"}, current : 0 .. MaxRotations, lost : BOOLEAN]
NoGrant == [status |-> "NONE", current |-> 0, lost |-> FALSE]

CallbackStates ==
  [stage : {"idle", "arrived", "expired", "exchange", "store", "renew", "discover", "done"},
   flow : Flows, late : BOOLEAN, connection : Connections \cup {NoConnection}]
RefreshStates ==
  [stage : {"idle", "call", "write", "reread", "reauth", "use", "done"},
   connection : Connections \cup {NoConnection}, token : Tokens \cup {NoToken}, seen : Nat]
NoRefresh == [stage |-> "idle", connection |-> NoConnection, token |-> NoToken, seen |-> 0]

Live(c) == conn[c].status # "NONE" /\ ~conn[c].disconnected
GrantOf(token) == grant[token.grant]
Good(token) == GrantOf(token).status = "LIVE" /\ GrantOf(token).current = token.n

FlowOf(k) == flow[callback[k].flow]
At(k, stage) == callback' = [callback EXCEPT ![k].stage = stage]
Goto(r, stage) == refresh' = [refresh EXCEPT ![r].stage = stage]

(* An operator named X_Y is X with the bug Y; the mutants of the runs use it. *)

-----------------------------------------------------------------------------
(* The OAuth flow *)

(* begin(): a CONNECT, or the RECONNECT of a connection that is there. *)
Begin(f) ==
  /\ flow[f].status = "NONE"
  /\ \E c \in {NoConnection} \cup {d \in Connections : Live(d)} :
       flow' = [flow EXCEPT ![f].status = "OPEN", ![f].connection = c]
  /\ UNCHANGED <<rotates, conn, account, grant, callback, refresh, disconnect>>

Expire(f) ==
  /\ flow[f].status = "OPEN"
  /\ flow' = [flow EXCEPT ![f].status = "EXPIRED"]
  /\ UNCHANGED <<rotates, conn, account, grant, callback, refresh, disconnect>>

(* The callback of the user who began the flow; the time it goes by is read  *)
(* before anything else.                                                     *)
Arrive(k) ==
  /\ callback[k].stage = "idle" /\ FlowOf(k).status # "NONE"
  /\ callback' = [callback EXCEPT ![k].stage = "arrived", ![k].late = FlowOf(k).status = "EXPIRED"]
  /\ UNCHANGED <<rotates, conn, account, flow, grant, refresh, disconnect>>

Consumable_Again(k) == ~callback[k].late
Consumable(k) == ~FlowOf(k).consumed /\ ~callback[k].late

(* Of any number of callbacks with the state of a flow exactly one consumes  *)
(* it.  The others read the row and are refused; one that finds it unused    *)
(* goes on to close it.                                                      *)
Consume(k) ==
  /\ callback[k].stage = "arrived"
  /\ IF Consumable(k)
     THEN /\ flow' = [flow EXCEPT ![callback[k].flow].consumed = TRUE]
          /\ At(k, "exchange")
     ELSE /\ At(k, IF FlowOf(k).consumed THEN "done" ELSE "expired")
          /\ UNCHANGED flow
  /\ UNCHANGED <<rotates, conn, account, grant, refresh, disconnect>>

RejectExpired_Unguarded(k) ==
  /\ callback[k].stage = "expired"
  /\ flow' = [flow EXCEPT ![callback[k].flow].consumed = TRUE,
                          ![callback[k].flow].outcome = "FAILED"]
  /\ At(k, "done")
  /\ UNCHANGED <<rotates, conn, account, grant, refresh, disconnect>>

(* rejectState(), unless a callback consumed the flow in the meantime. *)
RejectExpired(k) ==
  /\ callback[k].stage = "expired"
  /\ flow' = IF FlowOf(k).consumed THEN flow
             ELSE [flow EXCEPT ![callback[k].flow].consumed = TRUE,
                               ![callback[k].flow].outcome = "FAILED"]
  /\ At(k, "done")
  /\ UNCHANGED <<rotates, conn, account, grant, refresh, disconnect>>

(* fail(): permission was withdrawn, the user denied, the configuration is   *)
(* missing, or the platform refused the code.                                *)
Fail(k) ==
  /\ callback[k].stage = "exchange"
  /\ \E outcome \in {"DENIED", "FAILED"} :
       flow' = [flow EXCEPT ![callback[k].flow].outcome = outcome]
  /\ At(k, "done")
  /\ UNCHANGED <<rotates, conn, account, grant, refresh, disconnect>>

(* The code is exchanged for a grant. *)
Exchange(k) ==
  /\ callback[k].stage = "exchange"
  /\ grant' = [grant EXCEPT ![k].status = "LIVE"]
  /\ At(k, "store")
  /\ UNCHANGED <<rotates, conn, account, flow, refresh, disconnect>>

Renewed_Any(k) == FlowOf(k).connection

(* The row that a RECONNECT renews, if it is not disconnected. *)
Renewed(k) ==
  IF FlowOf(k).connection # NoConnection /\ Live(FlowOf(k).connection)
  THEN FlowOf(k).connection
  ELSE NoConnection

(* storeGrant() looks for that row and locks nothing: its transaction is     *)
(* READ COMMITTED.                                                           *)
FindExisting(k) ==
  /\ callback[k].stage = "store"
  /\ callback' = [callback EXCEPT ![k].stage = "renew", ![k].connection = Renewed(k)]
  /\ UNCHANGED <<rotates, conn, account, flow, grant, refresh, disconnect>>

(* Then it writes to the row it found, by its id alone, or creates one, and  *)
(* commits with the outcome; lastRefreshedAt is left as it was.              *)
StoreGrant(k) ==
  /\ callback[k].stage = "renew"
  /\ \E c \in Connections :
       /\ IF callback[k].connection = NoConnection THEN conn[c].status = "NONE"
                                                   ELSE c = callback[k].connection
       /\ conn' = [conn EXCEPT ![c].status = "CONNECTED", ![c].token = [grant |-> k, n |-> 0]]
       /\ callback' = [callback EXCEPT ![k].stage = "discover", ![k].connection = c]
  /\ flow' = [flow EXCEPT ![callback[k].flow].outcome = "CONNECTED"]
  /\ UNCHANGED <<rotates, account, grant, refresh, disconnect>>

(* discover(): what the platform reports becomes the connection's; after a   *)
(* complete discovery what it no longer reports is retired.                  *)
Discover(k) ==
  LET c == callback[k].connection IN
  /\ callback[k].stage = "discover"
  /\ \E found \in SUBSET Accounts, complete \in BOOLEAN :
       account' = [x \in Accounts |->
                     IF x \in found THEN c
                     ELSE IF complete /\ account[x] = c THEN NoConnection ELSE account[x]]
  /\ At(k, "done")
  /\ UNCHANGED <<rotates, conn, flow, grant, refresh, disconnect>>

-----------------------------------------------------------------------------
(* Refreshing and using the token *)

(* A worker opens the connection of its account, the API that of a request:  *)
(* neither a disconnected one, and the worker none that wants a reconnect.   *)
Open(r, c) ==
  /\ refresh[r].stage = "idle"
  /\ Live(c)
  /\ r \in ByApi \/ conn[c].status = "CONNECTED"
  /\ conn[c].token # NoToken
  /\ \E stage \in {"call"} \cup (IF r \in ByApi THEN {} ELSE {"use"}) :
       refresh' = [refresh EXCEPT ![r] = [stage |-> stage, connection |-> c,
                                          token |-> conn[c].token, seen |-> conn[c].refreshed]]
  /\ UNCHANGED <<rotates, conn, account, flow, grant, callback, disconnect>>

Rotate(g) == grant' = [grant EXCEPT ![g].current = @ + 1]

(* refreshAccessToken(): a good token is exchanged for the next one, or kept *)
(* where the platform sends none; a spent or revoked one is an invalid_grant; *)
(* and the answer may be lost, whatever the platform did.                    *)
Call(r) ==
  LET token == refresh[r].token IN
  /\ refresh[r].stage = "call"
  /\ \/ /\ Good(token) /\ rotates /\ token.n < MaxRotations
        /\ \/ /\ Rotate(token.grant)
              /\ refresh' = [refresh EXCEPT ![r].stage = "write", ![r].token.n = @ + 1]
           \/ /\ grant' = [grant EXCEPT ![token.grant].current = @ + 1, ![token.grant].lost = TRUE]
              /\ Goto(r, "done")
     \/ Good(token) /\ ~rotates /\ Goto(r, "write") /\ UNCHANGED grant
     \/ ~Good(token) /\ Goto(r, IF r \in ByApi THEN "reauth" ELSE "reread") /\ UNCHANGED grant
     \/ Goto(r, "done") /\ UNCHANGED grant
  /\ UNCHANGED <<rotates, conn, account, flow, callback, disconnect>>

Write_OldToken(r) ==
  LET c == refresh[r].connection IN
  /\ refresh[r].stage = "write"
  /\ conn' = [conn EXCEPT ![c].status = "CONNECTED", ![c].refreshed = @ + 1]
  /\ Goto(r, IF r \in ByApi THEN "done" ELSE "use")
  /\ UNCHANGED <<rotates, account, flow, grant, callback, disconnect>>

(* The new token is stored by the row's id alone. *)
Write(r) ==
  LET c == refresh[r].connection IN
  /\ refresh[r].stage = "write"
  /\ conn' = [conn EXCEPT ![c].status = "CONNECTED", ![c].token = refresh[r].token,
                          ![c].refreshed = @ + 1]
  /\ Goto(r, IF r \in ByApi THEN "done" ELSE "use")
  /\ UNCHANGED <<rotates, account, flow, grant, callback, disconnect>>

(* A worker whose token was refused looks for one that was stored since.     *)
Reread(r) ==
  LET c == refresh[r].connection IN
  /\ refresh[r].stage = "reread"
  /\ Goto(r, IF conn[c].token # NoToken /\ conn[c].refreshed > refresh[r].seen
             THEN "use" ELSE "reauth")
  /\ UNCHANGED <<rotates, conn, account, flow, grant, callback, disconnect>>

Reauth(r) ==
  /\ refresh[r].stage = "reauth"
  /\ conn' = [conn EXCEPT ![refresh[r].connection].status = "REAUTH_REQUIRED"]
  /\ Goto(r, "done")
  /\ UNCHANGED <<rotates, account, flow, grant, callback, disconnect>>

(* The access token is used; the platform rejects it once its grant is gone. *)
Use(r) ==
  /\ refresh[r].stage = "use"
  /\ Goto(r, IF GrantOf(refresh[r].token).status = "LIVE" THEN "done" ELSE "reauth")
  /\ UNCHANGED <<rotates, conn, account, flow, grant, callback, disconnect>>

-----------------------------------------------------------------------------
(* Disconnecting *)

(* disconnect() reads the row and asks the platform to revoke the grant,     *)
(* which may fail.                                                           *)
Revoke(c) ==
  /\ disconnect[c] = "idle" /\ Live(c)
  /\ disconnect' = [disconnect EXCEPT ![c] = "purge"]
  /\ \/ grant' = [grant EXCEPT ![conn[c].token.grant].status = "REVOKED"]
     \/ UNCHANGED grant
  /\ UNCHANGED <<rotates, conn, account, flow, callback, refresh>>

(* The credential is deleted and the accounts retired, in one transaction. *)
Purge(c) ==
  /\ disconnect[c] = "purge"
  /\ conn' = [conn EXCEPT ![c].status = "REVOKED", ![c].token = NoToken, ![c].disconnected = TRUE]
  /\ account' = [x \in Accounts |-> IF account[x] = c THEN NoConnection ELSE account[x]]
  /\ disconnect' = [disconnect EXCEPT ![c] = "done"]
  /\ UNCHANGED <<rotates, flow, grant, callback, refresh>>

-----------------------------------------------------------------------------
(* The platform, and failures *)

(* The member withdraws the authorization at the platform. *)
Withdraw(k) ==
  /\ grant[k].status = "LIVE"
  /\ grant' = [grant EXCEPT ![k].status = "REVOKED"]
  /\ UNCHANGED <<rotates, conn, account, flow, callback, refresh, disconnect>>

(* The process of a callback or of a refresh dies. *)
CallbackDies(k) ==
  /\ callback[k].stage \notin {"idle", "done"}
  /\ At(k, "done")
  /\ UNCHANGED <<rotates, conn, account, flow, grant, refresh, disconnect>>

RefreshDies(r) ==
  /\ refresh[r].stage \notin {"idle", "done"}
  /\ grant' = IF refresh[r].stage = "write"
              THEN [grant EXCEPT ![refresh[r].token.grant].lost = TRUE] ELSE grant
  /\ Goto(r, "done")
  /\ UNCHANGED <<rotates, conn, account, flow, callback, disconnect>>

(* No more callbacks come (bound). *)
Quiescent ==
  /\ \A k \in Callbacks : callback[k].stage = "done"
  /\ UNCHANGED vars

-----------------------------------------------------------------------------
Init ==
  /\ rotates \in BOOLEAN
  /\ conn = [c \in Connections |-> NoRow]
  /\ account = [x \in Accounts |-> NoConnection]
  /\ flow = [f \in Flows |-> NoFlow]
  /\ grant = [k \in Callbacks |-> NoGrant]
  /\ callback \in [Callbacks -> {[stage |-> "idle", flow |-> f, late |-> FALSE,
                                  connection |-> NoConnection] : f \in Flows}]
  /\ refresh = [r \in Refreshers |-> NoRefresh]
  /\ disconnect = [c \in Connections |-> "idle"]

Next ==
  \/ \E f \in Flows : Begin(f) \/ Expire(f)
  \/ \E k \in Callbacks :
       \/ Arrive(k) \/ Consume(k) \/ RejectExpired(k) \/ Fail(k) \/ Exchange(k)
       \/ FindExisting(k) \/ StoreGrant(k) \/ Discover(k) \/ CallbackDies(k) \/ Withdraw(k)
  \/ \E r \in Refreshers :
       \/ Call(r) \/ Write(r) \/ Reread(r) \/ Reauth(r) \/ Use(r) \/ RefreshDies(r)
       \/ \E c \in Connections : Open(r, c)
  \/ \E c \in Connections : Revoke(c) \/ Purge(c)
  \/ Quiescent

Spec == Init /\ [][Next]_vars

-----------------------------------------------------------------------------
(* Properties *)

(* Every variable keeps the shape of what it stands for. *)
TypeOK ==
  /\ rotates \in BOOLEAN
  /\ conn \in [Connections -> ConnectionRows]
  /\ account \in [Accounts -> Connections \cup {NoConnection}]
  /\ flow \in [Flows -> FlowRows]
  /\ grant \in [Callbacks -> Grants]
  /\ callback \in [Callbacks -> CallbackStates]
  /\ refresh \in [Refreshers -> RefreshStates]
  /\ disconnect \in [Connections -> {"idle", "purge", "done"}]

(* However many callbacks carry the state of a flow, one exchanges its code. *)
OneGrantPerState ==
  \A j, k \in Callbacks :
    /\ grant[j].status # "NONE" /\ grant[k].status # "NONE"
    /\ callback[j].flow = callback[k].flow
    => j = k

(* A flow that has ended keeps its outcome: a late or expired callback does  *)
(* not report a stored grant as failed.                                      *)
OutcomeIsFinal ==
  [][\A f \in Flows : flow[f].outcome # "NONE" => flow'[f].outcome = flow[f].outcome]_vars

(* However refreshes overlap, the stored refresh token is the one that is    *)
(* still good, or somebody is about to store that one, or its only answer    *)
(* was lost.                                                                 *)
RotationIsKept ==
  \A c \in Connections :
    conn[c].token # NoToken =>
      \/ GrantOf(conn[c].token).current = conn[c].token.n
      \/ GrantOf(conn[c].token).lost
      \/ \E r \in Refreshers :
           /\ refresh[r].stage = "write" /\ refresh[r].connection = c
           /\ refresh[r].token = [conn[c].token EXCEPT !.n = GrantOf(conn[c].token).current]

(* Who has read the row, or will write to it, in a call that is under way. *)
AtWork(c) ==
  \/ \E r \in Refreshers : refresh[r].connection = c /\ refresh[r].stage \notin {"idle", "done"}
  \/ \E k \in Callbacks : callback[k].connection = c /\ callback[k].stage \in {"renew", "discover"}

(* A purged row on which nobody is at work stays purged: neither a reconnect *)
(* begun before the disconnect nor a worker or request that comes after it   *)
(* puts a credential or an account back.                                     *)
Purged(c) ==
  /\ conn[c].disconnected /\ conn[c].status = "REVOKED" /\ conn[c].token = NoToken
  /\ \A x \in Accounts : account[x] # c
  /\ ~AtWork(c)
PurgedStays == [][\A c \in Connections : Purged(c) => Purged(c)']_vars

(* What is documented of a disconnect, that it nulls the credential of the   *)
(* row that is kept: a disconnected row has none.  A reconnect that looked   *)
(* the row up before the purge gives it one after.                           *)
DisconnectNullsCredential ==
  \A c \in Connections : conn[c].disconnected => conn[c].token = NoToken

=============================================================================
