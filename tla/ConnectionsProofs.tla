-------------------------- MODULE ConnectionsProofs --------------------------
(***************************************************************************)
(* However many callbacks, refreshes and disconnects overlap: the state of *)
(* a flow is exchanged for one grant and the flow keeps its outcome, the   *)
(* stored refresh token is the good one or about to be, and a purged row   *)
(* on which nobody is at work stays purged.                                *)
(***************************************************************************)
EXTENDS Connections, TLAPS

(* A callback owns the flow it consumed. *)
Owns(k) == callback[k].stage \in {"exchange", "store", "renew", "discover"} \/ grant[k].status # "NONE"
FlowInv ==
  /\ \A k \in Callbacks : Owns(k) => FlowOf(k).consumed
  /\ \A j, k \in Callbacks : Owns(j) /\ Owns(k) /\ callback[j].flow = callback[k].flow => j = k
  /\ \A f \in Flows : flow[f].outcome # "NONE" => flow[f].consumed
  /\ \A k \in Callbacks : callback[k].stage \in {"exchange", "store", "renew"} => FlowOf(k).outcome = "NONE"

(* Every token in use came from a grant, and stays with the connection the   *)
(* grant was stored in.                                                      *)
Home(token, c) ==
  /\ token \in Tokens
  /\ callback[token.grant].stage \in {"discover", "done"} /\ callback[token.grant].connection = c
  /\ GrantOf(token).status # "NONE" /\ token.n <= GrantOf(token).current
Active(r) == refresh[r].stage \notin {"idle", "done"}
GrantInv == \A k \in Callbacks :
  /\ callback[k].stage \in {"store", "renew", "discover"} => grant[k].status # "NONE"
  /\ callback[k].stage \in {"idle", "arrived", "expired", "exchange", "store", "renew"} => grant[k].current = 0
  /\ callback[k].stage = "discover" => callback[k].connection \in Connections
RowInv == \A c \in Connections :
  /\ conn[c].token # NoToken => Home(conn[c].token, c)
  /\ Live(c) => conn[c].token # NoToken
RefreshInv == \A r \in Refreshers :
  Active(r) => /\ refresh[r].connection \in Connections /\ conn[refresh[r].connection].status # "NONE"
               /\ Home(refresh[r].token, refresh[r].connection)

(* Where tokens rotate, the answer to a refresh is the only good token of    *)
(* its grant until it is written.                                            *)
Newest(r) ==
  /\ \A c \in Connections : conn[c].token # NoToken /\ conn[c].token.grant = refresh[r].token.grant =>
       conn[c].token.n < GrantOf(refresh[r].token).current
  /\ \A s \in Refreshers : s # r /\ Active(s) /\ refresh[s].token.grant = refresh[r].token.grant =>
       refresh[s].token.n < GrantOf(refresh[r].token).current
RotationInv ==
  /\ ~rotates => \A k \in Callbacks : grant[k].current = 0
  /\ \A r \in Refreshers : refresh[r].stage = "write" =>
       /\ refresh[r].token.n = GrantOf(refresh[r].token).current
       /\ rotates => Newest(r)
  /\ RotationIsKept

IInv == TypeOK /\ FlowInv /\ GrantInv /\ RowInv /\ RefreshInv /\ RotationInv

-----------------------------------------------------------------------------
(* Initially there are no flows, rows or tokens. *)
LEMMA InitIInv == Init => IInv
<1> SUFFICES ASSUME Init PROVE IInv
  OBVIOUS
<1>1. \A k \in Callbacks : callback[k].stage = "idle" /\ callback[k] \in CallbackStates
  <2> TAKE k \in Callbacks
  <2>1. PICK f \in Flows :
          callback[k] = [stage |-> "idle", flow |-> f, late |-> FALSE, connection |-> NoConnection]
    BY DEF Init
  <2>2. callback[k] \in CallbackStates
    BY <2>1 DEF CallbackStates
  <2> QED
    BY <2>1, <2>2
<1>2. NoRow \in ConnectionRows /\ NoFlow \in FlowRows /\ NoGrant \in Grants /\ NoRefresh \in RefreshStates
  BY ConnectionConstants DEF NoRow, ConnectionRows, NoFlow, FlowRows, NoGrant, Grants, NoRefresh, RefreshStates
<1>3. callback \in [Callbacks -> CallbackStates]
  BY <1>1 DEF Init
<1>4. TypeOK
  BY <1>2, <1>3 DEF Init, TypeOK
<1>5. FlowInv
  BY <1>1 DEF Init, FlowInv, Owns, NoGrant, NoFlow
<1>6. GrantInv /\ RowInv /\ RefreshInv
  BY <1>1 DEF Init, GrantInv, RowInv, RefreshInv, Active, Live, NoGrant, NoRow, NoRefresh
<1>7. RotationInv
  BY DEF Init, RotationInv, RotationIsKept, NoGrant, NoRefresh, NoRow
<1> QED
  BY <1>4, <1>5, <1>6, <1>7 DEF IInv

-----------------------------------------------------------------------------
(* Type correctness *)

LEMMA AtFacts ==
  ASSUME TypeOK, NEW k \in Callbacks,
         NEW stage \in {"arrived", "expired", "exchange", "store", "renew", "discover", "done"}, At(k, stage)
  PROVE  /\ callback' \in [Callbacks -> CallbackStates]
         /\ callback'[k].stage = stage /\ callback'[k].flow = callback[k].flow
         /\ callback'[k].connection = callback[k].connection
         /\ \A j \in Callbacks : j # k => callback'[j] = callback[j]
<1>1. callback[k] \in CallbackStates /\ callback'[k] = [callback[k] EXCEPT !.stage = stage]
  BY DEF At, TypeOK
<1>2. callback'[k] \in CallbackStates
  BY <1>1 DEF CallbackStates
<1> QED
  BY <1>1, <1>2 DEF At, TypeOK, CallbackStates

LEMMA GotoFacts ==
  ASSUME TypeOK, NEW r \in Refreshers,
         NEW stage \in {"write", "reread", "reauth", "use", "done"}, Goto(r, stage)
  PROVE  /\ refresh' \in [Refreshers -> RefreshStates]
         /\ refresh'[r].stage = stage /\ refresh'[r].connection = refresh[r].connection
         /\ refresh'[r].token = refresh[r].token
         /\ \A s \in Refreshers : s # r => refresh'[s] = refresh[s]
<1>1. refresh[r] \in RefreshStates /\ refresh'[r] = [refresh[r] EXCEPT !.stage = stage]
  BY DEF Goto, TypeOK
<1>2. refresh'[r] \in RefreshStates
  BY <1>1 DEF RefreshStates
<1> QED
  BY <1>1, <1>2 DEF Goto, TypeOK, RefreshStates

(* A grant that is revoked keeps its tokens. *)
LEMMA StatusFacts ==
  ASSUME TypeOK, NEW g, NEW status \in {"LIVE", "REVOKED"}, grant' = [grant EXCEPT ![g].status = status]
  PROVE  /\ grant' \in [Callbacks -> Grants]
         /\ \A k \in Callbacks : /\ k # g => grant'[k] = grant[k]
                                 /\ k = g => grant'[k].status = status
                                 /\ grant'[k].current = grant[k].current /\ grant'[k].lost = grant[k].lost
<1>1. \A k \in Callbacks : /\ grant[k] \in Grants
                           /\ k = g => grant'[k] = [grant[k] EXCEPT !.status = status]
                           /\ k # g => grant'[k] = grant[k]
  BY DEF TypeOK
<1>2. grant' = [k \in Callbacks |-> grant'[k]]
  BY DEF TypeOK
<1>3. ASSUME NEW k \in Callbacks PROVE grant'[k] \in Grants
  <2>1. [grant[k] EXCEPT !.status = status] \in Grants
    BY <1>1 DEF Grants
  <2> QED
    BY <1>1, <2>1
<1> QED
  BY <1>1, <1>2, <1>3 DEF Grants

(* So does one whose answer is lost. *)
LEMMA LostFacts ==
  ASSUME TypeOK, NEW g, grant' = [grant EXCEPT ![g].lost = TRUE]
  PROVE  /\ grant' \in [Callbacks -> Grants]
         /\ \A k \in Callbacks : /\ k # g => grant'[k] = grant[k]
                                 /\ k = g => grant'[k].lost
                                 /\ grant'[k].current = grant[k].current /\ grant'[k].status = grant[k].status
<1>1. \A k \in Callbacks : /\ grant[k] \in Grants
                           /\ k = g => grant'[k] = [grant[k] EXCEPT !.lost = TRUE]
                           /\ k # g => grant'[k] = grant[k]
  BY DEF TypeOK
<1>2. grant' = [k \in Callbacks |-> grant'[k]]
  BY DEF TypeOK
<1>3. ASSUME NEW k \in Callbacks PROVE grant'[k] \in Grants
  <2>1. [grant[k] EXCEPT !.lost = TRUE] \in Grants
    BY <1>1 DEF Grants
  <2> QED
    BY <1>1, <2>1
<1> QED
  BY <1>1, <1>2, <1>3 DEF Grants

(* A step that leaves rows and refreshes alone, and keeps what is known of   *)
(* grants and of callbacks that stored one, keeps what is known of tokens.   *)
LEMMA TokensKept ==
  ASSUME IInv, TypeOK', UNCHANGED <<rotates, conn, refresh>>,
         \A k \in Callbacks :
           /\ grant'[k].current = grant[k].current /\ grant'[k].lost = grant[k].lost
           /\ grant[k].status # "NONE" => grant'[k].status # "NONE"
           /\ callback[k].stage \in {"discover", "done"} =>
                callback'[k].stage \in {"discover", "done"} /\ callback'[k].connection = callback[k].connection
  PROVE  RowInv' /\ RefreshInv' /\ RotationInv'
<1>1. \A token, c : Home(token, c) => Home(token, c)'
  BY DEF Home, Tokens, GrantOf
<1>2. RowInv'
  BY <1>1 DEF IInv, RowInv, Live
<1>3. RefreshInv'
  BY <1>1 DEF IInv, RefreshInv, Active
<1>4. \A r \in Refreshers : refresh[r].stage = "write" => refresh[r].token.grant \in Callbacks
  BY DEF IInv, RefreshInv, Active, Home, Tokens
<1>5. \A c \in Connections : conn[c].token # NoToken => conn[c].token.grant \in Callbacks
  BY DEF IInv, RowInv, Home, Tokens
<1>6. RotationIsKept'
  BY <1>4, <1>5 DEF IInv, RotationInv, RotationIsKept, GrantOf
<1>7. \A r \in Refreshers : refresh[r].stage = "write" /\ Newest(r) => Newest(r)'
  BY <1>4 DEF Newest, GrantOf, Active
<1> QED
  BY <1>2, <1>3, <1>4, <1>6, <1>7 DEF IInv, RotationInv, GrantOf

(* A step of callbacks, flows and grants that stores and discovers nothing.  *)
LEMMA CallbackStep ==
  ASSUME IInv, UNCHANGED <<rotates, conn, account, refresh>>,
         disconnect' \in [Connections -> {"idle", "purge", "done"}], flow' \in [Flows -> FlowRows], grant' \in [Callbacks -> Grants],
         callback' \in [Callbacks -> CallbackStates],
         \A k \in Callbacks :
           /\ grant'[k].current = grant[k].current /\ grant'[k].lost = grant[k].lost
           /\ grant[k].status # "NONE" => grant'[k].status # "NONE"
           /\ callback[k].stage \in {"discover", "done"} =>
                callback'[k].stage \in {"discover", "done"} /\ callback'[k].connection = callback[k].connection
           /\ callback'[k].stage = "discover" => callback[k].stage = "discover"
           /\ callback'[k].stage \in {"store", "renew"} =>
                callback[k].stage \in {"store", "renew"} \/ grant'[k].status # "NONE",
         FlowInv'
  PROVE  IInv'
<1>1. TypeOK'
  BY DEF IInv, TypeOK
<1>2. GrantInv'
  <2>1. ASSUME NEW k \in Callbacks,
               callback'[k].stage \in {"idle", "arrived", "expired", "exchange", "store", "renew"}
        PROVE  grant'[k].current = 0
    BY <2>1 DEF IInv, GrantInv, TypeOK, CallbackStates
  <2> QED
    BY <2>1 DEF IInv, GrantInv
<1>3. RowInv' /\ RefreshInv' /\ RotationInv'
  BY <1>1, TokensKept
<1> QED
  BY <1>1, <1>2, <1>3 DEF IInv

(* The flow is begun, and expires. *)
LEMMA FlowIInv ==
  ASSUME IInv, NEW f \in Flows, Begin(f) \/ Expire(f)
  PROVE  IInv'
<1>1. UNCHANGED <<rotates, conn, account, grant, callback, refresh, disconnect>>
  BY DEF Begin, Expire
<1>2. PICK status \in {"OPEN", "EXPIRED"}, c \in Connections \cup {NoConnection} :
        flow' = [flow EXCEPT ![f].status = status, ![f].connection = c]
  <2>1. CASE Begin(f)
    BY <2>1 DEF Begin
  <2>2. CASE Expire(f)
    <3>1. flow[f] \in FlowRows
      BY DEF IInv, TypeOK
    <3>2. flow' = [flow EXCEPT ![f].status = "EXPIRED", ![f].connection = flow[f].connection]
      BY <2>2, <3>1 DEF Expire, IInv, TypeOK, FlowRows
    <3> QED
      BY <3>1, <3>2 DEF FlowRows
  <2> QED
    BY <2>1, <2>2
<1>3. flow'[f] = [flow[f] EXCEPT !.status = status, !.connection = c] /\ \A g \in Flows : g # f => flow'[g] = flow[g]
  BY <1>2 DEF IInv, TypeOK
<1>4. flow'[f] \in FlowRows /\ flow'[f].consumed = flow[f].consumed /\ flow'[f].outcome = flow[f].outcome
  <2>1. flow[f] \in FlowRows
    BY DEF IInv, TypeOK
  <2>2. flow'[f] = [status |-> status, consumed |-> flow[f].consumed, connection |-> c, outcome |-> flow[f].outcome]
    BY <1>3, <2>1 DEF FlowRows
  <2>3. flow[f].consumed \in BOOLEAN /\ flow[f].outcome \in {"NONE", "CONNECTED", "DENIED", "FAILED"}
    BY <2>1 DEF FlowRows
  <2>4. flow'[f] \in FlowRows
    BY <2>2, <2>3 DEF FlowRows
  <2> QED
    BY <2>2, <2>4
<1>5. flow' \in [Flows -> FlowRows]
  BY <1>2, <1>4 DEF IInv, TypeOK
<1>6. \A g \in Flows : flow'[g].consumed = flow[g].consumed /\ flow'[g].outcome = flow[g].outcome
  BY <1>3, <1>4
<1>7. \A k \in Callbacks : callback[k].flow \in Flows
  BY DEF IInv, TypeOK, CallbackStates
<1>8. FlowInv'
  BY <1>1, <1>6, <1>7 DEF IInv, FlowInv, Owns, FlowOf
<1> QED
  BY <1>1, <1>5, <1>8, CallbackStep DEF IInv, TypeOK

(* A callback arrives. *)
LEMMA ArriveIInv ==
  ASSUME IInv, NEW k \in Callbacks, Arrive(k)
  PROVE  IInv'
<1>1. callback[k].stage = "idle" /\ UNCHANGED <<rotates, conn, account, flow, grant, refresh, disconnect>>
  BY DEF Arrive
<1>2. PICK late \in BOOLEAN : callback' = [callback EXCEPT ![k].stage = "arrived", ![k].late = late]
  BY DEF Arrive
<1>3. callback'[k] = [callback[k] EXCEPT !.stage = "arrived", !.late = late]
      /\ \A j \in Callbacks : j # k => callback'[j] = callback[j]
  BY <1>2 DEF IInv, TypeOK
<1>4. /\ callback'[k].stage = "arrived" /\ callback'[k].flow = callback[k].flow
      /\ callback'[k].connection = callback[k].connection /\ callback'[k] \in CallbackStates
  BY <1>3 DEF IInv, TypeOK, CallbackStates
<1>5. callback' \in [Callbacks -> CallbackStates]
  BY <1>2, <1>4 DEF IInv, TypeOK
<1>6. \A j \in Callbacks : /\ Owns(j)' <=> Owns(j)
                           /\ callback'[j].flow = callback[j].flow /\ FlowOf(j)' = FlowOf(j)
                           /\ callback'[j].stage \in {"exchange", "store", "renew"} => callback[j].stage = callback'[j].stage
  BY <1>1, <1>3, <1>4 DEF Owns, FlowOf
<1>7. FlowInv'
  BY <1>1, <1>6 DEF IInv, FlowInv
<1> QED
  BY <1>1, <1>3, <1>4, <1>5, <1>7, CallbackStep DEF IInv, TypeOK

(* A flow is consumed, ends with an outcome, or both. *)
LEMMA FlowFacts ==
  ASSUME TypeOK, NEW f \in Flows, NEW outcome \in {"NONE", "CONNECTED", "DENIED", "FAILED"},
         \/ flow' = [flow EXCEPT ![f].consumed = TRUE, ![f].outcome = outcome]
         \/ flow' = [flow EXCEPT ![f].consumed = TRUE] /\ flow[f].outcome = outcome
         \/ flow' = [flow EXCEPT ![f].outcome = outcome] /\ flow[f].consumed
  PROVE  /\ flow' \in [Flows -> FlowRows]
         /\ flow'[f].consumed /\ flow'[f].outcome = outcome
         /\ \A g \in Flows : g # f => flow'[g] = flow[g]
<1>1. flow[f] \in FlowRows
  BY DEF TypeOK
<1>2. \/ flow'[f] = [flow[f] EXCEPT !.consumed = TRUE, !.outcome = outcome]
      \/ flow'[f] = [flow[f] EXCEPT !.consumed = TRUE] /\ flow[f].outcome = outcome
      \/ flow'[f] = [flow[f] EXCEPT !.outcome = outcome] /\ flow[f].consumed
  BY DEF TypeOK
<1>3. ASSUME flow'[f] = [flow[f] EXCEPT !.consumed = TRUE, !.outcome = outcome]
      PROVE  flow'[f] \in FlowRows /\ flow'[f].consumed /\ flow'[f].outcome = outcome
  <2>1. [flow[f] EXCEPT !.consumed = TRUE, !.outcome = outcome] \in FlowRows
    BY <1>1 DEF FlowRows
  <2>2. flow'[f].consumed
    BY <1>1, <1>3 DEF FlowRows
  <2>3. flow'[f].outcome = outcome
    BY <1>1, <1>3 DEF FlowRows
  <2> QED
    BY <1>3, <2>1, <2>2, <2>3
<1>4. ASSUME flow'[f] = [flow[f] EXCEPT !.consumed = TRUE] /\ flow[f].outcome = outcome
      PROVE  flow'[f] \in FlowRows /\ flow'[f].consumed /\ flow'[f].outcome = outcome
  <2>1. [flow[f] EXCEPT !.consumed = TRUE] \in FlowRows
    BY <1>1 DEF FlowRows
  <2>2. flow'[f].consumed
    BY <1>1, <1>4 DEF FlowRows
  <2>3. flow'[f].outcome = outcome
    BY <1>1, <1>4 DEF FlowRows
  <2> QED
    BY <1>4, <2>1, <2>2, <2>3
<1>5. ASSUME flow'[f] = [flow[f] EXCEPT !.outcome = outcome] /\ flow[f].consumed
      PROVE  flow'[f] \in FlowRows /\ flow'[f].consumed /\ flow'[f].outcome = outcome
  <2>1. [flow[f] EXCEPT !.outcome = outcome] \in FlowRows
    BY <1>1 DEF FlowRows
  <2>2. flow'[f].consumed
    BY <1>1, <1>5 DEF FlowRows
  <2>3. flow'[f].outcome = outcome
    BY <1>1, <1>5 DEF FlowRows
  <2> QED
    BY <1>5, <2>1, <2>2, <2>3
<1>6. flow'[f] \in FlowRows /\ flow'[f].consumed /\ flow'[f].outcome = outcome
  BY <1>2, <1>3, <1>4, <1>5
<1>7. flow' \in [Flows -> FlowRows] /\ \A g \in Flows : g # f => flow'[g] = flow[g]
  BY <1>6 DEF TypeOK
<1> QED
  BY <1>6, <1>7

(* One callback consumes the flow: nobody owned it before. *)
LEMMA ConsumeIInv ==
  ASSUME IInv, NEW k \in Callbacks, Consume(k)
  PROVE  IInv'
<1> DEFINE f == callback[k].flow
<1>1. callback[k].stage = "arrived" /\ UNCHANGED <<rotates, conn, account, grant, refresh, disconnect>> /\ f \in Flows
  BY DEF Consume, IInv, TypeOK, CallbackStates
<1>2. CASE Consumable(k)
  <2>1. flow' = [flow EXCEPT ![f].consumed = TRUE] /\ At(k, "exchange") /\ ~flow[f].consumed
    BY <1>2 DEF Consume, Consumable, FlowOf
  <2>2. flow[f] \in FlowRows /\ flow[f].outcome \in {"NONE", "CONNECTED", "DENIED", "FAILED"}
    BY <1>1 DEF IInv, TypeOK, FlowRows
  <2>3. /\ flow' \in [Flows -> FlowRows] /\ flow'[f].consumed /\ flow'[f].outcome = flow[f].outcome
        /\ \A g \in Flows : g # f => flow'[g] = flow[g]
    BY <1>1, <2>1, <2>2, FlowFacts DEF IInv
  <2>4. /\ callback' \in [Callbacks -> CallbackStates] /\ callback'[k].stage = "exchange"
        /\ callback'[k].flow = f /\ callback'[k].connection = callback[k].connection
        /\ \A j \in Callbacks : j # k => callback'[j] = callback[j]
    BY <2>1, AtFacts DEF IInv
  <2>5. \A j \in Callbacks : Owns(j) => callback[j].flow # f
    BY <2>1 DEF IInv, FlowInv, FlowOf
  <2>6. flow[f].outcome = "NONE"
    BY <1>1, <2>1 DEF IInv, FlowInv
  <2>7. \A j \in Callbacks : callback[j].flow \in Flows
    BY DEF IInv, TypeOK, CallbackStates
  <2>8. \A j \in Callbacks : j # k => (Owns(j)' <=> Owns(j)) /\ FlowOf(j)' = flow'[callback[j].flow]
    BY <1>1, <2>4 DEF Owns, FlowOf
  <2>9. FlowOf(k)' = flow'[f]
    BY <2>4 DEF FlowOf
  <2>10. FlowInv'
    <3>1. \A j \in Callbacks : Owns(j)' => FlowOf(j)'.consumed
      BY <2>3, <2>5, <2>7, <2>8, <2>9 DEF IInv, FlowInv, FlowOf
    <3>2. \A i, j \in Callbacks : Owns(i)' /\ Owns(j)' /\ callback'[i].flow = callback'[j].flow => i = j
      BY <2>4, <2>5, <2>8 DEF IInv, FlowInv
    <3>3. \A g \in Flows : flow'[g].outcome # "NONE" => flow'[g].consumed
      BY <2>3 DEF IInv, FlowInv
    <3>4. \A j \in Callbacks : callback'[j].stage \in {"exchange", "store", "renew"} => FlowOf(j)'.outcome = "NONE"
      BY <2>3, <2>4, <2>6, <2>7, <2>8, <2>9 DEF IInv, FlowInv, FlowOf
    <3> QED
      BY <3>1, <3>2, <3>3, <3>4 DEF FlowInv
  <2> QED
    BY <1>1, <2>3, <2>4, <2>10, CallbackStep DEF IInv, TypeOK
<1>3. CASE ~Consumable(k)
  <2>1. PICK stage \in {"done", "expired"} : At(k, stage)
    BY <1>3 DEF Consume
  <2>2. flow' = flow
    BY <1>3 DEF Consume
  <2>3. /\ callback' \in [Callbacks -> CallbackStates] /\ callback'[k].stage = stage
        /\ callback'[k].flow = f /\ callback'[k].connection = callback[k].connection
        /\ \A j \in Callbacks : j # k => callback'[j] = callback[j]
    BY <2>1, AtFacts DEF IInv
  <2>4. FlowInv'
    BY <1>1, <2>2, <2>3 DEF IInv, FlowInv, Owns, FlowOf
  <2> QED
    BY <1>1, <2>2, <2>3, <2>4, CallbackStep DEF IInv, TypeOK
<1> QED
  BY <1>2, <1>3

(* A callback ends: it may close its flow, which no other callback owns. *)
LEMMA EndsIInv ==
  ASSUME IInv, NEW k \in Callbacks, At(k, "done"), UNCHANGED <<rotates, conn, account, grant, refresh, disconnect>>,
         flow' \in [Flows -> FlowRows],
         \/ flow' = flow
         \/ /\ flow'[callback[k].flow].consumed
            /\ \A g \in Flows : g # callback[k].flow => flow'[g] = flow[g]
            /\ \A j \in Callbacks : j # k /\ Owns(j) => callback[j].flow # callback[k].flow
  PROVE  IInv'
<1> DEFINE f == callback[k].flow
<1>1. /\ callback' \in [Callbacks -> CallbackStates] /\ callback'[k].stage = "done"
      /\ callback'[k].flow = f /\ callback'[k].connection = callback[k].connection
      /\ \A j \in Callbacks : j # k => callback'[j] = callback[j]
  BY AtFacts DEF IInv
<1>2. \A j \in Callbacks : callback[j].flow \in Flows
  BY DEF IInv, TypeOK, CallbackStates
<1>3. \A j \in Callbacks : /\ Owns(j)' => Owns(j)
                           /\ callback'[j].flow = callback[j].flow /\ FlowOf(j)' = flow'[callback[j].flow]
                           /\ callback'[j].stage \in {"exchange", "store", "renew"} => j # k /\ callback[j] = callback'[j]
  BY <1>1 DEF Owns, FlowOf
<1>4. CASE flow' = flow
  <2>1. FlowInv'
    BY <1>3, <1>4 DEF IInv, FlowInv, FlowOf
  <2> QED
    BY <1>1, <2>1, CallbackStep DEF IInv, TypeOK
<1>5. CASE /\ flow'[f].consumed
           /\ \A g \in Flows : g # f => flow'[g] = flow[g]
           /\ \A j \in Callbacks : j # k /\ Owns(j) => callback[j].flow # f
  <2>1. \A j \in Callbacks : Owns(j)' => FlowOf(j)'.consumed
    BY <1>2, <1>3, <1>5 DEF IInv, FlowInv, FlowOf
  <2>2. \A i, j \in Callbacks : Owns(i)' /\ Owns(j)' /\ callback'[i].flow = callback'[j].flow => i = j
    BY <1>3 DEF IInv, FlowInv
  <2>3. \A g \in Flows : flow'[g].outcome # "NONE" => flow'[g].consumed
    BY <1>5 DEF IInv, FlowInv
  <2>4. ASSUME NEW j \in Callbacks, callback'[j].stage \in {"exchange", "store", "renew"}
        PROVE  FlowOf(j)'.outcome = "NONE"
    <3>1. Owns(j) /\ j # k /\ callback[j].stage \in {"exchange", "store", "renew"}
      BY <1>3, <2>4 DEF Owns
    <3> QED
      BY <1>2, <1>3, <1>5, <3>1 DEF IInv, FlowInv, FlowOf
  <2>5. FlowInv'
    BY <2>1, <2>2, <2>3, <2>4 DEF FlowInv
  <2> QED
    BY <1>1, <2>5, CallbackStep DEF IInv, TypeOK
<1> QED
  BY <1>4, <1>5

(* An expired callback closes its flow, a refused one ends it, a dying one   *)
(* leaves it.                                                                *)
LEMMA CloseIInv ==
  ASSUME IInv, NEW k \in Callbacks, RejectExpired(k) \/ Fail(k) \/ CallbackDies(k)
  PROVE  IInv'
<1> DEFINE f == callback[k].flow
<1>1. At(k, "done") /\ UNCHANGED <<rotates, conn, account, grant, refresh, disconnect>>
  BY DEF RejectExpired, Fail, CallbackDies
<1>2. f \in Flows /\ flow \in [Flows -> FlowRows]
  BY DEF IInv, TypeOK, CallbackStates
<1>3. CASE RejectExpired(k) /\ ~flow[f].consumed
  <2>1. flow' = [flow EXCEPT ![f].consumed = TRUE, ![f].outcome = "FAILED"]
    BY <1>3 DEF RejectExpired, FlowOf
  <2>2. \A j \in Callbacks : Owns(j) => callback[j].flow # f
    BY <1>3 DEF IInv, FlowInv, FlowOf
  <2> QED
    BY <1>1, <1>2, <2>1, <2>2, FlowFacts, EndsIInv DEF IInv
<1>4. CASE Fail(k)
  <2>1. PICK outcome \in {"DENIED", "FAILED"} : flow' = [flow EXCEPT ![f].outcome = outcome]
    BY <1>4 DEF Fail
  <2>2. Owns(k) /\ flow[f].consumed
    BY <1>4 DEF Fail, IInv, FlowInv, Owns, FlowOf
  <2>3. \A j \in Callbacks : j # k /\ Owns(j) => callback[j].flow # f
    BY <2>2 DEF IInv, FlowInv
  <2> QED
    BY <1>1, <1>2, <2>1, <2>2, <2>3, FlowFacts, EndsIInv DEF IInv
<1>5. CASE (RejectExpired(k) /\ flow[f].consumed) \/ CallbackDies(k)
  <2>1. flow' = flow
    BY <1>5 DEF RejectExpired, CallbackDies, FlowOf
  <2> QED
    BY <1>1, <1>2, <2>1, EndsIInv
<1> QED
  BY <1>3, <1>4, <1>5

(* The callback that owns the flow gets its grant, and the grant is revoked. *)
LEMMA GrantIInv ==
  ASSUME IInv, NEW k \in Callbacks, Exchange(k) \/ Withdraw(k)
  PROVE  IInv'
<1>1. flow' = flow /\ UNCHANGED <<rotates, conn, account, refresh, disconnect>>
  BY DEF Exchange, Withdraw
<1>2. PICK status \in {"LIVE", "REVOKED"} : grant' = [grant EXCEPT ![k].status = status]
  BY DEF Exchange, Withdraw
<1>3. /\ grant' \in [Callbacks -> Grants]
      /\ \A j \in Callbacks : /\ j # k => grant'[j] = grant[j]
                              /\ j = k => grant'[j].status = status
                              /\ grant'[j].current = grant[j].current /\ grant'[j].lost = grant[j].lost
  BY <1>2, StatusFacts DEF IInv
<1>4. \A j \in Callbacks : grant[j].status # "NONE" => grant'[j].status # "NONE"
  BY <1>3
<1>5. Owns(k)
  BY DEF Exchange, Withdraw, Owns
<1>6. CASE Exchange(k)
  <2>1. callback[k].stage = "exchange" /\ At(k, "store")
    BY <1>6 DEF Exchange
  <2>2. /\ callback' \in [Callbacks -> CallbackStates] /\ callback'[k].stage = "store"
        /\ callback'[k].flow = callback[k].flow /\ callback'[k].connection = callback[k].connection
        /\ \A j \in Callbacks : j # k => callback'[j] = callback[j]
    BY <2>1, AtFacts DEF IInv
  <2>3. \A j \in Callbacks :
          /\ Owns(j)' => Owns(j)
          /\ callback'[j].flow = callback[j].flow /\ FlowOf(j)' = FlowOf(j)
          /\ callback'[j].stage \in {"exchange", "store", "renew"} => callback[j].stage \in {"exchange", "store", "renew"}
    BY <1>1, <1>3, <1>5, <2>1, <2>2 DEF Owns, FlowOf
  <2>4. FlowInv'
    BY <1>1, <2>3 DEF IInv, FlowInv
  <2> QED
    BY <1>1, <1>3, <1>4, <2>1, <2>2, <2>4, CallbackStep DEF IInv, TypeOK
<1>7. CASE Withdraw(k)
  <2>1. callback' = callback
    BY <1>7 DEF Withdraw
  <2>2. \A j \in Callbacks : (Owns(j)' => Owns(j)) /\ FlowOf(j)' = FlowOf(j)
    BY <1>1, <1>3, <1>5, <2>1 DEF Owns, FlowOf
  <2>3. FlowInv'
    BY <1>1, <2>1, <2>2 DEF IInv, FlowInv
  <2> QED
    BY <1>1, <1>3, <1>4, <2>1, <2>3, CallbackStep DEF IInv, TypeOK
<1> QED
  BY <1>6, <1>7

(* A disconnect asks for the revocation of the grant it reads. *)
LEMMA RevokeIInv ==
  ASSUME IInv, NEW c \in Connections, Revoke(c)
  PROVE  IInv'
<1> DEFINE g == conn[c].token.grant
<1>1. UNCHANGED <<rotates, conn, account, flow, callback, refresh>> /\ Live(c)
  BY DEF Revoke
<1>2. disconnect' \in [Connections -> {"idle", "purge", "done"}]
  BY DEF Revoke, IInv, TypeOK
<1>3. g \in Callbacks /\ grant[g].status # "NONE"
  BY <1>1 DEF IInv, RowInv, Home, Tokens, GrantOf
<1>4. grant' = grant \/ grant' = [grant EXCEPT ![g].status = "REVOKED"]
  BY DEF Revoke
<1>5. /\ grant' \in [Callbacks -> Grants]
      /\ \A j \in Callbacks : /\ j # g => grant'[j] = grant[j]
                              /\ grant[j].status # "NONE" => grant'[j].status # "NONE"
                              /\ grant'[j].current = grant[j].current /\ grant'[j].lost = grant[j].lost
  <2>1. CASE grant' = grant
    BY <2>1 DEF IInv, TypeOK
  <2>2. CASE grant' = [grant EXCEPT ![g].status = "REVOKED"]
    BY <2>2, StatusFacts DEF IInv
  <2> QED
    BY <1>4, <2>1, <2>2
<1>6. \A j \in Callbacks : (Owns(j)' => Owns(j)) /\ FlowOf(j)' = FlowOf(j)
  BY <1>1, <1>3, <1>5 DEF Owns, FlowOf
<1>7. FlowInv'
  BY <1>1, <1>6 DEF IInv, FlowInv
<1> QED
  BY <1>1, <1>2, <1>5, <1>7, CallbackStep DEF IInv, TypeOK

-----------------------------------------------------------------------------
(* Storing a grant and discovering its accounts *)

(* The row to renew is looked up. *)
LEMMA FindIInv ==
  ASSUME IInv, NEW k \in Callbacks, FindExisting(k)
  PROVE  IInv'
<1>1. callback[k].stage = "store" /\ UNCHANGED <<rotates, conn, account, flow, grant, refresh, disconnect>>
  BY DEF FindExisting
<1>2. callback[k] \in CallbackStates /\ Renewed(k) \in Connections \cup {NoConnection}
  BY DEF Renewed, FlowOf, IInv, TypeOK, CallbackStates, FlowRows
<1>3. callback'[k] = [callback[k] EXCEPT !.stage = "renew", !.connection = Renewed(k)]
      /\ \A j \in Callbacks : j # k => callback'[j] = callback[j]
  BY DEF FindExisting, IInv, TypeOK
<1>4. callback'[k].stage = "renew" /\ callback'[k].flow = callback[k].flow /\ callback'[k] \in CallbackStates
  <2> HIDE DEF Renewed
  <2> QED
    BY <1>2, <1>3 DEF CallbackStates
<1>5. callback' \in [Callbacks -> CallbackStates]
  BY <1>4 DEF FindExisting, IInv, TypeOK
<1>6. \A j \in Callbacks : /\ Owns(j)' <=> Owns(j)
                           /\ callback'[j].flow = callback[j].flow /\ FlowOf(j)' = FlowOf(j)
                           /\ callback'[j].stage \in {"exchange", "store", "renew"} =>
                                callback[j].stage \in {"exchange", "store", "renew"}
  BY <1>1, <1>3, <1>4 DEF Owns, FlowOf
<1>7. FlowInv'
  BY <1>1, <1>6 DEF IInv, FlowInv
<1> QED
  BY <1>1, <1>3, <1>4, <1>5, <1>7, CallbackStep DEF IInv, TypeOK

(* A new grant's token is not yet known to anybody. *)
LEMMA StoreIInv ==
  ASSUME IInv, NEW k \in Callbacks, StoreGrant(k)
  PROVE  IInv'
<1> DEFINE f == callback[k].flow
           token == [grant |-> k, n |-> 0]
<1>1. callback[k].stage = "renew" /\ UNCHANGED <<rotates, account, grant, refresh, disconnect>> /\ f \in Flows
  BY DEF StoreGrant, IInv, TypeOK, CallbackStates
<1>2. PICK c \in Connections :
        /\ conn' = [conn EXCEPT ![c].status = "CONNECTED", ![c].token = token]
        /\ callback' = [callback EXCEPT ![k].stage = "discover", ![k].connection = c]
  BY DEF StoreGrant
<1>3. token \in Tokens /\ token # NoToken
  BY ConnectionConstants DEF Tokens
<1>4. /\ conn' \in [Connections -> ConnectionRows]
      /\ conn'[c].status = "CONNECTED" /\ conn'[c].token = token /\ conn'[c].disconnected = conn[c].disconnected
      /\ \A d \in Connections : d # c => conn'[d] = conn[d]
  <2>1. conn[c] \in ConnectionRows
    BY DEF IInv, TypeOK
  <2>2. conn'[c] = [conn[c] EXCEPT !.status = "CONNECTED", !.token = token]
    BY <1>2 DEF IInv, TypeOK
  <2>3. [conn[c] EXCEPT !.status = "CONNECTED", !.token = token] \in ConnectionRows
    BY <1>3, <2>1 DEF ConnectionRows
  <2>4. conn'[c].status = "CONNECTED" /\ conn'[c].token = token /\ conn'[c].disconnected = conn[c].disconnected
    BY <2>1, <2>2 DEF ConnectionRows
  <2> QED
    BY <1>2, <2>2, <2>3, <2>4 DEF IInv, TypeOK
<1>5. /\ callback' \in [Callbacks -> CallbackStates]
      /\ callback'[k].stage = "discover" /\ callback'[k].connection = c /\ callback'[k].flow = f
      /\ \A j \in Callbacks : j # k => callback'[j] = callback[j]
  <2>1. callback[k] \in CallbackStates
    BY DEF IInv, TypeOK
  <2>2. callback'[k] = [callback[k] EXCEPT !.stage = "discover", !.connection = c]
    BY <1>2 DEF IInv, TypeOK
  <2>3. callback'[k] \in CallbackStates
    BY <2>1, <2>2 DEF CallbackStates
  <2> QED
    BY <1>2, <2>1, <2>2, <2>3 DEF IInv, TypeOK, CallbackStates
<1>6. Owns(k) /\ flow[f].consumed
  BY <1>1 DEF IInv, FlowInv, Owns, FlowOf
<1>7. /\ flow' \in [Flows -> FlowRows] /\ flow'[f].consumed
      /\ \A g \in Flows : g # f => flow'[g] = flow[g]
  <2>1. flow' = [flow EXCEPT ![f].outcome = "CONNECTED"]
    BY DEF StoreGrant
  <2> QED
    BY <1>1, <1>6, <2>1, FlowFacts DEF IInv
<1>8. \A t, d : Home(t, d) => t.grant # k /\ Home(t, d)'
  BY <1>1, <1>5 DEF Home, Tokens, GrantOf
<1>9. TypeOK'
  BY <1>1, <1>4, <1>5, <1>7 DEF IInv, TypeOK
<1>10. FlowInv'
  <2>1. \A j \in Callbacks : /\ Owns(j)' => Owns(j)
                             /\ callback'[j].flow = callback[j].flow /\ FlowOf(j)' = flow'[callback[j].flow]
                             /\ callback'[j].stage \in {"exchange", "store", "renew"} => j # k /\ callback[j] = callback'[j]
    BY <1>1, <1>5, <1>6 DEF Owns, FlowOf
  <2>2. \A j \in Callbacks : callback[j].flow \in Flows /\ (Owns(j) /\ j # k => callback[j].flow # f)
    BY <1>6 DEF IInv, FlowInv, TypeOK, CallbackStates
  <2>3. \A j \in Callbacks : Owns(j)' => FlowOf(j)'.consumed
    BY <1>7, <2>1, <2>2 DEF IInv, FlowInv, FlowOf
  <2>4. \A i, j \in Callbacks : Owns(i)' /\ Owns(j)' /\ callback'[i].flow = callback'[j].flow => i = j
    BY <2>1 DEF IInv, FlowInv
  <2>5. \A g \in Flows : flow'[g].outcome # "NONE" => flow'[g].consumed
    BY <1>7 DEF IInv, FlowInv
  <2>6. ASSUME NEW j \in Callbacks, callback'[j].stage \in {"exchange", "store", "renew"}
        PROVE  FlowOf(j)'.outcome = "NONE"
    <3>1. Owns(j) /\ j # k /\ callback[j].stage \in {"exchange", "store", "renew"}
      BY <2>1, <2>6 DEF Owns
    <3> QED
      BY <1>7, <2>1, <2>2, <3>1 DEF IInv, FlowInv, FlowOf
  <2> QED
    BY <2>3, <2>4, <2>5, <2>6 DEF FlowInv
<1>11. GrantInv'
  BY <1>1, <1>5 DEF IInv, GrantInv
<1>12. RowInv'
  <2>1. Home(token, c)'
    BY <1>1, <1>3, <1>5 DEF Home, GrantOf, IInv, GrantInv
  <2> QED
    BY <1>3, <1>4, <1>8, <2>1 DEF IInv, RowInv, Live
<1>13. RefreshInv'
  BY <1>1, <1>4, <1>8 DEF IInv, RefreshInv, Active
<1>14. RotationInv'
  <2>1. RotationIsKept'
    BY <1>1, <1>4 DEF IInv, RotationInv, RotationIsKept, GrantOf, GrantInv
  <2>2. \A r \in Refreshers : refresh[r].stage = "write" => refresh[r].token.grant # k
    BY <1>8 DEF IInv, RefreshInv, Active
  <2>3. \A r \in Refreshers : refresh[r].stage = "write" /\ Newest(r) => Newest(r)'
    BY <1>1, <1>4, <2>2 DEF Newest, GrantOf, Active
  <2> QED
    BY <1>1, <2>1, <2>3 DEF IInv, RotationInv, GrantOf
<1> QED
  BY <1>9, <1>10, <1>11, <1>12, <1>13, <1>14 DEF IInv

(* What is discovered belongs to the connection its grant is stored in. *)
LEMMA DiscoverIInv ==
  ASSUME IInv, NEW k \in Callbacks, Discover(k)
  PROVE  IInv'
<1> DEFINE c == callback[k].connection
<1>1. callback[k].stage = "discover" /\ At(k, "done") /\ UNCHANGED <<rotates, conn, flow, grant, refresh, disconnect>>
  BY DEF Discover
<1>2. c \in Connections
  BY <1>1 DEF IInv, GrantInv
<1>3. PICK found \in SUBSET Accounts, complete \in BOOLEAN :
        account' = [x \in Accounts |-> IF x \in found THEN c
                      ELSE IF complete /\ account[x] = c THEN NoConnection ELSE account[x]]
  BY DEF Discover
<1>4. account' \in [Accounts -> Connections \cup {NoConnection}]
  BY <1>2, <1>3 DEF IInv, TypeOK
<1>5. \A x \in Accounts : account'[x] \in {c, NoConnection, account[x]}
  BY <1>3
<1>6. /\ callback' \in [Callbacks -> CallbackStates] /\ callback'[k].stage = "done"
      /\ callback'[k].flow = callback[k].flow /\ callback'[k].connection = c
      /\ \A j \in Callbacks : j # k => callback'[j] = callback[j]
  BY <1>1, AtFacts DEF IInv
<1>7. TypeOK'
  BY <1>1, <1>4, <1>6 DEF IInv, TypeOK
<1>8. FlowInv'
  <2>1. \A j \in Callbacks : /\ Owns(j)' => Owns(j)
                             /\ callback'[j].flow = callback[j].flow /\ FlowOf(j)' = FlowOf(j)
                             /\ callback'[j].stage \in {"exchange", "store", "renew"} => callback[j] = callback'[j]
    BY <1>1, <1>6 DEF Owns, FlowOf
  <2> QED
    BY <1>1, <2>1 DEF IInv, FlowInv
<1>9. GrantInv'
  BY <1>1, <1>6 DEF IInv, GrantInv
<1>10. RowInv' /\ RefreshInv' /\ RotationInv'
  BY <1>1, <1>6, <1>7, TokensKept
<1> QED
  BY <1>7, <1>8, <1>9, <1>10 DEF IInv

-----------------------------------------------------------------------------
(* Refreshing *)

(* A step that leaves callbacks and flows alone. *)
LEMMA CallbacksKept ==
  ASSUME IInv, UNCHANGED <<callback, flow>>, \A k \in Callbacks : grant'[k].status = grant[k].status
  PROVE  FlowInv'
<1>1. \A j \in Callbacks : (Owns(j)' <=> Owns(j)) /\ FlowOf(j)' = FlowOf(j)
  BY DEF Owns, FlowOf
<1> QED
  BY <1>1 DEF IInv, FlowInv

(* A refresh that stores nothing goes on, or ends; if it had a rotated token *)
(* that token is now lost.                                                   *)
LEMMA GoIInv ==
  ASSUME IInv, NEW r \in Refreshers, Active(r), NEW stage \in {"reread", "reauth", "use", "done"}, Goto(r, stage),
         UNCHANGED <<rotates, account, flow, callback, disconnect>>,
         grant' \in [Callbacks -> Grants],
         \A k \in Callbacks : /\ grant'[k].current = grant[k].current /\ grant'[k].status = grant[k].status
                              /\ grant[k].lost => grant'[k].lost,
         refresh[r].stage = "write" => grant'[refresh[r].token.grant].lost,
         conn' \in [Connections -> ConnectionRows],
         \A c \in Connections : /\ conn'[c].token = conn[c].token /\ conn'[c].disconnected = conn[c].disconnected
                                /\ conn'[c].status = "NONE" <=> conn[c].status = "NONE"
  PROVE  IInv'
<1>1. /\ refresh' \in [Refreshers -> RefreshStates]
      /\ refresh'[r].stage = stage /\ refresh'[r].connection = refresh[r].connection
      /\ refresh'[r].token = refresh[r].token
      /\ \A s \in Refreshers : s # r => refresh'[s] = refresh[s]
  BY GotoFacts DEF IInv
<1>2. \A s \in Refreshers : /\ Active(s)' => Active(s)
                            /\ refresh'[s].connection = refresh[s].connection /\ refresh'[s].token = refresh[s].token
                            /\ refresh'[s].stage = "write" => s # r /\ refresh[s].stage = "write"
  BY <1>1 DEF Active
<1>3. \A t, d : Home(t, d) => Home(t, d)' /\ t.grant \in Callbacks
  BY DEF Home, Tokens, GrantOf
<1>4. TypeOK'
  BY <1>1 DEF IInv, TypeOK
<1>5. FlowInv' /\ GrantInv'
  BY CallbacksKept DEF IInv, GrantInv
<1>6. RowInv'
  BY <1>3 DEF IInv, RowInv, Live
<1>7. RefreshInv'
  <2> SUFFICES ASSUME NEW s \in Refreshers, Active(s)'
               PROVE  /\ refresh'[s].connection \in Connections /\ conn'[refresh'[s].connection].status # "NONE"
                      /\ Home(refresh[s].token, refresh[s].connection)'
    BY <1>2 DEF RefreshInv, Home
  <2>1. /\ refresh[s].connection \in Connections /\ conn[refresh[s].connection].status # "NONE"
        /\ Home(refresh[s].token, refresh[s].connection)
    BY <1>2 DEF IInv, RefreshInv
  <2> QED
    BY <1>2, <1>3, <2>1 DEF Home
<1>8. RotationIsKept'
  <2> SUFFICES ASSUME NEW c \in Connections, conn'[c].token # NoToken
               PROVE  \/ grant'[conn'[c].token.grant].current = conn'[c].token.n
                      \/ grant'[conn'[c].token.grant].lost
                      \/ \E s \in Refreshers :
                           /\ refresh'[s].stage = "write" /\ refresh'[s].connection = c
                           /\ refresh'[s].token = [conn'[c].token EXCEPT !.n = grant'[conn'[c].token.grant].current]
    BY DEF RotationIsKept, GrantOf
  <2> DEFINE t == conn[c].token
  <2>1. conn'[c].token = t /\ t \in Tokens /\ t.grant \in Callbacks
    BY DEF IInv, RowInv, Home, Tokens
  <2>2. grant'[t.grant].current = grant[t.grant].current /\ (grant[t.grant].lost => grant'[t.grant].lost)
    BY <2>1
  <2>3. \/ grant[t.grant].current = t.n
        \/ grant[t.grant].lost
        \/ \E s \in Refreshers :
             /\ refresh[s].stage = "write" /\ refresh[s].connection = c
             /\ refresh[s].token = [t EXCEPT !.n = grant[t.grant].current]
    BY DEF IInv, RotationInv, RotationIsKept, GrantOf
  <2>4. CASE grant[t.grant].current = t.n \/ grant[t.grant].lost
    BY <2>1, <2>2, <2>4 DEF GrantOf
  <2>5. ASSUME NEW s \in Refreshers, refresh[s].stage = "write", refresh[s].connection = c,
               refresh[s].token = [t EXCEPT !.n = grant[t.grant].current]
        PROVE  \/ grant'[t.grant].lost
               \/ /\ refresh'[s].stage = "write" /\ refresh'[s].connection = c
                  /\ refresh'[s].token = [t EXCEPT !.n = grant'[t.grant].current]
    <3>1. refresh[s].token.grant = t.grant
      BY <2>1, <2>5 DEF Tokens
    <3>2. CASE s = r
      BY <2>5, <3>1, <3>2
    <3>3. CASE s # r
      BY <1>1, <2>2, <2>5, <3>3
    <3> QED
      BY <3>2, <3>3
  <2> QED
    BY <2>1, <2>3, <2>4, <2>5 DEF GrantOf
<1>9. ASSUME NEW s \in Refreshers, refresh'[s].stage = "write"
      PROVE  /\ refresh'[s].token.n = grant'[refresh'[s].token.grant].current
             /\ rotates' => Newest(s)'
  <2>1. refresh[s].stage = "write" /\ refresh'[s].token = refresh[s].token /\ refresh[s].token.grant \in Callbacks
    BY <1>2, <1>9 DEF IInv, RefreshInv, Active, Home, Tokens
  <2>2. refresh[s].token.n = GrantOf(refresh[s].token).current /\ (rotates => Newest(s))
    BY <2>1 DEF IInv, RotationInv
  <2> QED
    BY <1>2, <2>1, <2>2 DEF Newest, GrantOf
<1>10. RotationInv'
  BY <1>8, <1>9 DEF IInv, RotationInv, GrantOf
<1> QED
  BY <1>4, <1>5, <1>6, <1>7, <1>10 DEF IInv

(* Reading again, giving up and using write no token. *)
LEMMA StepIInv ==
  ASSUME IInv, NEW r \in Refreshers, Reread(r) \/ Reauth(r) \/ Use(r) \/ RefreshDies(r)
  PROVE  IInv'
<1>1. conn \in [Connections -> ConnectionRows] /\ grant \in [Callbacks -> Grants] /\ Active(r)
      /\ UNCHANGED <<rotates, account, flow, callback, disconnect>>
  BY DEF IInv, TypeOK, Reread, Reauth, Use, RefreshDies, Active
<1>2. CASE Reread(r) \/ Use(r)
  <2>1. PICK stage \in {"use", "reauth", "done"} : Goto(r, stage)
    BY <1>2 DEF Reread, Use
  <2>2. UNCHANGED <<conn, grant>> /\ refresh[r].stage # "write"
    BY <1>2 DEF Reread, Use
  <2> QED
    BY <1>1, <2>1, <2>2, GoIInv
<1>3. CASE Reauth(r)
  <2> DEFINE c == refresh[r].connection
  <2>1. Goto(r, "done") /\ grant' = grant /\ refresh[r].stage # "write"
        /\ conn' = [conn EXCEPT ![c].status = "REAUTH_REQUIRED"]
    BY <1>3 DEF Reauth
  <2>2. c \in Connections /\ conn[c].status # "NONE" /\ conn[c] \in ConnectionRows
    BY <1>1 DEF IInv, RefreshInv
  <2>3. conn'[c] = [conn[c] EXCEPT !.status = "REAUTH_REQUIRED"] /\ \A d \in Connections : d # c => conn'[d] = conn[d]
    BY <1>1, <2>1, <2>2
  <2>4. [conn[c] EXCEPT !.status = "REAUTH_REQUIRED"] \in ConnectionRows
    BY <2>2 DEF ConnectionRows
  <2>5. conn'[c].token = conn[c].token /\ conn'[c].disconnected = conn[c].disconnected /\ conn'[c].status # "NONE"
    BY <2>2, <2>3 DEF ConnectionRows
  <2>6. conn' \in [Connections -> ConnectionRows]
    BY <1>1, <2>1, <2>3, <2>4
  <2>7. \A d \in Connections : /\ conn'[d].token = conn[d].token /\ conn'[d].disconnected = conn[d].disconnected
                               /\ conn'[d].status = "NONE" <=> conn[d].status = "NONE"
    BY <2>2, <2>3, <2>5
  <2> QED
    BY <1>1, <2>1, <2>6, <2>7, GoIInv
<1>4. CASE RefreshDies(r)
  <2>1. Goto(r, "done") /\ conn' = conn
    BY <1>4 DEF RefreshDies
  <2>2. CASE refresh[r].stage # "write"
    <3>1. grant' = grant
      BY <1>4, <2>2 DEF RefreshDies
    <3> QED
      BY <1>1, <2>1, <2>2, <3>1, GoIInv
  <2>3. CASE refresh[r].stage = "write"
    <3> DEFINE g == refresh[r].token.grant
    <3>1. grant' = [grant EXCEPT ![g].lost = TRUE] /\ g \in Callbacks
      BY <1>1, <1>4, <2>3 DEF RefreshDies, IInv, RefreshInv, Home, Tokens
    <3>2. /\ grant' \in [Callbacks -> Grants] /\ grant'[g].lost
          /\ \A k \in Callbacks : /\ grant'[k].current = grant[k].current /\ grant'[k].status = grant[k].status
                                  /\ grant[k].lost => grant'[k].lost
      BY <3>1, LostFacts DEF IInv
    <3> QED
      BY <1>1, <2>1, <3>2, GoIInv
  <2> QED
    BY <2>2, <2>3
<1> QED
  BY <1>2, <1>3, <1>4

(* What is read of a connected row is what its home says. *)
LEMMA OpenIInv ==
  ASSUME IInv, NEW r \in Refreshers, NEW c \in Connections, Open(r, c)
  PROVE  IInv'
<1>1. /\ refresh[r].stage = "idle" /\ Live(c) /\ conn[c].token # NoToken
      /\ UNCHANGED <<rotates, conn, account, flow, grant, callback, disconnect>>
  BY DEF Open
<1>2. PICK stage \in {"call", "use"} :
        refresh' = [refresh EXCEPT ![r] = [stage |-> stage, connection |-> c,
                                           token |-> conn[c].token, seen |-> conn[c].refreshed]]
  BY DEF Open
<1>3. Home(conn[c].token, c) /\ conn[c].token \in Tokens /\ conn[c].refreshed \in Nat
  BY <1>1 DEF IInv, TypeOK, ConnectionRows, RowInv, Home
<1>4. /\ refresh' \in [Refreshers -> RefreshStates]
      /\ refresh'[r].stage = stage /\ refresh'[r].connection = c /\ refresh'[r].token = conn[c].token
      /\ \A s \in Refreshers : s # r => refresh'[s] = refresh[s]
  BY <1>2, <1>3 DEF IInv, TypeOK, RefreshStates
<1>5. TypeOK'
  BY <1>1, <1>4 DEF IInv, TypeOK
<1>6. FlowInv' /\ GrantInv'
  BY <1>1, CallbacksKept DEF IInv, GrantInv
<1>7. \A t, d : Home(t, d) => Home(t, d)'
  BY <1>1 DEF Home, GrantOf
<1>8. RowInv'
  BY <1>1, <1>7 DEF IInv, RowInv, Live
<1>9. RefreshInv'
  <2> SUFFICES ASSUME NEW s \in Refreshers, Active(s)'
               PROVE  /\ refresh'[s].connection \in Connections /\ conn'[refresh'[s].connection].status # "NONE"
                      /\ Home(refresh[s].token, refresh[s].connection)'
    BY DEF RefreshInv, Home
  <2>1. CASE s = r
    BY <1>1, <1>3, <1>4, <2>1 DEF Home, Live, GrantOf
  <2>2. CASE s # r
    BY <1>1, <1>4, <2>2 DEF IInv, RefreshInv, Active, Home, GrantOf
  <2> QED
    BY <2>1, <2>2
<1>10. RotationInv'
  <2>1. \A s \in Refreshers : refresh'[s].stage = "write" <=> refresh[s].stage = "write" /\ s # r
    BY <1>1, <1>4
  <2>2. RotationIsKept'
    <3> SUFFICES ASSUME NEW d \in Connections, conn[d].token # NoToken
                 PROVE  \/ grant[conn[d].token.grant].current = conn[d].token.n
                        \/ grant[conn[d].token.grant].lost
                        \/ \E s \in Refreshers :
                             /\ refresh'[s].stage = "write" /\ refresh'[s].connection = d
                             /\ refresh'[s].token = [conn[d].token EXCEPT !.n = grant[conn[d].token.grant].current]
      BY <1>1 DEF RotationIsKept, GrantOf
    <3>1. ASSUME NEW s \in Refreshers, refresh[s].stage = "write" PROVE refresh'[s] = refresh[s]
      BY <1>1, <1>4, <3>1
    <3> QED
      BY <3>1 DEF IInv, RotationInv, RotationIsKept, GrantOf
  <2>3. ASSUME NEW s \in Refreshers, refresh'[s].stage = "write"
        PROVE  /\ refresh'[s].token.n = grant'[refresh'[s].token.grant].current
               /\ rotates' => Newest(s)'
    <3>1. s # r /\ refresh'[s] = refresh[s] /\ refresh[s].stage = "write"
      BY <1>4, <2>1, <2>3
    <3>2. refresh[s].token.n = grant[refresh[s].token.grant].current /\ (rotates => Newest(s))
      BY <3>1 DEF IInv, RotationInv, GrantOf
    <3>3. ASSUME Newest(s) PROVE Newest(s)'
      <4>1. ASSUME NEW q \in Refreshers, q # s, Active(q)', refresh'[q].token.grant = refresh[s].token.grant
            PROVE  refresh'[q].token.n < grant[refresh[s].token.grant].current
        <5>1. CASE q = r
          BY <1>1, <1>4, <3>3, <4>1, <5>1 DEF Newest, GrantOf
        <5>2. CASE q # r
          BY <1>4, <3>3, <4>1, <5>2 DEF Newest, GrantOf, Active
        <5> QED
          BY <5>1, <5>2
      <4> QED
        BY <1>1, <3>1, <3>3, <4>1 DEF Newest, GrantOf
    <3> QED
      BY <1>1, <3>1, <3>2, <3>3
  <2> QED
    BY <1>1, <2>2, <2>3 DEF IInv, RotationInv, GrantOf
<1> QED
  BY <1>5, <1>6, <1>8, <1>9, <1>10 DEF IInv

(* Where tokens do not rotate the answer carries the same token. *)
LEMMA KeptIInv ==
  ASSUME IInv, NEW r \in Refreshers, refresh[r].stage = "call", Good(refresh[r].token), ~rotates,
         Goto(r, "write"), UNCHANGED <<rotates, conn, account, flow, grant, callback, disconnect>>
  PROVE  IInv'
<1>1. /\ refresh' \in [Refreshers -> RefreshStates]
      /\ refresh'[r].stage = "write" /\ refresh'[r].connection = refresh[r].connection
      /\ refresh'[r].token = refresh[r].token
      /\ \A s \in Refreshers : s # r => refresh'[s] = refresh[s]
  BY GotoFacts DEF IInv
<1>2. TypeOK'
  BY <1>1 DEF IInv, TypeOK
<1>3. FlowInv' /\ GrantInv'
  BY CallbacksKept DEF IInv, GrantInv
<1>4. \A t, d : Home(t, d) => Home(t, d)'
  BY DEF Home, GrantOf
<1>5. RowInv'
  BY <1>4 DEF IInv, RowInv, Live
<1>6. RefreshInv'
  <2> SUFFICES ASSUME NEW s \in Refreshers, Active(s)'
               PROVE  /\ refresh'[s].connection \in Connections /\ conn'[refresh'[s].connection].status # "NONE"
                      /\ Home(refresh[s].token, refresh[s].connection)'
    BY DEF RefreshInv, Home
  <2>1. Active(s) /\ refresh'[s].connection = refresh[s].connection /\ refresh'[s].token = refresh[s].token
    BY <1>1 DEF Active
  <2> QED
    BY <2>1 DEF IInv, RefreshInv, Home, GrantOf
<1>7. RotationInv'
  <2>1. \A k \in Callbacks : grant[k].current = 0
    BY DEF IInv, RotationInv
  <2>2. RotationIsKept'
    <3> SUFFICES ASSUME NEW c \in Connections, conn[c].token # NoToken
                 PROVE  grant[conn[c].token.grant].current = conn[c].token.n
      BY DEF RotationIsKept, GrantOf
    <3>1. conn[c].token.grant \in Callbacks /\ conn[c].token.n \in Nat
          /\ conn[c].token.n <= grant[conn[c].token.grant].current
      BY DEF IInv, RowInv, Home, Tokens, GrantOf
    <3> QED
      BY <2>1, <3>1
  <2>3. \A s \in Refreshers : refresh'[s].stage = "write" => refresh'[s].token.n = grant[refresh'[s].token.grant].current
    BY <1>1 DEF IInv, RotationInv, Good, GrantOf
  <2> QED
    BY <2>1, <2>2, <2>3 DEF RotationInv, GrantOf
<1> QED
  BY <1>2, <1>3, <1>5, <1>6, <1>7 DEF IInv

(* Where they rotate it carries the only good one, whether it is received or *)
(* lost: nobody else was about to write one of the same grant.               *)
LEMMA RotatedIInv ==
  ASSUME IInv, NEW r \in Refreshers, refresh[r].stage = "call", Good(refresh[r].token), rotates,
         refresh[r].token.n < MaxRotations,
         \/ /\ grant' = [grant EXCEPT ![refresh[r].token.grant].current = @ + 1]
            /\ refresh' = [refresh EXCEPT ![r].stage = "write", ![r].token.n = @ + 1]
         \/ /\ grant' = [grant EXCEPT ![refresh[r].token.grant].current = @ + 1,
                                      ![refresh[r].token.grant].lost = TRUE]
            /\ Goto(r, "done"),
         UNCHANGED <<rotates, conn, account, flow, callback, disconnect>>
  PROVE  IInv'
<1> DEFINE t == refresh[r].token
           g == t.grant
<1>1. Active(r) /\ Home(t, refresh[r].connection) /\ t \in Tokens /\ g \in Callbacks /\ refresh[r] \in RefreshStates
      /\ t.n \in 0 .. MaxRotations /\ t.n = grant[g].current /\ grant[g] \in Grants
  BY DEF IInv, TypeOK, RefreshInv, Active, Home, Tokens, Good, GrantOf
<1>2. /\ grant' \in [Callbacks -> Grants] /\ grant'[g].current = grant[g].current + 1
      /\ grant'[g].status = grant[g].status
      /\ \A k \in Callbacks : k # g => grant'[k] = grant[k]
  <2>1. /\ grant[g].current + 1 \in 0 .. MaxRotations
    BY <1>1, ConnectionConstants
  <2>2. CASE grant' = [grant EXCEPT ![g].current = @ + 1]
    <3>1. grant'[g] = [grant[g] EXCEPT !.current = grant[g].current + 1]
          /\ \A k \in Callbacks : k # g => grant'[k] = grant[k]
      BY <1>1, <2>2 DEF IInv, TypeOK
    <3>2. [grant[g] EXCEPT !.current = grant[g].current + 1] \in Grants
      BY <1>1, <2>1 DEF Grants
    <3>3. grant'[g].current = grant[g].current + 1 /\ grant'[g].status = grant[g].status
      BY <1>1, <3>1 DEF Grants
    <3> QED
      BY <2>2, <3>1, <3>2, <3>3 DEF IInv, TypeOK
  <2>3. CASE grant' = [grant EXCEPT ![g].current = @ + 1, ![g].lost = TRUE]
    <3>1. grant'[g] = [grant[g] EXCEPT !.current = grant[g].current + 1, !.lost = TRUE]
          /\ \A k \in Callbacks : k # g => grant'[k] = grant[k]
      BY <1>1, <2>3 DEF IInv, TypeOK
    <3>2. [grant[g] EXCEPT !.current = grant[g].current + 1, !.lost = TRUE] \in Grants
      BY <1>1, <2>1 DEF Grants
    <3>3. grant'[g].current = grant[g].current + 1 /\ grant'[g].status = grant[g].status
      BY <1>1, <3>1 DEF Grants
    <3> QED
      BY <2>3, <3>1, <3>2, <3>3 DEF IInv, TypeOK
  <2> QED
    BY <2>2, <2>3
<1>3. /\ refresh' \in [Refreshers -> RefreshStates]
      /\ refresh'[r].connection = refresh[r].connection
      /\ refresh'[r].stage = "write" => refresh'[r].token = [grant |-> g, n |-> grant[g].current + 1]
      /\ refresh'[r].stage = "done" => grant'[g].lost
      /\ refresh'[r].stage \in {"write", "done"}
      /\ \A s \in Refreshers : s # r => refresh'[s] = refresh[s]
  <2>1. CASE /\ grant' = [grant EXCEPT ![g].current = @ + 1, ![g].lost = TRUE]
             /\ Goto(r, "done")
    <3>1. grant'[g] = [grant[g] EXCEPT !.current = grant[g].current + 1, !.lost = TRUE]
      BY <1>1, <2>1 DEF IInv, TypeOK
    <3>2. grant'[g].lost
      BY <1>1, <3>1 DEF Grants
    <3> QED
      BY <2>1, <3>2, GotoFacts DEF IInv
  <2>2. CASE refresh' = [refresh EXCEPT ![r].stage = "write", ![r].token.n = @ + 1]
    <3> DEFINE u == [grant |-> g, n |-> grant[g].current + 1]
    <3>1. [t EXCEPT !.n = t.n + 1] = u /\ u \in Tokens
      BY <1>1, ConnectionConstants DEF Tokens
    <3>2. refresh'[r] = [refresh[r] EXCEPT !.stage = "write", !.token = [t EXCEPT !.n = t.n + 1]]
          /\ \A s \in Refreshers : s # r => refresh'[s] = refresh[s]
      BY <2>2 DEF IInv, TypeOK, RefreshStates
    <3> HIDE DEF u, t
    <3>3. [refresh[r] EXCEPT !.stage = "write", !.token = u] \in RefreshStates
      BY <1>1, <3>1 DEF RefreshStates
    <3>4. refresh'[r].stage = "write" /\ refresh'[r].connection = refresh[r].connection /\ refresh'[r].token = u
      BY <1>1, <3>1, <3>2 DEF RefreshStates
    <3>5. refresh' \in [Refreshers -> RefreshStates]
      BY <2>2, <3>1, <3>2, <3>3 DEF IInv, TypeOK
    <3> QED
      BY <3>2, <3>4, <3>5 DEF u
  <2> QED
    BY <2>1, <2>2
<1>4. TypeOK'
  BY <1>2, <1>3 DEF IInv, TypeOK
<1>5. \A k \in Callbacks : grant'[k].status = grant[k].status /\ grant[k].current <= grant'[k].current
  BY <1>1, <1>2 DEF IInv, TypeOK, Grants
<1>6. FlowInv'
  BY <1>5, CallbacksKept
<1>7. GrantInv'
  BY <1>1, <1>2 DEF IInv, GrantInv, Home
<1>8. \A u, d : Home(u, d) => Home(u, d)'
  <2> SUFFICES ASSUME NEW u, NEW d, Home(u, d) PROVE Home(u, d)'
    OBVIOUS
  <2>1. u.grant \in Callbacks /\ u.n \in Nat /\ grant[u.grant].current \in Nat /\ grant'[u.grant].current \in Nat
    BY <1>2 DEF Home, Tokens, IInv, TypeOK, Grants
  <2> QED
    BY <1>5, <2>1 DEF Home, GrantOf
<1>9. RowInv'
  BY <1>8 DEF IInv, RowInv, Live
<1>10. \A u, d : Home(u, d) => u.grant \in Callbacks /\ u.n \in Nat /\ u.n <= grant[u.grant].current
  BY DEF Home, Tokens, GrantOf
<1>11. \A s \in Refreshers : refresh[s].stage = "write" => refresh[s].token.grant # g /\ s # r
  BY <1>1 DEF IInv, RotationInv, Newest, GrantOf
<1>12. RefreshInv'
  <2> SUFFICES ASSUME NEW s \in Refreshers, Active(s)'
               PROVE  /\ refresh'[s].connection \in Connections /\ conn'[refresh'[s].connection].status # "NONE"
                      /\ Home(refresh[s].token, refresh[s].connection)'
    BY DEF RefreshInv, Home
  <2>1. CASE s # r
    <3>1. Active(s) /\ refresh'[s] = refresh[s]
      BY <1>3, <2>1 DEF Active
    <3>2. Home(refresh[s].token, refresh[s].connection) /\ refresh[s].connection \in Connections
          /\ conn[refresh[s].connection].status # "NONE"
      BY <3>1 DEF IInv, RefreshInv
    <3> QED
      BY <1>8, <3>1, <3>2 DEF Home
  <2>2. CASE s = r
    <3>1. refresh'[r].stage = "write" /\ refresh'[r].token = [grant |-> g, n |-> grant[g].current + 1]
      BY <1>3, <2>2 DEF Active
    <3>2. [grant |-> g, n |-> grant[g].current + 1] \in Tokens
      BY <1>1, ConnectionConstants DEF Tokens
    <3> QED
      BY <1>1, <1>2, <1>3, <2>2, <3>1, <3>2 DEF Home, GrantOf, IInv, RefreshInv
  <2> QED
    BY <2>1, <2>2
<1>13. RotationIsKept'
  <2> SUFFICES ASSUME NEW c \in Connections, conn[c].token # NoToken
               PROVE  \/ grant'[conn[c].token.grant].current = conn[c].token.n
                      \/ grant'[conn[c].token.grant].lost
                      \/ \E s \in Refreshers :
                           /\ refresh'[s].stage = "write" /\ refresh'[s].connection = c
                           /\ refresh'[s].token = [conn[c].token EXCEPT !.n = grant'[conn[c].token.grant].current]
    BY DEF RotationIsKept, GrantOf
  <2>1. Home(conn[c].token, c) /\ conn[c].token \in Tokens /\ conn[c].token.grant \in Callbacks
    BY DEF IInv, RowInv, Home, Tokens
  <2>2. CASE conn[c].token.grant = g
    <3>1. c = refresh[r].connection
      BY <1>1, <2>1, <2>2 DEF Home
    <3>2. [conn[c].token EXCEPT !.n = grant'[g].current] = [grant |-> g, n |-> grant[g].current + 1]
      BY <1>2, <2>1, <2>2 DEF Tokens
    <3> QED
      BY <1>3, <2>2, <3>1, <3>2
  <2>3. CASE conn[c].token.grant # g
    <3>1. grant'[conn[c].token.grant] = grant[conn[c].token.grant]
      BY <1>2, <2>1, <2>3
    <3>2. ASSUME NEW s \in Refreshers, refresh[s].stage = "write" PROVE refresh'[s] = refresh[s]
      BY <1>3, <1>11, <3>2
    <3> QED
      BY <3>1, <3>2 DEF IInv, RotationInv, RotationIsKept, GrantOf
  <2> QED
    BY <2>2, <2>3
<1>14. ASSUME NEW s \in Refreshers, refresh'[s].stage = "write"
       PROVE  /\ refresh'[s].token.n = grant'[refresh'[s].token.grant].current
              /\ Newest(s)'
  <2>1. CASE s = r
    <3>1. refresh'[s].token = [grant |-> g, n |-> grant[g].current + 1]
      BY <1>3, <1>14, <2>1
    <3>2. \A c \in Connections : conn[c].token # NoToken /\ conn[c].token.grant = g =>
            conn[c].token.n < grant[g].current + 1
      BY <1>1, <1>10 DEF IInv, RowInv, Grants
    <3>3. \A q \in Refreshers : q # s /\ Active(q)' /\ refresh'[q].token.grant = g =>
            refresh'[q].token.n < grant[g].current + 1
      <4> SUFFICES ASSUME NEW q \in Refreshers, q # s, Active(q)', refresh'[q].token.grant = g
                   PROVE  refresh'[q].token.n < grant[g].current + 1
        OBVIOUS
      <4>1. Active(q) /\ refresh'[q] = refresh[q]
        BY <1>3, <2>1 DEF Active
      <4>2. refresh[q].token.n \in Nat /\ refresh[q].token.n <= grant[g].current
        BY <1>10, <4>1 DEF IInv, RefreshInv
      <4> QED
        BY <1>1, <4>1, <4>2 DEF Grants
    <3> QED
      BY <1>2, <3>1, <3>2, <3>3 DEF Newest, GrantOf
  <2>2. CASE s # r
    <3>1. refresh'[s] = refresh[s] /\ refresh[s].stage = "write" /\ refresh[s].token.grant # g
          /\ refresh[s].token.grant \in Callbacks
      BY <1>3, <1>11, <1>14, <2>2 DEF IInv, RefreshInv, Active, Home, Tokens
    <3>2. grant'[refresh[s].token.grant] = grant[refresh[s].token.grant]
      BY <1>2, <3>1
    <3>3. refresh[s].token.n = grant[refresh[s].token.grant].current /\ Newest(s)
      BY <3>1 DEF IInv, RotationInv, GrantOf
    <3>4. \A q \in Refreshers : q # s /\ Active(q)' /\ refresh'[q].token.grant = refresh[s].token.grant =>
            refresh'[q].token.n < grant[refresh[s].token.grant].current
      <4> SUFFICES ASSUME NEW q \in Refreshers, q # s, Active(q)', refresh'[q].token.grant = refresh[s].token.grant
                   PROVE  refresh'[q].token.n < grant[refresh[s].token.grant].current
        OBVIOUS
      <4>1. q # r
        <5>1. CASE q = r
          <6>1. refresh'[r].stage = "write" /\ refresh'[r].token.grant = g
            BY <1>3, <5>1 DEF Active
          <6> QED
            BY <3>1, <5>1, <6>1
        <5> QED
          BY <5>1
      <4> QED
        BY <1>3, <3>3, <4>1 DEF Newest, GrantOf, Active
    <3> QED
      BY <3>1, <3>2, <3>3, <3>4 DEF Newest, GrantOf
  <2> QED
    BY <2>1, <2>2
<1>15. RotationInv'
  BY <1>13, <1>14 DEF RotationInv, GrantOf
<1> QED
  BY <1>4, <1>6, <1>7, <1>9, <1>12, <1>15 DEF IInv

LEMMA CallIInv ==
  ASSUME IInv, NEW r \in Refreshers, Call(r)
  PROVE  IInv'
<1>1. /\ refresh[r].stage = "call" /\ Active(r)
      /\ UNCHANGED <<rotates, conn, account, flow, callback, disconnect>>
      /\ conn \in [Connections -> ConnectionRows] /\ grant \in [Callbacks -> Grants]
  BY DEF Call, Active, IInv, TypeOK
<1>2. CASE /\ Good(refresh[r].token) /\ rotates /\ refresh[r].token.n < MaxRotations
           /\ \/ /\ Rotate(refresh[r].token.grant)
                 /\ refresh' = [refresh EXCEPT ![r].stage = "write", ![r].token.n = @ + 1]
              \/ /\ grant' = [grant EXCEPT ![refresh[r].token.grant].current = @ + 1,
                                           ![refresh[r].token.grant].lost = TRUE]
                 /\ Goto(r, "done")
  BY <1>1, <1>2, RotatedIInv DEF Rotate
<1>3. CASE Good(refresh[r].token) /\ ~rotates /\ Goto(r, "write") /\ UNCHANGED grant
  BY <1>1, <1>3, KeptIInv
<1>4. CASE /\ UNCHANGED grant
           /\ \/ Goto(r, "done") 
              \/ ~Good(refresh[r].token) /\ Goto(r, IF r \in ByApi THEN "reauth" ELSE "reread")
  <2>1. PICK stage \in {"reread", "reauth", "done"} : Goto(r, stage)
    BY <1>4
  <2> QED
    BY <1>1, <1>4, <2>1, GoIInv
<1> QED
  BY <1>2, <1>3, <1>4 DEF Call

(* What is written is the only good token. *)
LEMMA WriteIInv ==
  ASSUME IInv, NEW r \in Refreshers, Write(r)
  PROVE  IInv'
<1> DEFINE c == refresh[r].connection
           t == refresh[r].token
<1>1. refresh[r].stage = "write" /\ Active(r) /\ UNCHANGED <<rotates, account, flow, grant, callback, disconnect>>
  BY DEF Write, Active
<1>2. c \in Connections /\ conn[c].status # "NONE" /\ Home(t, c) /\ t \in Tokens /\ t # NoToken
      /\ conn[c] \in ConnectionRows
  BY <1>1, ConnectionConstants DEF IInv, TypeOK, RefreshInv, Home, Tokens
<1>3. t.n = grant[t.grant].current /\ (rotates => Newest(r))
  BY <1>1 DEF IInv, RotationInv, GrantOf
<1>4. /\ conn' \in [Connections -> ConnectionRows] /\ conn'[c].status = "CONNECTED"
      /\ conn'[c].token = t /\ conn'[c].disconnected = conn[c].disconnected
      /\ \A d \in Connections : d # c => conn'[d] = conn[d]
  <2>1. conn[c].refreshed + 1 \in Nat
    BY <1>2 DEF ConnectionRows
  <2> DEFINE row == [conn[c] EXCEPT !.status = "CONNECTED", !.token = t, !.refreshed = conn[c].refreshed + 1]
  <2>2. conn' = [conn EXCEPT ![c] = row] /\ conn'[c] = row
    BY <1>2 DEF Write, IInv, TypeOK
  <2>3. row \in ConnectionRows
    BY <1>2, <2>1 DEF ConnectionRows
  <2>4. row.status = "CONNECTED" /\ row.token = t /\ row.disconnected = conn[c].disconnected
    BY <1>2 DEF ConnectionRows
  <2> HIDE DEF row
  <2> QED
    BY <1>2, <2>2, <2>3, <2>4 DEF IInv, TypeOK
<1>5. PICK stage \in {"use", "done"} : Goto(r, stage)
  BY DEF Write
<1>6. /\ refresh' \in [Refreshers -> RefreshStates]
      /\ refresh'[r].stage = stage /\ refresh'[r].connection = c /\ refresh'[r].token = t
      /\ \A s \in Refreshers : s # r => refresh'[s] = refresh[s]
  BY <1>5, GotoFacts DEF IInv
<1>7. \A s \in Refreshers : /\ Active(s)' => Active(s)
                            /\ refresh'[s].connection = refresh[s].connection /\ refresh'[s].token = refresh[s].token
                            /\ refresh'[s].stage = "write" => s # r /\ refresh[s].stage = "write"
  BY <1>1, <1>6 DEF Active
<1>8. TypeOK'
  BY <1>1, <1>4, <1>6 DEF IInv, TypeOK
<1>9. FlowInv' /\ GrantInv'
  BY <1>1, CallbacksKept DEF IInv, GrantInv
<1>10. \A u, d : Home(u, d) => Home(u, d)'
  BY <1>1 DEF Home, GrantOf
<1>11. RowInv'
  BY <1>2, <1>4, <1>10 DEF IInv, RowInv, Live
<1>12. RefreshInv'
  <2> SUFFICES ASSUME NEW s \in Refreshers, Active(s)'
               PROVE  /\ refresh'[s].connection \in Connections /\ conn'[refresh'[s].connection].status # "NONE"
                      /\ Home(refresh[s].token, refresh[s].connection)'
    BY DEF RefreshInv, Home
  <2>1. /\ refresh[s].connection \in Connections /\ conn[refresh[s].connection].status # "NONE"
        /\ Home(refresh[s].token, refresh[s].connection)
    BY <1>7 DEF IInv, RefreshInv
  <2> QED
    BY <1>1, <1>4, <1>7, <2>1 DEF Home, GrantOf
<1>13. RotationIsKept'
  <2> SUFFICES ASSUME NEW d \in Connections, conn'[d].token # NoToken
               PROVE  \/ grant[conn'[d].token.grant].current = conn'[d].token.n
                      \/ grant[conn'[d].token.grant].lost
                      \/ \E s \in Refreshers :
                           /\ refresh'[s].stage = "write" /\ refresh'[s].connection = d
                           /\ refresh'[s].token = [conn'[d].token EXCEPT !.n = grant[conn'[d].token.grant].current]
    BY <1>1 DEF RotationIsKept, GrantOf
  <2>1. CASE d = c
    <3>1. conn'[d].token = t /\ grant[t.grant].current = t.n
      BY <1>3, <1>4, <2>1
    <3> QED
      BY <3>1
  <2>2. CASE d # c
    <3>1. ASSUME NEW s \in Refreshers, refresh[s].connection = d PROVE refresh'[s] = refresh[s]
      BY <1>6, <2>2, <3>1
    <3>2. conn'[d] = conn[d]
      BY <1>4, <2>2
    <3> DEFINE due == [conn[d].token EXCEPT !.n = grant[conn[d].token.grant].current]
    <3>3. \/ grant[conn[d].token.grant].current = conn[d].token.n
          \/ grant[conn[d].token.grant].lost
          \/ \E s \in Refreshers : refresh[s].stage = "write" /\ refresh[s].connection = d /\ refresh[s].token = due
      BY <3>2 DEF IInv, RotationInv, RotationIsKept, GrantOf
    <3> HIDE DEF due
    <3>4. \/ grant[conn[d].token.grant].current = conn[d].token.n
          \/ grant[conn[d].token.grant].lost
          \/ \E s \in Refreshers : refresh'[s].stage = "write" /\ refresh'[s].connection = d /\ refresh'[s].token = due
      BY <3>1, <3>3
    <3> QED
      BY <3>2, <3>4 DEF due
  <2> QED
    BY <2>1, <2>2
<1>14. ASSUME NEW s \in Refreshers, refresh'[s].stage = "write"
       PROVE  /\ refresh'[s].token.n = grant'[refresh'[s].token.grant].current
              /\ rotates' => Newest(s)'
  <2>1. s # r /\ refresh'[s] = refresh[s] /\ refresh[s].stage = "write" 
    BY <1>6, <1>7, <1>14
  <2>2. refresh[s].token.n = grant[refresh[s].token.grant].current /\ (rotates => Newest(s))
    BY <2>1 DEF IInv, RotationInv, GrantOf
  <2>3. ASSUME Newest(s) PROVE Newest(s)'
    <3>1. \A d \in Connections : conn'[d].token # NoToken /\ conn'[d].token.grant = refresh[s].token.grant =>
            conn'[d].token.n < grant[refresh[s].token.grant].current
      BY <1>1, <1>4, <2>1, <2>3 DEF Newest, GrantOf
    <3> QED
      BY <1>1, <1>7, <2>1, <2>3, <3>1 DEF Newest, GrantOf
  <2> QED
    BY <1>1, <2>1, <2>2, <2>3
<1>15. RotationInv'
  BY <1>1, <1>13, <1>14 DEF IInv, RotationInv, GrantOf
<1> QED
  BY <1>8, <1>9, <1>11, <1>12, <1>15 DEF IInv

-----------------------------------------------------------------------------
(* Disconnecting *)

(* A purge takes the row's token. *)
LEMMA PurgeIInv ==
  ASSUME IInv, NEW c \in Connections, Purge(c)
  PROVE  IInv'
<1>1. /\ UNCHANGED <<rotates, flow, grant, callback, refresh>>
      /\ account' = [x \in Accounts |-> IF account[x] = c THEN NoConnection ELSE account[x]]
  BY DEF Purge
<1>2. /\ conn' \in [Connections -> ConnectionRows]
      /\ conn'[c].status = "REVOKED" /\ conn'[c].token = NoToken /\ conn'[c].disconnected
      /\ \A d \in Connections : d # c => conn'[d] = conn[d]
  <2>1. conn[c] \in ConnectionRows
    BY DEF IInv, TypeOK
  <2> DEFINE row == [conn[c] EXCEPT !.status = "REVOKED", !.token = NoToken, !.disconnected = TRUE]
  <2>2. conn' = [conn EXCEPT ![c] = row] /\ conn'[c] = row
    BY DEF Purge, IInv, TypeOK
  <2>3. row \in ConnectionRows
    BY <2>1 DEF ConnectionRows
  <2>4. row.status = "REVOKED" /\ row.token = NoToken
    BY <2>1 DEF ConnectionRows
  <2>5. row.disconnected
    BY <2>1 DEF ConnectionRows
  <2> HIDE DEF row
  <2> QED
    BY <2>2, <2>3, <2>4, <2>5 DEF IInv, TypeOK
<1>3. TypeOK'
  BY <1>1, <1>2 DEF IInv, TypeOK, Purge
<1>4. FlowInv' /\ GrantInv'
  BY <1>1, CallbacksKept DEF IInv, GrantInv
<1>5. \A u, d : Home(u, d) => Home(u, d)'
  BY <1>1 DEF Home, GrantOf
<1>6. RowInv'
  BY <1>2, <1>5 DEF IInv, RowInv, Live
<1>7. RefreshInv'
  BY <1>1, <1>2, <1>5 DEF IInv, RefreshInv, Active
<1>8. RotationIsKept'
  BY <1>1, <1>2 DEF IInv, RotationInv, RotationIsKept, GrantOf
<1>9. \A s \in Refreshers : Newest(s) => Newest(s)'
  BY <1>1, <1>2 DEF Newest, GrantOf, Active
<1>10. RotationInv'
  BY <1>1, <1>8, <1>9 DEF IInv, RotationInv, GrantOf
<1> QED
  BY <1>3, <1>4, <1>6, <1>7, <1>10 DEF IInv

-----------------------------------------------------------------------------
(* Nothing happens. *)
LEMMA StutterIInv == IInv /\ UNCHANGED vars => IInv'
<1> SUFFICES ASSUME IInv, UNCHANGED vars PROVE IInv'
  OBVIOUS
<1>1. UNCHANGED <<rotates, conn, account, flow, grant, callback, refresh, disconnect>>
  BY DEF vars
<1>2. FlowInv'
  BY <1>1, CallbacksKept
<1> QED
  BY <1>1, <1>2, CallbackStep DEF IInv, TypeOK

THEOREM Invariance == Spec => []IInv
<1>1. ASSUME IInv, [Next]_vars PROVE IInv'
  <2>1. ASSUME NEW f \in Flows, Begin(f) \/ Expire(f) PROVE IInv'
    BY <1>1, <2>1, FlowIInv
  <2>2. ASSUME NEW k \in Callbacks,
               \/ Arrive(k) \/ Consume(k) \/ RejectExpired(k) \/ Fail(k) \/ Exchange(k)
               \/ FindExisting(k) \/ StoreGrant(k) \/ Discover(k) \/ CallbackDies(k) \/ Withdraw(k)
        PROVE  IInv'
    BY <1>1, <2>2, ArriveIInv, ConsumeIInv, CloseIInv, GrantIInv, FindIInv, StoreIInv, DiscoverIInv
  <2>3. ASSUME NEW r \in Refreshers,
               Call(r) \/ Write(r) \/ Reread(r) \/ Reauth(r) \/ Use(r) \/ RefreshDies(r)
        PROVE  IInv'
    BY <1>1, <2>3, CallIInv, WriteIInv, StepIInv
  <2>4. ASSUME NEW r \in Refreshers, NEW c \in Connections, Open(r, c) PROVE IInv'
    BY <1>1, <2>4, OpenIInv
  <2>5. ASSUME NEW c \in Connections, Revoke(c) \/ Purge(c) PROVE IInv'
    BY <1>1, <2>5, RevokeIInv, PurgeIInv
  <2>6. CASE Quiescent \/ UNCHANGED vars
    BY <1>1, <2>6, StutterIInv DEF Quiescent
  <2> QED
    BY <1>1, <2>1, <2>2, <2>3, <2>4, <2>5, <2>6 DEF Next
<1> QED
  BY <1>1, InitIInv, PTL DEF Spec

(* Every variable keeps its shape. *)
THEOREM TypeCorrect == Spec => []TypeOK
<1>1. IInv => TypeOK
  BY DEF IInv
<1> QED
  BY <1>1, Invariance, PTL

(* However many callbacks carry a flow's state, one exchanges its code.      *)
THEOREM OneGrantPerStateAlways == Spec => []OneGrantPerState
<1>1. IInv => OneGrantPerState
  BY DEF IInv, FlowInv, OneGrantPerState, Owns
<1> QED
  BY <1>1, Invariance, PTL

(* However refreshes overlap, the stored token is the good one, or about to  *)
(* be, or the answer with it was lost.                                       *)
THEOREM RotationIsKeptAlways == Spec => []RotationIsKept
<1>1. IInv => RotationIsKept
  BY DEF IInv, RotationInv
<1> QED
  BY <1>1, Invariance, PTL

(* A flow keeps the outcome it ended with. *)
THEOREM OutcomesAreFinal == Spec => OutcomeIsFinal
<1>1. ASSUME IInv, [Next]_vars, NEW f \in Flows, flow[f].outcome # "NONE"
      PROVE  flow'[f].outcome = flow[f].outcome
  <2>1. flow[f].consumed /\ flow \in [Flows -> FlowRows]
    BY <1>1 DEF IInv, FlowInv, TypeOK
  <2>2. ASSUME NEW k \in Callbacks, callback[k].stage \in {"exchange", "store", "renew"}
        PROVE  callback[k].flow # f
    BY <1>1, <2>2 DEF IInv, FlowInv, FlowOf
  <2>3. CASE flow' = flow
    BY <2>3
  <2>4. ASSUME NEW g \in Flows, Begin(g) \/ Expire(g) PROVE flow'[f].outcome = flow[f].outcome
    BY <2>1, <2>4 DEF Begin, Expire, FlowRows
  <2>5. ASSUME NEW k \in Callbacks, Consume(k) \/ RejectExpired(k) \/ Fail(k) \/ StoreGrant(k)
        PROVE  flow'[f].outcome = flow[f].outcome
    <3>1. CASE Consume(k)
      BY <2>1, <3>1 DEF Consume, FlowRows
    <3>2. CASE RejectExpired(k)
      BY <2>1, <3>2 DEF RejectExpired, FlowOf
    <3>3. CASE Fail(k)
      BY <2>1, <2>2, <3>3 DEF Fail
    <3>4. CASE StoreGrant(k)
      BY <2>1, <2>2, <3>4 DEF StoreGrant
    <3> QED
      BY <2>5, <3>1, <3>2, <3>3, <3>4
  <2>6. \/ flow' = flow
        \/ \E g \in Flows : Begin(g) \/ Expire(g)
        \/ \E k \in Callbacks : Consume(k) \/ RejectExpired(k) \/ Fail(k) \/ StoreGrant(k)
    BY <1>1 DEF Next, vars, Arrive, Exchange, FindExisting, Discover, CallbackDies, Withdraw, Call, Write, Reread, Reauth, Use,
                RefreshDies, Open, Revoke, Purge, Quiescent
  <2> QED
    BY <2>3, <2>4, <2>5, <2>6
<1>2. IInv /\ [Next]_vars => [\A f \in Flows : flow[f].outcome # "NONE" => flow'[f].outcome = flow[f].outcome]_vars
  BY <1>1
<1> QED
  BY <1>2, Invariance, PTL DEF Spec, OutcomeIsFinal

(* A row that was purged, and that nobody read before, has no credential and *)
(* no account again.                                                         *)
THEOREM PurgedStaysAlways == Spec => PurgedStays
<1>1. ASSUME TypeOK, [Next]_vars, NEW c \in Connections, Purged(c) PROVE Purged(c)'
  <2>1. /\ conn[c].disconnected /\ conn[c].status = "REVOKED" /\ conn[c].token = NoToken /\ ~Live(c)
        /\ \A x \in Accounts : account[x] # c
        /\ \A r \in Refreshers : refresh[r].connection = c => ~Active(r)
        /\ \A k \in Callbacks : callback[k].connection = c => callback[k].stage \notin {"renew", "discover"}
    BY <1>1 DEF Purged, AtWork, Active, Live
  <2>2. /\ conn \in [Connections -> ConnectionRows] /\ account \in [Accounts -> Connections \cup {NoConnection}]
        /\ callback \in [Callbacks -> CallbackStates] /\ refresh \in [Refreshers -> RefreshStates]
    BY <1>1 DEF TypeOK
  <2>3. ASSUME UNCHANGED <<conn, account, refresh>>,
               \A k \in Callbacks : callback'[k].connection = c =>
                 \/ callback'[k].stage \notin {"renew", "discover"}
                 \/ callback'[k] = callback[k]
        PROVE  Purged(c)'
    BY <1>1, <2>3 DEF Purged, AtWork
  <2>4. ASSUME UNCHANGED <<account, callback>>, conn'[c] = conn[c],
               \A r \in Refreshers : Active(r)' /\ refresh'[r].connection = c => refresh'[r] = refresh[r]
        PROVE  Purged(c)'
    BY <1>1, <2>1, <2>4 DEF Purged, AtWork, Active
  <2>5. ASSUME NEW k \in Callbacks, NEW stage \in {"arrived", "expired", "exchange", "store", "done"},
               UNCHANGED <<conn, account, refresh>>, At(k, stage)
        PROVE  Purged(c)'
    BY <1>1, <2>3, <2>5, AtFacts
  <2>6. ASSUME NEW k \in Callbacks, Consume(k) \/ RejectExpired(k) \/ Fail(k) \/ Exchange(k) \/ CallbackDies(k)
        PROVE  Purged(c)'
    <3>1. UNCHANGED <<conn, account, refresh>>
          /\ \E stage \in {"expired", "exchange", "store", "done"} : At(k, stage)
      BY <2>6 DEF Consume, RejectExpired, Fail, Exchange, CallbackDies
    <3> QED
      BY <2>5, <3>1
  <2>7. ASSUME NEW k \in Callbacks, Arrive(k) PROVE Purged(c)'
    <3>1. /\ callback'[k].stage = "arrived" /\ \A j \in Callbacks : j # k => callback'[j] = callback[j]
          /\ UNCHANGED <<conn, account, refresh>>
      BY <2>2, <2>7 DEF Arrive, CallbackStates
    <3> QED
      BY <2>3, <3>1
  <2>8. ASSUME NEW k \in Callbacks, FindExisting(k) PROVE Purged(c)'
    <3>1. /\ callback'[k].connection = Renewed(k) /\ \A j \in Callbacks : j # k => callback'[j] = callback[j]
          /\ UNCHANGED <<conn, account, refresh>>
      BY <2>2, <2>8 DEF FindExisting, CallbackStates
    <3>2. Renewed(k) # c
      BY <2>1, ConnectionConstants DEF Renewed
    <3> QED
      BY <2>3, <3>1, <3>2
  <2>9. ASSUME NEW k \in Callbacks, StoreGrant(k) PROVE Purged(c)'
    <3>1. PICK d \in Connections :
            /\ IF callback[k].connection = NoConnection THEN conn[d].status = "NONE" ELSE d = callback[k].connection
            /\ conn' = [conn EXCEPT ![d].status = "CONNECTED", ![d].token = [grant |-> k, n |-> 0]]
            /\ callback' = [callback EXCEPT ![k].stage = "discover", ![k].connection = d]
      BY <2>9 DEF StoreGrant
    <3>2. callback[k].stage = "renew" /\ UNCHANGED <<account, refresh>>
      BY <2>9 DEF StoreGrant
    <3>3. d # c
      BY <2>1, <3>1, <3>2
    <3>4. /\ conn'[c] = conn[c] /\ callback'[k].connection = d
          /\ \A j \in Callbacks : j # k => callback'[j] = callback[j]
      BY <2>2, <3>1, <3>3 DEF CallbackStates
    <3> QED
      BY <1>1, <3>2, <3>3, <3>4 DEF Purged, AtWork
  <2>10. ASSUME NEW k \in Callbacks, Discover(k) PROVE Purged(c)'
    <3>1. callback[k].stage = "discover" /\ At(k, "done") /\ UNCHANGED <<conn, refresh>>
      BY <2>10 DEF Discover
    <3>2. callback'[k].stage = "done" /\ \A j \in Callbacks : j # k => callback'[j] = callback[j]
      BY <1>1, <3>1, AtFacts
    <3>3. callback[k].connection # c
      BY <2>1, <3>1
    <3>4. \A x \in Accounts : account'[x] # c
      BY <2>1, <2>10, <3>3, ConnectionConstants DEF Discover
    <3> QED
      BY <1>1, <3>1, <3>2, <3>4 DEF Purged, AtWork
  <2>11. ASSUME NEW r \in Refreshers, NEW d \in Connections, Open(r, d) PROVE Purged(c)'
    <3>1. /\ Live(d) /\ refresh'[r].connection = d /\ \A s \in Refreshers : s # r => refresh'[s] = refresh[s]
          /\ UNCHANGED <<conn, account, callback>>
      BY <2>2, <2>11 DEF Open
    <3> QED
      BY <2>1, <2>4, <3>1
  <2>12. ASSUME NEW r \in Refreshers, Call(r) \/ Write(r) \/ Reread(r) \/ Reauth(r) \/ Use(r) \/ RefreshDies(r)
         PROVE  Purged(c)'
    <3>1. Active(r) /\ UNCHANGED <<account, callback>>
      BY <2>12 DEF Call, Write, Reread, Reauth, Use, RefreshDies, Active
    <3>2. refresh[r].connection # c
      BY <2>1, <3>1
    <3>3. conn'[c] = conn[c]
      BY <2>2, <2>12, <3>2 DEF Call, Write, Reread, Reauth, Use, RefreshDies
    <3>4. refresh'[r].connection # c /\ \A s \in Refreshers : s # r => refresh'[s] = refresh[s]
      BY <2>2, <2>12, <3>2 DEF Call, Write, Reread, Reauth, Use, RefreshDies, Goto, RefreshStates
    <3> QED
      BY <2>4, <3>1, <3>3, <3>4
  <2>13. ASSUME NEW d \in Connections, Purge(d) PROVE Purged(c)'
    <3>1. UNCHANGED <<callback, refresh>> /\ \A x \in Accounts : account'[x] # c
      BY <2>1, <2>13, ConnectionConstants DEF Purge
    <3>2. conn'[c].disconnected /\ conn'[c].status = "REVOKED" /\ conn'[c].token = NoToken
      BY <2>1, <2>2, <2>13 DEF Purge, ConnectionRows
    <3> QED
      BY <1>1, <3>1, <3>2 DEF Purged, AtWork
  <2>14. CASE UNCHANGED <<conn, account, callback, refresh>>
    BY <2>3, <2>14
  <2> QED
    BY <1>1, <2>6, <2>7, <2>8, <2>9, <2>10, <2>11, <2>12, <2>13, <2>14
    DEF Next, vars, Quiescent, Begin, Expire, Withdraw, Revoke
<1>2. TypeOK /\ [Next]_vars => [\A c \in Connections : Purged(c) => Purged(c)']_vars
  BY <1>1
<1> QED
  BY <1>2, TypeCorrect, PTL DEF Spec, PurgedStays

=============================================================================
