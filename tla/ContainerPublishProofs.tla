----------------------- MODULE ContainerPublishProofs -----------------------
(***************************************************************************)
(* A staged publisher posts at most once, for any number of attempts and   *)
(* containers, when attempts follow each other and the ledger's row        *)
(* exists; and it implements SinglePost.                                   *)
(***************************************************************************)
EXTENDS ContainerPublish, FiniteSetTheorems, TLAPS

(* What the theorems assume: attempts of an entry do not overlap, and its    *)
(* row takes the container's id (it has the idempotency key).                *)
Sequential == Overlap = FALSE /\ Recordable = TRUE

OneRuns == \A a, b \in Attempts :
  attempt[a].stage \in Running /\ attempt[b].stage \in Running => a = b

(* What a running attempt knows of the ledger: nobody else changes it. *)
Knows(a) ==
  LET s == attempt[a].stage
  IN  /\ s \in {"check", "clear", "await", "drop", "publish"} =>
           attempt[a].container = ledger /\ ledger \in Containers
      /\ s \in {"create", "stage"} => ledger = NoContainer
      /\ s = "stage" => attempt[a].container \in Containers
      /\ s \in {"clear", "drop"} => StateOf(a) \in {"ERROR", "EXPIRED"}

PostIsRecorded == \A c \in Containers : container[c] = "PUBLISHED" => ledger = c

IInv == TypeOK /\ OneRuns /\ (\A a \in Attempts : Knows(a)) /\ PostIsRecorded

-----------------------------------------------------------------------------
(* Initially nothing runs and nothing is posted. *)
LEMMA InitIInv == Init => IInv
<1> SUFFICES ASSUME Init PROVE IInv
  OBVIOUS
<1>1. TypeOK
  BY ContainerConstants DEF Init, TypeOK, NoAttempt, Calls, Stages, Outcomes, ContainerStates
<1>2. \A a \in Attempts : attempt[a].stage = "idle"
  BY DEF Init, NoAttempt
<1>3. OneRuns /\ (\A a \in Attempts : Knows(a)) /\ PostIsRecorded
  BY <1>2 DEF Init, OneRuns, Knows, PostIsRecorded, Running
<1> QED
  BY <1>1, <1>3 DEF IInv

(* When the one running attempt takes a step, the others know nothing that   *)
(* the step could make false.                                                *)
LEMMA StepsAlone ==
  ASSUME IInv, NEW a \in Attempts, attempt[a].stage \in Running,
         \A b \in Attempts : b # a => attempt'[b] = attempt[b]
  PROVE  OneRuns' /\ \A b \in Attempts : b # a => Knows(b)'
<1>1. \A b \in Attempts : b # a => attempt'[b].stage \notin Running
  BY DEF IInv, OneRuns
<1>2. OneRuns'
  BY <1>1 DEF OneRuns
<1>3. \A b \in Attempts : b # a => Knows(b)'
  BY <1>1 DEF Knows, Running
<1> QED
  BY <1>2, <1>3

(* Moving to another stage and returning keep the type of the attempts. *)
LEMMA GotoType ==
  ASSUME TypeOK, NEW a \in Attempts, NEW stage \in Stages, Goto(a, stage)
  PROVE  attempt' \in [Attempts -> Calls]
BY DEF TypeOK, Goto, Calls

(* So does returning with any outcome. *)
LEMMA ReturnType ==
  ASSUME TypeOK, NEW a \in Attempts, NEW outcome \in Outcomes, Return(a, outcome)
  PROVE  attempt' \in [Attempts -> Calls]
BY DEF TypeOK, Return, Calls, Stages

(* An attempt starts: no other runs. *)
LEMMA StartIInv ==
  ASSUME IInv, Sequential, NEW a \in Attempts, Start(a)
  PROVE  IInv'
<1>1. TypeOK'
  BY DEF Start, Goto, IInv, TypeOK, Calls, Stages, Running
<1>2. /\ attempt'[a].stage = "find"
      /\ \A b \in Attempts : b # a => attempt'[b].stage \notin Running
  BY DEF Start, Goto, IInv, TypeOK, Sequential
<1>3. OneRuns' /\ \A b \in Attempts : Knows(b)'
  BY <1>2 DEF OneRuns, Knows, Running
<1>4. PostIsRecorded'
  BY DEF Start, IInv, PostIsRecorded
<1> QED
  BY <1>1, <1>3, <1>4 DEF IInv

(* The ledger is read. *)
LEMMA FindIInv ==
  ASSUME IInv, Sequential, NEW a \in Attempts, Find(a)
  PROVE  IInv'
<1>1. /\ attempt[a].stage \in Running
      /\ \A b \in Attempts : b # a => attempt'[b] = attempt[b]
  BY DEF Find, IInv, TypeOK, Calls, Running
<1>2. TypeOK'
  <2>1. AfterFind \in Stages
    BY DEF AfterFind, Stages, Running
  <2> QED
    BY <2>1 DEF Find, IInv, TypeOK, Calls
<1>3. Knows(a)'
  <2>1. ledger' = ledger /\ attempt'[a].container = ledger
    BY DEF Find, IInv, TypeOK, Calls
  <2>2. CASE ledger = NoContainer
    <3>1. attempt'[a].stage = "create"
      BY <2>2 DEF Find, AfterFind, IInv, TypeOK, Calls
    <3> QED
      BY <2>1, <2>2, <3>1 DEF Knows
  <2>3. CASE ledger # NoContainer
    <3>1. attempt'[a].stage \in {"check", "publish"} /\ ledger \in Containers
      BY <2>3 DEF Find, AfterFind, IInv, TypeOK, Calls
    <3> QED
      BY <2>1, <3>1 DEF Knows
  <2> QED
    BY <2>2, <2>3
<1>4. PostIsRecorded'
  BY DEF Find, IInv, TypeOK, Calls, Knows, PostIsRecorded, StateOf, Sequential
<1> QED
  BY <1>1, <1>2, <1>3, <1>4, StepsAlone DEF IInv

(* The status of a recorded container is read. *)
LEMMA CheckIInv ==
  ASSUME IInv, Sequential, NEW a \in Attempts, Check(a)
  PROVE  IInv'
<1>1. /\ attempt[a].stage \in Running
      /\ \A b \in Attempts : b # a => attempt'[b] = attempt[b]
  BY DEF Check, AfterCheck, Refusals, Return, Goto, IInv, TypeOK, Calls, Running
<1>2. TypeOK'
  <2>1. attempt' \in [Attempts -> Calls]
    BY GotoType, ReturnType DEF Check, AfterCheck, Refusals, IInv, Stages, Running, Outcomes
  <2> QED
    BY <2>1 DEF Check, IInv, TypeOK
<1>3. Knows(a)'
  BY DEF Check, AfterCheck, Refusals, Return, Goto, IInv, TypeOK, Calls, Knows, StateOf, Sequential
<1>4. PostIsRecorded'
  BY DEF Check, AfterCheck, Refusals, Return, Goto, IInv, TypeOK, Calls, Knows, PostIsRecorded, StateOf, Sequential
<1> QED
  BY <1>1, <1>2, <1>3, <1>4, StepsAlone DEF IInv

(* A dead container, which is not the post, leaves the ledger. *)
LEMMA ClearIInv ==
  ASSUME IInv, Sequential, NEW a \in Attempts, Clear(a)
  PROVE  IInv'
<1>1. /\ attempt[a].stage \in Running
      /\ \A b \in Attempts : b # a => attempt'[b] = attempt[b]
  BY DEF Clear, IInv, TypeOK, Calls, Running
<1>2. TypeOK'
  BY DEF Clear, IInv, TypeOK, Calls, Stages, Running
<1>3. Knows(a)'
  BY DEF Clear, IInv, TypeOK, Calls, Knows, StateOf, Sequential
<1>4. PostIsRecorded'
  BY DEF Clear, IInv, TypeOK, Calls, Knows, PostIsRecorded, StateOf, Sequential
<1> QED
  BY <1>1, <1>2, <1>3, <1>4, StepsAlone DEF IInv

(* A container is created; the ledger is empty, so nothing is posted. *)
LEMMA CreateIInv ==
  ASSUME IInv, Sequential, NEW a \in Attempts, Create(a)
  PROVE  IInv'
<1>1. /\ attempt[a].stage \in Running
      /\ \A b \in Attempts : b # a => attempt'[b] = attempt[b]
  BY DEF Create, CreateFails, Refusals, Return, IInv, TypeOK, Calls, Running
<1>2. TypeOK'
  <2>1. attempt' \in [Attempts -> Calls]
    BY ReturnType DEF Create, CreateFails, Refusals, IInv, TypeOK, Calls, Stages, Running, Outcomes
  <2>2. container' \in [Containers -> ContainerStates]
    BY DEF Create, CreateFails, Refusals, IInv, TypeOK, Calls, ContainerStates
  <2> QED
    BY <2>1, <2>2 DEF Create, CreateFails, Refusals, IInv, TypeOK
<1>3. Knows(a)'
  BY DEF Create, CreateFails, Refusals, Return, IInv, TypeOK, Calls, Knows, StateOf, Sequential
<1>4. PostIsRecorded'
  BY DEF Create, CreateFails, Refusals, Return, IInv, TypeOK, Calls, Knows, PostIsRecorded, StateOf, Sequential
<1> QED
  BY <1>1, <1>2, <1>3, <1>4, StepsAlone DEF IInv

(* The container is recorded. *)
LEMMA StageIInv ==
  ASSUME IInv, Sequential, NEW a \in Attempts, Stage(a)
  PROVE  IInv'
<1>1. /\ attempt[a].stage \in Running
      /\ \A b \in Attempts : b # a => attempt'[b] = attempt[b]
  BY DEF Stage, Goto, Return, IInv, TypeOK, Calls, Running
<1>2. TypeOK'
  <2>1. attempt' \in [Attempts -> Calls]
    BY DEF Stage, IInv, TypeOK, Calls, Stages, Running, Sequential
  <2>2. ledger' \in Containers \cup {NoContainer}
    BY DEF Stage, IInv, TypeOK, Calls, Sequential
  <2> QED
    BY <2>1, <2>2 DEF Stage, IInv, TypeOK
<1>3. Knows(a)'
  BY DEF Stage, Goto, Return, IInv, TypeOK, Calls, Knows, StateOf, Sequential
<1>4. PostIsRecorded'
  <2>1. \A c \in Containers : container[c] # "PUBLISHED"
    BY ContainerConstants DEF Stage, IInv, Knows, PostIsRecorded
  <2> QED
    BY <2>1 DEF Stage, PostIsRecorded
<1> QED
  BY <1>1, <1>2, <1>3, <1>4, StepsAlone DEF IInv

(* The container is polled. *)
LEMMA AwaitIInv ==
  ASSUME IInv, Sequential, NEW a \in Attempts, Await(a)
  PROVE  IInv'
<1>1. /\ attempt[a].stage \in Running
      /\ \A b \in Attempts : b # a => attempt'[b] = attempt[b]
  BY DEF Await, Refusals, Return, Goto, IInv, TypeOK, Calls, Running
<1>2. TypeOK'
  <2>1. attempt' \in [Attempts -> Calls]
    BY GotoType, ReturnType DEF Await, Refusals, IInv, Stages, Running, Outcomes
  <2> QED
    BY <2>1 DEF Await, Refusals, IInv, TypeOK
<1>3. Knows(a)'
  BY DEF Await, Refusals, Return, Goto, IInv, TypeOK, Calls, Knows, StateOf, Sequential
<1>4. PostIsRecorded'
  BY DEF Await, Refusals, Return, Goto, IInv, TypeOK, Calls, Knows, PostIsRecorded, StateOf, Sequential
<1> QED
  BY <1>1, <1>2, <1>3, <1>4, StepsAlone DEF IInv

(* A container that died, which is not the post, leaves the ledger. *)
LEMMA DropIInv ==
  ASSUME IInv, Sequential, NEW a \in Attempts, Drop(a)
  PROVE  IInv'
<1>1. /\ attempt[a].stage \in Running
      /\ \A b \in Attempts : b # a => attempt'[b] = attempt[b]
  BY DEF Drop, Return, IInv, TypeOK, Calls, Running
<1>2. TypeOK'
  <2>1. attempt' \in [Attempts -> Calls]
    BY ReturnType DEF Drop, IInv, Outcomes
  <2> QED
    BY <2>1 DEF Drop, IInv, TypeOK
<1>3. Knows(a)'
  BY DEF Drop, Return, IInv, TypeOK, Calls, Knows, StateOf, Sequential
<1>4. PostIsRecorded'
  BY DEF Drop, Return, IInv, TypeOK, Calls, Knows, PostIsRecorded, StateOf, Sequential
<1> QED
  BY <1>1, <1>2, <1>3, <1>4, StepsAlone DEF IInv

(* Only the container the ledger holds is posted. *)
LEMMA PublishIInv ==
  ASSUME IInv, Sequential, NEW a \in Attempts, Publish(a)
  PROVE  IInv'
<1>1. /\ attempt[a].stage \in Running
      /\ \A b \in Attempts : b # a => attempt'[b] = attempt[b]
  BY DEF Publish, Unanswered, Return, IInv, TypeOK, Calls, Running
<1>2. TypeOK'
  <2>1. \E outcome \in Outcomes : Return(a, outcome)
    BY DEF Publish, Unanswered, Outcomes
  <2>2. attempt' \in [Attempts -> Calls]
    BY <2>1, ReturnType DEF IInv
  <2>3. container' \in [Containers -> ContainerStates]
    BY DEF Publish, IInv, TypeOK, ContainerStates
  <2> QED
    BY <2>2, <2>3 DEF Publish, IInv, TypeOK
<1>3. Knows(a)'
  BY DEF Publish, Unanswered, Return, IInv, TypeOK, Calls, Knows, StateOf, Sequential
<1>4. PostIsRecorded'
  BY DEF Publish, Unanswered, Return, IInv, TypeOK, Calls, Knows, PostIsRecorded, StateOf, Sequential
<1> QED
  BY <1>1, <1>2, <1>3, <1>4, StepsAlone DEF IInv

(* An attempt dies, or refuses its input. *)
LEMMA CrashIInv ==
  ASSUME IInv, Sequential, NEW a \in Attempts, Crash(a) \/ Invalid(a)
  PROVE  IInv'
<1>1. /\ attempt[a].stage \in Running
      /\ \A b \in Attempts : b # a => attempt'[b] = attempt[b]
  BY DEF Crash, Invalid, Return, IInv, TypeOK, Calls, Running
<1>2. TypeOK'
  <2>1. attempt' \in [Attempts -> Calls]
    BY ReturnType DEF Crash, Invalid, IInv, Outcomes
  <2> QED
    BY <2>1 DEF Crash, Invalid, IInv, TypeOK
<1>3. Knows(a)'
  BY DEF Crash, Invalid, Return, IInv, TypeOK, Calls, Knows, StateOf, Sequential
<1>4. PostIsRecorded'
  BY DEF Crash, Invalid, Return, IInv, TypeOK, Calls, Knows, PostIsRecorded, StateOf, Sequential
<1> QED
  BY <1>1, <1>2, <1>3, <1>4, StepsAlone DEF IInv

(* Every step keeps the invariant: the platform changes only what no attempt    *)
(* relies on.                                                                *)
LEMMA StepIInv == IInv /\ Sequential /\ [Next]_vars => IInv'
<1> SUFFICES ASSUME IInv, Sequential, [Next]_vars PROVE IInv'
  OBVIOUS
<1>1. ASSUME NEW a \in Attempts,
             \/ Start(a) \/ Invalid(a) \/ Find(a) \/ Check(a) \/ Clear(a) \/ Create(a) \/ Stage(a)
             \/ Await(a) \/ Drop(a) \/ Publish(a) \/ Crash(a)
      PROVE  IInv'
  BY <1>1, StartIInv, FindIInv, CheckIInv, ClearIInv, CreateIInv, StageIInv, AwaitIInv,
     DropIInv, PublishIInv, CrashIInv
<1>2. ASSUME NEW c \in Containers, Process(c) \/ Expire(c)
      PROVE  IInv'
  <2>1. TypeOK'
    BY <1>2 DEF Process, Expire, IInv, TypeOK, ContainerStates
  <2>2. OneRuns' /\ PostIsRecorded'
    BY <1>2 DEF Process, Expire, IInv, TypeOK, OneRuns, PostIsRecorded
  <2>3. \A d \in Containers : container[d] \in {"ERROR", "EXPIRED"} =>
          container'[d] = container[d]
    BY <1>2 DEF Process, Expire, IInv, TypeOK
  <2>4. \A a \in Attempts : Knows(a)'
    BY <1>2, <2>3 DEF Process, Expire, IInv, TypeOK, Knows, StateOf
  <2> QED
    BY <2>1, <2>2, <2>4 DEF IInv
<1>3. CASE UNCHANGED vars
  BY <1>3 DEF vars, IInv, TypeOK, OneRuns, Knows, PostIsRecorded, StateOf
<1> QED
  BY <1>1, <1>2, <1>3 DEF Next, Quiescent

(* IInv is an invariant of sequential attempts on a recordable entry. *)
LEMMA Invariant == Sequential => (Spec => []IInv)
<1>1. Init => IInv
  BY InitIInv
<1>2. Sequential /\ IInv /\ [Next]_vars => IInv'
  BY StepIInv
<1>3. Sequential => (IInv /\ [Next]_vars => IInv')
  BY <1>2
<1> SUFFICES ASSUME Sequential PROVE Spec => []IInv
  OBVIOUS
<1>4. IInv /\ [Next]_vars => IInv'
  BY <1>3
<1> QED
  BY <1>1, <1>4, PTL DEF Spec

(* At most one container is posted: it is the one in the ledger. *)
LEMMA PostsBound == IInv => AtMostOnePost /\ LedgerKnowsThePost
<1> SUFFICES ASSUME IInv PROVE AtMostOnePost /\ LedgerKnowsThePost
  OBVIOUS
<1>1. Posts \subseteq {ledger}
  BY DEF IInv, PostIsRecorded, Posts
<1>2. Posts = {} \/ Posts = {ledger}
  BY <1>1
<1>3. Cardinality({}) = 0 /\ Cardinality({ledger}) = 1
  BY FS_EmptySet, FS_Singleton
<1> QED
  BY <1>2, <1>3 DEF AtMostOnePost, LedgerKnowsThePost

(* A retry never posts twice, however many attempts are made, answers lost   *)
(* and processes killed, as long as attempts do not overlap and the entry's  *)
(* row takes the container's id.                                             *)
THEOREM RetryPostsOnce ==
  ASSUME Sequential
  PROVE  Spec => [](AtMostOnePost /\ LedgerKnowsThePost)
<1>1. Spec => []IInv
  BY Invariant
<1> QED
  BY <1>1, PostsBound, PTL

(* An attempt that tells the operator to try again has not lost its post. *)
THEOREM RetriesAreSafe ==
  ASSUME Sequential
  PROVE  Spec => []RetryIsSafe
<1>1. IInv => RetryIsSafe
  BY DEF IInv, PostIsRecorded, RetryIsSafe, Posts
<1>2. Spec => []IInv
  BY Invariant
<1> QED
  BY <1>1, <1>2, PTL

-----------------------------------------------------------------------------
(* The refinement of SinglePost *)

Reports == [a \in Attempts |-> Report(a)]

(* The number of posts is 0 or 1. *)
LEMMA PostCount ==
  ASSUME IInv
  PROVE  /\ Posts = {} => Cardinality(Posts) = 0
         /\ Posts # {} => Cardinality(Posts) = 1
<1>1. Posts \subseteq {ledger}
  BY DEF IInv, PostIsRecorded, Posts
<1>2. Posts = {} \/ Posts = {ledger}
  BY <1>1
<1>3. Cardinality({}) = 0 /\ Cardinality({ledger}) = 1
  BY FS_EmptySet, FS_Singleton
<1> QED
  BY <1>2, <1>3

(* A step of attempt a that does not end it changes no report. *)
LEMMA KeepsReports ==
  ASSUME NEW a \in Attempts, attempt[a].stage # "done", attempt'[a].stage # "done",
         \A b \in Attempts : b # a => attempt'[b] = attempt[b]
  PROVE  Reports' = Reports
BY DEF Reports, Report

(* A step that ends attempt a changes its report, from none, and no other. *)
LEMMA EndsReport ==
  ASSUME TypeOK, NEW a \in Attempts, attempt[a].stage # "done",
         NEW outcome \in Outcomes, Return(a, outcome)
  PROVE  /\ Reports[a] = "none"
         /\ Reports' = [Reports EXCEPT ![a] =
                          IF outcome \in {"PUBLISHED", "ALREADY"} THEN "out"
                          ELSE IF outcome = "REFUSED" THEN "refused" ELSE "again"]
<1>1. /\ attempt'[a].stage = "done" /\ attempt'[a].outcome = outcome
      /\ \A b \in Attempts : b # a => attempt'[b] = attempt[b]
  BY DEF TypeOK, Calls, Return
<1> QED
  BY <1>1 DEF Reports, Report

(* An attempt that ends without posting is a step of SinglePost. *)
LEMMA EndRefines ==
  ASSUME IInv, NEW a \in Attempts, attempt[a].stage # "done", Posts' = Posts,
         NEW outcome \in Outcomes, Return(a, outcome),
         outcome \in {"PUBLISHED", "ALREADY"} => Posts # {}
  PROVE  Promise!Next
<1>1. UNCHANGED Cardinality(Posts)
  OBVIOUS
<1>2. outcome \in {"PUBLISHED", "ALREADY"} => Cardinality(Posts) = 1
  BY PostCount
<1>3. Promise!End(a)
  BY <1>1, <1>2, EndsReport DEF Promise!End, Reports, IInv
<1> QED
  BY <1>3 DEF Promise!Next

(* Posting the container is the one Post step of SinglePost. *)
LEMMA PostRefines ==
  ASSUME IInv, NEW a \in Attempts, attempt[a].stage = "publish", StateOf(a) = "FINISHED",
         container' = [container EXCEPT ![attempt[a].container] = "PUBLISHED"],
         NEW outcome \in {"PUBLISHED", "AMBIGUOUS", "RETRY"}, Return(a, outcome)
  PROVE  Promise!Next
<1>1. attempt[a].container = ledger /\ ledger \in Containers
  BY DEF IInv, Knows
<1>2. \A c \in Containers : container[c] # "PUBLISHED"
  BY <1>1 DEF IInv, PostIsRecorded, StateOf
<1>3. Posts = {} /\ Posts' = {ledger}
  BY <1>1, <1>2 DEF IInv, TypeOK, Posts
<1>4. Cardinality(Posts) = 0 /\ Cardinality(Posts') = 1
  BY <1>3, FS_EmptySet, FS_Singleton
<1>5. outcome \in Outcomes
  BY DEF Outcomes
<1>6. /\ Reports[a] = "none"
      /\ \E r \in {"out", "again"} : Reports' = [Reports EXCEPT ![a] = r]
  BY <1>5, EndsReport DEF IInv
<1>7. Promise!Post(a)
  BY <1>4, <1>6 DEF Promise!Post, Reports
<1> QED
  BY <1>7 DEF Promise!Next

(* The platform and a step that only moves an attempt stutter.  *)
LEMMA Stutters ==
  ASSUME Posts' = Posts, Reports' = Reports
  PROVE  UNCHANGED Promise!vars
BY DEF Promise!vars, Reports

(* Every step of an attempt is a step of SinglePost or a stutter. *)
LEMMA AttemptRefines ==
  ASSUME IInv, Sequential, NEW a \in Attempts,
         \/ Start(a) \/ Invalid(a) \/ Find(a) \/ Check(a) \/ Clear(a) \/ Create(a) \/ Stage(a)
         \/ Await(a) \/ Drop(a) \/ Publish(a) \/ Crash(a)
  PROVE  [Promise!Next]_Promise!vars
<1>1. ASSUME NEW stage \in Running, attempt[a].stage # "done", Goto(a, stage), UNCHANGED container
      PROVE  UNCHANGED Promise!vars
  <2>1. attempt'[a].stage # "done" /\ \A b \in Attempts : b # a => attempt'[b] = attempt[b]
    BY <1>1 DEF Goto, IInv, TypeOK, Running
  <2> QED
    BY <1>1, <2>1, KeepsReports, Stutters DEF Posts
<1>2. ASSUME NEW outcome \in {"RETRY", "REFUSED", "CRASHED", "AMBIGUOUS"}, attempt[a].stage # "done",
             Return(a, outcome), UNCHANGED container
      PROVE  Promise!Next
  BY <1>2, EndRefines DEF Outcomes, Posts
<1>3. CASE Start(a) \/ Find(a) \/ Clear(a)
  <2>1. /\ attempt[a].stage # "done" /\ attempt'[a].stage # "done" /\ UNCHANGED container
        /\ \A b \in Attempts : b # a => attempt'[b] = attempt[b]
    BY <1>3 DEF Start, Goto, Find, AfterFind, Clear, IInv, TypeOK, Calls
  <2> QED
    BY <2>1, KeepsReports, Stutters DEF Posts
<1>4. CASE Check(a)
  <2>1. CASE StateOf(a) = "PUBLISHED" /\ Return(a, "ALREADY")
    <3>1. attempt[a].container \in Posts
      BY <1>4, <2>1 DEF Check, IInv, Knows, Posts, StateOf
    <3> QED
      BY <1>4, <2>1, <3>1, EndRefines DEF Check, Outcomes, Posts
  <2> QED
    BY <1>4, <2>1, <1>1, <1>2 DEF Check, AfterCheck, Refusals, Running
<1>5. CASE Create(a)
  <2>1. CASE CreateFails(a) /\ UNCHANGED container
    BY <1>5, <2>1, <1>2 DEF Create, CreateFails, Refusals
  <2>2. CASE ~ (CreateFails(a) /\ UNCHANGED container)
    <3>1. PICK c \in Containers :
            /\ container[c] = "NONE"
            /\ container' = [container EXCEPT ![c] = "IN_PROGRESS"]
            /\ \/ attempt' = [attempt EXCEPT ![a].stage = "stage", ![a].container = c]
               \/ CreateFails(a)
      BY <1>5, <2>2 DEF Create
    <3>2. Posts' = Posts
      BY <3>1 DEF Posts, IInv, TypeOK
    <3>3. CASE CreateFails(a)
      BY <1>5, <3>2, <3>3, EndRefines DEF Create, CreateFails, Refusals, Outcomes
    <3>4. CASE attempt' = [attempt EXCEPT ![a].stage = "stage", ![a].container = c]
      <4>1. /\ attempt[a].stage # "done" /\ attempt'[a].stage # "done"
            /\ \A b \in Attempts : b # a => attempt'[b] = attempt[b]
        BY <1>5, <3>4 DEF Create, IInv, TypeOK, Calls
      <4> QED
        BY <3>2, <4>1, KeepsReports, Stutters
    <3> QED
      BY <3>1, <3>3, <3>4
  <2> QED
    BY <2>1, <2>2
<1>6. CASE Stage(a)
  <2>1. /\ attempt[a].stage # "done" /\ attempt'[a].stage # "done" /\ UNCHANGED container
        /\ \A b \in Attempts : b # a => attempt'[b] = attempt[b]
    BY <1>6 DEF Stage, IInv, TypeOK, Calls, Sequential
  <2> QED
    BY <2>1, KeepsReports, Stutters DEF Posts
<1>7. CASE Await(a)
  BY <1>7, <1>1, <1>2 DEF Await, Refusals, Running
<1>8. CASE Drop(a) \/ Crash(a) \/ Invalid(a)
  BY <1>8, <1>2 DEF Drop, Crash, Invalid, Running
<1>9. CASE Publish(a)
  <2>1. Unanswered(a) \subseteq {"RETRY", "AMBIGUOUS"}
    BY DEF Unanswered
  <2>2. CASE /\ UNCHANGED container
             /\ \E outcome \in {"RETRY", "AMBIGUOUS", "REFUSED"} : Return(a, outcome)
    BY <1>9, <2>2, <1>2 DEF Publish
  <2>3. CASE /\ StateOf(a) = "FINISHED"
             /\ container' = [container EXCEPT ![attempt[a].container] = "PUBLISHED"]
             /\ \E outcome \in {"PUBLISHED", "AMBIGUOUS"} \cup Unanswered(a) : Return(a, outcome)
    BY <1>9, <2>1, <2>3, PostRefines DEF Publish
  <2> QED
    BY <1>9, <2>1, <2>2, <2>3 DEF Publish
<1> QED
  BY <1>3, <1>4, <1>5, <1>6, <1>7, <1>8, <1>9

(* Every step of the publisher is a step of SinglePost or a stutter. *)
LEMMA StepRefines == IInv /\ Sequential /\ [Next]_vars => [Promise!Next]_Promise!vars
<1> SUFFICES ASSUME IInv, Sequential, [Next]_vars PROVE [Promise!Next]_Promise!vars
  OBVIOUS
<1>1. ASSUME NEW a \in Attempts,
             \/ Start(a) \/ Invalid(a) \/ Find(a) \/ Check(a) \/ Clear(a) \/ Create(a) \/ Stage(a)
             \/ Await(a) \/ Drop(a) \/ Publish(a) \/ Crash(a)
      PROVE  [Promise!Next]_Promise!vars
  BY <1>1, AttemptRefines
<1>2. ASSUME NEW c \in Containers, Process(c) \/ Expire(c)
      PROVE  UNCHANGED Promise!vars
  <2>1. Posts' = Posts
    BY <1>2 DEF Process, Expire, Posts, IInv, TypeOK
  <2>2. Reports' = Reports
    BY <1>2 DEF Process, Expire, Reports, Report
  <2> QED
    BY <2>1, <2>2, Stutters
<1>3. CASE UNCHANGED vars
  <2>1. Posts' = Posts /\ Reports' = Reports
    BY <1>3 DEF vars, Posts, Reports, Report
  <2> QED
    BY <2>1, Stutters
<1> QED
  BY <1>1, <1>2, <1>3 DEF Next, Quiescent

(* The publisher starts as SinglePost does. *)
LEMMA InitRefines == Init => Promise!Init
<1> SUFFICES ASSUME Init PROVE Promise!Init
  OBVIOUS
<1>1. Posts = {}
  BY DEF Init, Posts
<1>2. \A a \in Attempts : Report(a) = "none"
  BY DEF Init, NoAttempt, Report
<1> QED
  BY <1>1, <1>2, FS_EmptySet DEF Promise!Init

(* Attempts that follow each other on a recordable entry implement           *)
(* SinglePost, whatever the platform does: one post, and no attempt reports  *)
(* it as out unless it is.                                                   *)
THEOREM Implements ==
  ASSUME Sequential
  PROVE  Spec => ImplementsSinglePost
<1>1. Init => Promise!Init
  BY InitRefines
<1>2. IInv /\ [Next]_vars => [Promise!Next]_Promise!vars
  BY StepRefines
<1>3. Spec => []IInv
  BY Invariant
<1> QED
  BY <1>1, <1>2, <1>3, PTL DEF Spec, ImplementsSinglePost, Promise!Spec

=============================================================================
