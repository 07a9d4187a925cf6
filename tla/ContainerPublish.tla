-------------------------- MODULE ContainerPublish --------------------------
(***************************************************************************)
(* Publishing one calendar entry to a platform that stages a container     *)
(* before it posts: the InstagramPublisher and the ThreadsPublisher, with  *)
(* the container ledger kept on the entry (externalContainerId) under its  *)
(* idempotency key.  An attempt is one call of publish() by the executor;  *)
(* attempts die, lose answers, and are repeated.                           *)
(***************************************************************************)
EXTENDS Naturals, FiniteSets

CONSTANTS
  Attempts,       \* calls of publish() for the entry
  Containers,     \* containers the platform can create (bound)
  NoContainer,
  Recordable,     \* the ledger's key matches the entry's row
  Overlap         \* attempts may run at the same time

ASSUME ContainerConstants ==
  /\ NoContainer \notin Containers
  /\ Recordable \in BOOLEAN /\ Overlap \in BOOLEAN

VARIABLES
  platform,    \* ContentScheduleEntry.platform, which selects the publisher
  ledger,      \* externalContainerId of the entry
  container,   \* [Containers -> what the platform holds]
  attempt      \* [Attempts -> what each call has read and where it stands]

vars == <<platform, ledger, container, attempt>>

Platforms == {"INSTAGRAM", "THREADS"}
Instagram == platform = "INSTAGRAM"

(* GONE, a container the platform no longer finds, is handled as EXPIRED. *)
ContainerStates == {"NONE", "IN_PROGRESS", "FINISHED", "ERROR", "EXPIRED", "PUBLISHED"}
Running == {"find", "check", "clear", "create", "stage", "await", "drop", "publish"}
Stages == {"idle", "done"} \cup Running

(* How publish() returns: RETRY stands for TRANSIENT ("try again"), ALREADY  *)
(* for "already published by an earlier attempt", AMBIGUOUS for "the post    *)
(* may have been created", REFUSED for every other failure, CRASHED for an   *)
(* attempt that threw or died.                                               *)
Outcomes == {"none", "PUBLISHED", "RETRY", "ALREADY", "AMBIGUOUS", "REFUSED", "CRASHED"}

Calls == [stage : Stages, container : Containers \cup {NoContainer},
          recorded : BOOLEAN, reused : BOOLEAN, outcome : Outcomes]
NoAttempt == [stage |-> "idle", container |-> NoContainer,
              recorded |-> FALSE, reused |-> FALSE, outcome |-> "none"]

Posts == {c \in Containers : container[c] = "PUBLISHED"}
StateOf(a) == container[attempt[a].container]

Refusals == {"RETRY", "REFUSED"}

Goto(a, stage) == attempt' = [attempt EXCEPT ![a].stage = stage]
Return(a, outcome) ==
  attempt' = [attempt EXCEPT ![a].stage = "done", ![a].outcome = outcome]

(* An operator named X_Y is X with the bug Y; the mutants of the runs use it. *)

-----------------------------------------------------------------------------
(* The attempts *)

(* The executor calls publish(). *)
Start(a) ==
  /\ attempt[a].stage = "idle"
  /\ Overlap \/ \A b \in Attempts : attempt[b].stage \notin Running
  /\ Goto(a, "find")
  /\ UNCHANGED <<platform, ledger, container>>

-----------------------------------------------------------------------------
(* publish() *)

(* The input is refused before the ledger is read: invalid text or image, or *)
(* no link for the platform to fetch the image from.                         *)
Invalid(a) ==
  /\ attempt[a].stage = "find"
  /\ Return(a, "REFUSED")
  /\ UNCHANGED <<platform, ledger, container>>

AfterFind ==
  IF ledger = NoContainer THEN "create" ELSE IF Instagram THEN "check" ELSE "publish"

Find(a) ==
  /\ attempt[a].stage = "find"
  /\ attempt' = [attempt EXCEPT ![a] =
                   [@ EXCEPT !.container = ledger,
                             !.recorded = ledger # NoContainer,
                             !.reused = ledger # NoContainer,
                             !.stage = AfterFind]]
  /\ UNCHANGED <<platform, ledger, container>>

AfterCheck_Republish(a) ==
  \/ StateOf(a) \in {"ERROR", "EXPIRED", "PUBLISHED"} /\ Goto(a, "clear")
  \/ StateOf(a) \in {"IN_PROGRESS", "FINISHED"} /\ Goto(a, "await")

(* A container of an earlier attempt: never published again if it was,       *)
(* replaced if it is dead, waited for otherwise.                             *)
AfterCheck(a) ==
  \/ StateOf(a) = "PUBLISHED" /\ Return(a, "ALREADY")
  \/ StateOf(a) \in {"ERROR", "EXPIRED"} /\ Goto(a, "clear")
  \/ StateOf(a) \in {"IN_PROGRESS", "FINISHED"} /\ Goto(a, "await")

(* The status read may be unanswered or refused. *)
Check(a) ==
  /\ attempt[a].stage = "check"
  /\ AfterCheck(a) \/ \E outcome \in Refusals : Return(a, outcome)
  /\ UNCHANGED <<platform, ledger, container>>

Clear(a) ==
  /\ attempt[a].stage = "clear"
  /\ ledger' = NoContainer
  /\ attempt' = [attempt EXCEPT ![a].stage = "create", ![a].container = NoContainer]
  /\ UNCHANGED <<platform, container>>

(* Threads reports an unanswered create as AMBIGUOUS, Instagram as TRANSIENT.*)
CreateFails(a) ==
  \E outcome \in Refusals \cup (IF Instagram THEN {} ELSE {"AMBIGUOUS"}) : Return(a, outcome)

(* The container is created, and its id may be lost *)
(* with the answer; or it is not (the quota, the image, the token).          *)
Create(a) ==
  /\ attempt[a].stage = "create"
  /\ \/ \E c \in Containers :
          /\ container[c] = "NONE"
          /\ container' = [container EXCEPT ![c] = "IN_PROGRESS"]
          /\ \/ attempt' = [attempt EXCEPT ![a].stage = "stage", ![a].container = c]
             \/ CreateFails(a)
     \/ CreateFails(a) /\ UNCHANGED container
  /\ UNCHANGED <<platform, ledger>>

Stage_Late(a) ==
  /\ attempt[a].stage = "stage"
  /\ attempt' = [attempt EXCEPT ![a].stage = IF Instagram THEN "await" ELSE "publish",
                                ![a].recorded = Recordable]
  /\ UNCHANGED <<platform, ledger, container>>

(* ledger.staged(): Threads stops when no row took the id, Instagram goes on *)
(* without protection.                                                       *)
Stage(a) ==
  /\ attempt[a].stage = "stage"
  /\ IF Recordable
     THEN /\ ledger' = attempt[a].container
          /\ attempt' = [attempt EXCEPT ![a].stage = IF Instagram THEN "await" ELSE "publish",
                                        ![a].recorded = TRUE]
     ELSE /\ IF Instagram THEN Goto(a, "await") ELSE Return(a, "RETRY")
          /\ UNCHANGED ledger
  /\ UNCHANGED <<platform, container>>

(* awaitContainer(): a container that is not ready after five checks is kept *)
(* for the next attempt, as it is when a check is unanswered or refused.     *)
Await(a) ==
  /\ attempt[a].stage = "await"
  /\ \/ StateOf(a) = "FINISHED" /\ Goto(a, "publish")
     \/ StateOf(a) \in {"ERROR", "EXPIRED"} /\ Goto(a, "drop")
     \/ \E outcome \in Refusals : Return(a, outcome)
  /\ UNCHANGED <<platform, ledger, container>>

(* A container that died while it was awaited is dropped from the ledger. *)
Drop(a) ==
  /\ attempt[a].stage = "drop"
  /\ ledger' = NoContainer
  /\ Return(a, IF StateOf(a) = "ERROR" THEN "REFUSED" ELSE "RETRY")
  /\ UNCHANGED <<platform, container>>

(* What an unanswered request is reported as: a connection that broke off is *)
(* TRANSIENT whatever reached the platform; a timeout is TRANSIENT only when *)
(* Instagram's container is recorded.                                        *)
Unanswered(a) == {"RETRY", IF Instagram /\ attempt[a].recorded THEN "RETRY" ELSE "AMBIGUOUS"}

(* media_publish / threads_publish: applied and answered; applied or not and *)
(* unanswered; or refused, as every container is that is not FINISHED.  Of a *)
(* reused container Threads' refusal may mean that it went out.              *)
Publish(a) ==
  /\ attempt[a].stage = "publish"
  /\ \/ /\ StateOf(a) = "FINISHED"
        /\ container' = [container EXCEPT ![attempt[a].container] = "PUBLISHED"]
        /\ \E outcome \in {"PUBLISHED", "AMBIGUOUS"} \cup Unanswered(a) : Return(a, outcome)
     \/ /\ \E outcome \in Unanswered(a) : Return(a, outcome)
        /\ UNCHANGED container
     \/ /\ \/ Return(a, "REFUSED")
           \/ ~Instagram /\ attempt[a].reused /\ Return(a, "AMBIGUOUS")
        /\ UNCHANGED container
  /\ UNCHANGED <<platform, ledger>>

-----------------------------------------------------------------------------
(* The platform, and failures *)

Process(c) ==
  /\ container[c] = "IN_PROGRESS"
  /\ \E s \in {"FINISHED", "ERROR"} : container' = [container EXCEPT ![c] = s]
  /\ UNCHANGED <<platform, ledger, attempt>>

Expire(c) ==
  /\ container[c] \in {"IN_PROGRESS", "FINISHED"}
  /\ container' = [container EXCEPT ![c] = "EXPIRED"]
  /\ UNCHANGED <<platform, ledger, attempt>>

(* The process dies, or the ledger or the storage throws. *)
Crash(a) ==
  /\ attempt[a].stage \in Running
  /\ Return(a, "CRASHED")
  /\ UNCHANGED <<platform, ledger, container>>

(* Every attempt has been made, or no container is left (the bound). *)
Quiescent ==
  /\ \A a \in Attempts : attempt[a].stage = "done"
  /\ UNCHANGED vars

-----------------------------------------------------------------------------
Init ==
  /\ platform \in Platforms
  /\ ledger = NoContainer
  /\ container = [c \in Containers |-> "NONE"]
  /\ attempt = [a \in Attempts |-> NoAttempt]

Next ==
  \/ \E a \in Attempts :
       \/ Start(a) \/ Invalid(a) \/ Find(a) \/ Check(a) \/ Clear(a) \/ Create(a) \/ Stage(a)
       \/ Await(a) \/ Drop(a) \/ Publish(a) \/ Crash(a)
  \/ \E c \in Containers : Process(c) \/ Expire(c)
  \/ Quiescent

Spec == Init /\ [][Next]_vars

-----------------------------------------------------------------------------
(* Properties *)

(* Every variable keeps the shape of what it stands for. *)
TypeOK ==
  /\ platform \in Platforms
  /\ ledger \in Containers \cup {NoContainer}
  /\ container \in [Containers -> ContainerStates]
  /\ attempt \in [Attempts -> Calls]

(* A retry never posts twice: one container of the entry is ever published,  *)
(* whatever answer is lost and wherever an attempt dies.                     *)
AtMostOnePost == Cardinality(Posts) <= 1

(* The ledger holds the container that was posted from before the post on,   *)
(* and no attempt clears or replaces it afterwards.                          *)
LedgerKnowsThePost == Posts # {} => ledger \in Posts

(* An attempt that tells the operator to try again has posted nothing, or    *)
(* left the container it posted where the next attempt will find it.         *)
RetryIsSafe ==
  \A a \in Attempts :
    attempt[a].outcome = "RETRY" /\ attempt[a].container \in Posts
      => ledger = attempt[a].container

(* The publisher keeps the promise of SinglePost: one post, and no attempt   *)
(* reports it as out before it is, or as posted by another that never was.   *)
Report(a) ==
  IF attempt[a].stage # "done" THEN "none"
  ELSE IF attempt[a].outcome \in {"PUBLISHED", "ALREADY"} THEN "out"
  ELSE IF attempt[a].outcome = "REFUSED" THEN "refused" ELSE "again"

Promise == INSTANCE SinglePost WITH posted <- Cardinality(Posts),
                                    report <- [a \in Attempts |-> Report(a)]
ImplementsSinglePost == Promise!Spec

=============================================================================
