-------------------------- MODULE VideoUploadProofs --------------------------
(***************************************************************************)
(* However attempts at one video die or lose their answers, and however    *)
(* many there are: the next one finds the upload that has the whole file,  *)
(* so the file is not sent twice unless an attempt lets go of it, and what *)
(* is reported as published is, or was found not viewable by the attempt   *)
(* that finished it.                                                       *)
(***************************************************************************)
EXTENDS VideoUpload, FiniteSetTheorems, TLAPS

OneRuns == \A a, b \in Attempts :
  attempt[a].stage \in Running /\ attempt[b].stage \in Running => a = b

(* The steps of an attempt before it has anything to answer. *)
Working == Running \ {"answer"}

(* What a running attempt knows of the ledger and of its upload: nobody else *)
(* changes them.                                                             *)
Holds(a) ==
  \/ attempt[a].stage \in {"ask", "probe", "chunk", "drop", "settle", "finish"}
  \/ attempt[a].stage = "load" /\ attempt[a].upload # NoUpload
Starts(a) ==
  \/ attempt[a].stage \in {"creator", "init", "record"}
  \/ attempt[a].stage = "load" /\ attempt[a].upload = NoUpload
Knows(a) ==
  LET s == attempt[a].stage IN
  /\ s \in Working => attempt[a].outcome = "none"
  /\ s = "answer" => attempt[a].outcome # "UNTOLD"
  /\ Holds(a) => /\ attempt[a].upload = ledger.upload /\ ledger.upload \in Uploads
                 /\ ledger.status # "NONE"
  /\ s \in {"load", "probe", "chunk"} /\ Holds(a) => ledger.open
  /\ s = "chunk" => UploadOf(a).received < Chunks
  /\ s = "record" => attempt[a].upload \in Uploads /\ UploadOf(a).received = 0
  /\ s \in {"creator", "init"} => attempt[a].upload = NoUpload
  /\ Starts(a) => Standing = {} \/ GivenUp

OpenIsRegistered ==
  /\ ledger.status = "NONE" <=> ledger.upload = NoUpload
  /\ ledger.open => ledger.status = "REGISTERED"

UploadsAreWhole == \A u \in Uploads :
  /\ upload[u].address = "NONE" => upload[u].received = 0
  /\ upload[u].post # "NONE" => upload[u].received = Chunks

(* The video is out, or the attempt that finished it found it not viewable.  *)
Told(u) ==
  \/ u \in Posts
  \/ \E b \in Attempts : attempt[b].outcome \in Unseen /\ attempt[b].upload = u
UploadedIsTold == ledger.status = "UPLOADED" => Told(ledger.upload)
Ended(a) == attempt[a].outcome # "none" => attempt[a].stage \in {"answer", "done"}

IInv ==
  /\ TypeOK /\ OneRuns
  /\ \A a \in Attempts : Knows(a) /\ Ended(a)
  /\ OpenIsRegistered /\ UploadsAreWhole
  /\ NextAttemptFindsIt
  /\ UploadedIsTold /\ PublishedIsOut

-----------------------------------------------------------------------------
(* Initially nothing runs and the platform has nothing. *)
LEMMA InitIInv == Init => IInv
<1> SUFFICES ASSUME Init PROVE IInv
  OBVIOUS
<1>1. TypeOK
  BY UploadConstants DEF Init, TypeOK, NoAttempt, NoneYet, NoLedger, Calls, Ledgers, UploadStates, Outcomes
<1>2. \A a \in Attempts : attempt[a].stage = "idle" /\ attempt[a].outcome = "none"
  BY DEF Init, NoAttempt
<1>3. Standing = {}
  BY UploadConstants DEF Init, Standing, Whole, NoneYet
<1>4. OneRuns /\ \A a \in Attempts : Knows(a) /\ Ended(a)
  BY <1>2 DEF OneRuns, Knows, Holds, Starts, Ended, Running, Working
<1>5. OpenIsRegistered /\ UploadsAreWhole /\ NextAttemptFindsIt
  BY <1>3 DEF Init, OpenIsRegistered, UploadsAreWhole, NextAttemptFindsIt, NoLedger, NoneYet
<1>6. UploadedIsTold /\ PublishedIsOut
  BY <1>2 DEF Init, UploadedIsTold, PublishedIsOut, NoLedger
<1> QED
  BY <1>1, <1>4, <1>5, <1>6 DEF IInv

(* The one running attempt takes a step: the others know nothing that the    *)
(* step could make false, and what an attempt let go of stays let go of.     *)
LEMMA StepsAlone ==
  ASSUME IInv, TypeOK', NEW a \in Attempts, attempt[a].stage \in Working,
         \A b \in Attempts : b # a => attempt'[b] = attempt[b],
         attempt[a].gaveUp => attempt'[a].gaveUp
  PROVE  /\ OneRuns' /\ \A b \in Attempts : b # a => Knows(b)' /\ Ended(b)'
         /\ GivenUp => GivenUp'
         /\ \A u \in Uploads : u \in Posts' /\ Told(u) => Told(u)'
         /\ \A u : (\E b \in Attempts : attempt[b].outcome \in Unseen /\ attempt[b].upload = u) => Told(u)'
<1>1. \A b \in Attempts : b # a => attempt'[b].stage \notin Running
  BY DEF IInv, OneRuns, Working
<1>2. OneRuns'
  BY <1>1 DEF OneRuns
<1>3. \A b \in Attempts : b # a => Knows(b)' /\ Ended(b)'
  BY <1>1 DEF Knows, Holds, Starts, Running, Working, Ended, IInv
<1>4. GivenUp => GivenUp'
  BY DEF GivenUp
<1>5. attempt[a].outcome = "none"
  BY DEF IInv, Knows
<1>6. ASSUME NEW u, NEW b \in Attempts, attempt[b].outcome \in Unseen, attempt[b].upload = u
      PROVE  Told(u)'
  BY <1>5, <1>6 DEF Told, Unseen
<1> QED
  BY <1>2, <1>3, <1>4, <1>6 DEF Told

(* A step that moves an attempt on and leaves platform and ledger alone.     *)
LEMMA QuietStep ==
  ASSUME IInv, TypeOK', NEW a \in Attempts, attempt[a].stage \in Working,
         \A b \in Attempts : b # a => attempt'[b] = attempt[b],
         attempt[a].gaveUp => attempt'[a].gaveUp,
         ledger' = ledger, platform' = platform,
         \A u \in Uploads : upload'[u].post = upload[u].post /\ upload'[u].received = upload[u].received,
         UploadsAreWhole', Knows(a)', Ended(a)',
         attempt'[a].outcome \in {"PUBLISHED", "ALREADY"} => Told(attempt'[a].upload)
  PROVE  IInv'
<1>1. Standing' = Standing /\ Posts' = Posts
  BY DEF Standing, Posts, Whole
<1>2. NextAttemptFindsIt'
  BY <1>1, StepsAlone DEF NextAttemptFindsIt, IInv, Resumable, YouTube
<1>3. OpenIsRegistered'
  BY DEF IInv, OpenIsRegistered
<1>4. \A u : Told(u) => Told(u)'
  BY <1>1, StepsAlone DEF Told
<1>5. UploadedIsTold'
  BY <1>4 DEF UploadedIsTold, IInv
<1>6. ASSUME NEW b \in Attempts, attempt'[b].outcome \in {"PUBLISHED", "ALREADY"}, NEW u,
             u = attempt'[b].upload
      PROVE  Told(u)'
  <2>1. Told(u)
    BY <1>6 DEF IInv, PublishedIsOut, Told
  <2> QED
    BY <2>1, <1>4
<1>7. PublishedIsOut'
  BY <1>6 DEF PublishedIsOut, Told
<1> QED
  BY <1>2, <1>3, <1>5, <1>7, StepsAlone DEF IInv

(* An attempt that returns is done, and knows nothing more. *)
LEMMA Returned ==
  ASSUME TypeOK, NEW a \in Attempts, NEW outcome \in Outcomes, Return(a, outcome)
  PROVE  /\ attempt' \in [Attempts -> Calls] /\ Knows(a)' /\ Ended(a)' /\ attempt'[a].stage = "done"
         /\ attempt'[a].outcome = outcome /\ attempt'[a].upload = attempt[a].upload
         /\ attempt'[a].gaveUp = attempt[a].gaveUp
         /\ \A b \in Attempts : b # a => attempt'[b] = attempt[b]
BY DEF Return, TypeOK, Calls, Knows, Holds, Starts, Ended, Running, Working

(* An attempt that has written the ledger knows nothing more of it.          *)
LEMMA Decided ==
  ASSUME TypeOK, NEW a \in Attempts, NEW outcome \in Outcomes \ {"UNTOLD"}, Decide(a, outcome)
  PROVE  /\ attempt' \in [Attempts -> Calls] /\ Knows(a)' /\ Ended(a)' /\ attempt'[a].stage = "answer"
         /\ attempt'[a].outcome = outcome /\ attempt'[a].upload = attempt[a].upload
         /\ attempt'[a].gaveUp = attempt[a].gaveUp
         /\ \A b \in Attempts : b # a => attempt'[b] = attempt[b]
BY DEF Decide, TypeOK, Calls, Knows, Holds, Starts, Ended, Running, Working

(* An attempt that moves on keeps its upload. *)
LEMMA Moved ==
  ASSUME TypeOK, NEW a \in Attempts, NEW stage \in Running, Goto(a, stage)
  PROVE  /\ attempt' \in [Attempts -> Calls]
         /\ attempt'[a] = [attempt[a] EXCEPT !.stage = stage]
         /\ attempt'[a].stage = stage /\ attempt'[a].upload = attempt[a].upload
         /\ attempt'[a].outcome = attempt[a].outcome /\ attempt'[a].gaveUp = attempt[a].gaveUp
         /\ \A b \in Attempts : b # a => attempt'[b] = attempt[b]
         /\ GivenUp => GivenUp'
<1>1. /\ attempt' \in [Attempts -> Calls]
      /\ attempt'[a] = [attempt[a] EXCEPT !.stage = stage]
      /\ \A b \in Attempts : b # a => attempt'[b] = attempt[b]
  BY DEF Goto, TypeOK, Calls
<1>2. /\ attempt'[a].stage = stage /\ attempt'[a].upload = attempt[a].upload
      /\ attempt'[a].outcome = attempt[a].outcome /\ attempt'[a].gaveUp = attempt[a].gaveUp
  BY <1>1 DEF TypeOK, Calls
<1> QED
  BY <1>1, <1>2 DEF GivenUp

(* An attempt that gives its upload up goes on without one, and says so when *)
(* the upload had the whole file.                                            *)
LEMMA GaveUp ==
  ASSUME TypeOK, NEW a \in Attempts, NEW stage \in Running, GiveUp(a, stage)
  PROVE  /\ attempt' \in [Attempts -> Calls]
         /\ attempt'[a] = [attempt[a] EXCEPT !.stage = stage, !.upload = NoUpload,
                                             !.gaveUp = attempt[a].gaveUp \/ Whole(attempt[a].upload)]
         /\ \A b \in Attempts : b # a => attempt'[b] = attempt[b]
<1>1. Whole(attempt[a].upload) \in BOOLEAN
  BY DEF Whole
<1> QED
  BY <1>1 DEF GiveUp, TypeOK, Calls

(* A failed request returns. *)
LEMMA FailsReturns ==
  ASSUME NEW a \in Attempts, NEW mayApply \in BOOLEAN, Fails(a, mayApply)
  PROVE  \E outcome \in {"RETRY", "REFUSED", "AMBIGUOUS"} : Return(a, outcome)
BY DEF Fails

(* A return that reports no success and leaves the platform and the ledger   *)
(* alone.                                                                    *)
LEMMA ReturnIInv ==
  ASSUME IInv, NEW a \in Attempts, attempt[a].stage \in Working,
         NEW outcome \in {"RETRY", "REFUSED", "AMBIGUOUS", "PROCESSING", "CRASHED"}, Return(a, outcome),
         UNCHANGED <<platform, ledger, upload>>
  PROVE  IInv'
<1>1. outcome \in Outcomes /\ outcome \notin {"PUBLISHED", "ALREADY"}
  BY DEF Outcomes
<1>2. TypeOK'
  BY <1>1, Returned DEF IInv, TypeOK
<1>3. UploadsAreWhole'
  BY DEF IInv, UploadsAreWhole
<1> QED
  BY <1>1, <1>2, <1>3, Returned, QuietStep DEF IInv

(* An attempt starts: no other runs. *)
LEMMA StartIInv ==
  ASSUME IInv, NEW a \in Attempts, Start(a)
  PROVE  IInv'
<1>1. /\ attempt' \in [Attempts -> Calls]
      /\ attempt'[a] = [attempt[a] EXCEPT !.stage = "find"]
      /\ \A b \in Attempts : b # a => attempt'[b] = attempt[b]
  BY Moved DEF Start, IInv, Running, Working
<1>2. attempt[a].outcome = "none"
  BY DEF IInv, Ended, Start
<1>3. TypeOK'
  BY <1>1 DEF IInv, TypeOK, Start
<1>4. OneRuns'
  BY <1>1 DEF OneRuns, Start
<1>5. \A b \in Attempts : Knows(b)' /\ Ended(b)'
  BY <1>1, <1>2 DEF Knows, Holds, Starts, Running, Working, Ended, Start, IInv, TypeOK, Calls
<1>6. (GivenUp => GivenUp') /\ Standing' = Standing /\ Posts' = Posts
  BY <1>1 DEF GivenUp, Standing, Posts, Whole, Start, IInv, TypeOK, Calls
<1>7. OpenIsRegistered' /\ UploadsAreWhole' /\ NextAttemptFindsIt'
  BY <1>6 DEF IInv, Start, OpenIsRegistered, UploadsAreWhole, NextAttemptFindsIt, Resumable, YouTube
<1>8. \A b \in Attempts : attempt'[b].outcome = attempt[b].outcome /\ attempt'[b].upload = attempt[b].upload
  BY <1>1 DEF IInv, TypeOK, Calls
<1>9. UploadedIsTold' /\ PublishedIsOut'
  BY <1>6, <1>8 DEF IInv, UploadedIsTold, PublishedIsOut, Told, Start
<1> QED
  BY <1>3, <1>4, <1>5, <1>7, <1>9 DEF IInv

(* The ledger is read. *)
LEMMA FindIInv ==
  ASSUME IInv, NEW a \in Attempts, Find(a)
  PROVE  IInv'
<1>1. /\ attempt[a].stage \in Working /\ attempt[a].outcome = "none"
      /\ \A b \in Attempts : b # a => attempt'[b] = attempt[b]
      /\ ledger' = ledger /\ platform' = platform /\ upload' = upload
  BY DEF Find, IInv, TypeOK, Calls, Running, Working, Knows
<1>2. UploadsAreWhole'
  BY DEF Find, IInv, UploadsAreWhole
<1>3. CASE ledger.status = "UPLOADED"
  <2>1. attempt'[a] = [attempt[a] EXCEPT !.stage = "done", !.outcome = "ALREADY", !.upload = ledger.upload]
    BY <1>3 DEF Find, IInv, TypeOK
  <2>2. TypeOK'
    <3>1. ledger.upload \in Uploads \cup {NoUpload}
      BY DEF IInv, TypeOK, Ledgers
    <3>2. attempt'[a] \in Calls
      BY <2>1, <3>1 DEF IInv, TypeOK, Calls, Outcomes
    <3>3. attempt' \in [Attempts -> Calls]
      BY <1>1, <1>3, <3>2 DEF IInv, TypeOK, Find
    <3> QED
      BY <1>1, <3>3 DEF IInv, TypeOK
  <2>3. Knows(a)' /\ Ended(a)' /\ attempt'[a].gaveUp = attempt[a].gaveUp
    BY <2>1 DEF Knows, Holds, Starts, Ended, Running, Working, IInv, TypeOK, Calls
  <2>4. Told(attempt'[a].upload)
    BY <1>3, <2>1 DEF IInv, UploadedIsTold, TypeOK, Calls
  <2> QED
    BY <1>1, <1>2, <2>2, <2>3, <2>4, QuietStep
<1>4. CASE ledger.status # "UPLOADED"
  <2> DEFINE stage == IF YouTube THEN "load" ELSE IF Resumable THEN "ask" ELSE "creator"
             u == IF Resumable THEN ledger.upload ELSE NoUpload
  <2>0. attempt' = [attempt EXCEPT ![a].upload = u, ![a].stage = stage]
    BY <1>4 DEF Find
  <2>2. u \in Uploads \cup {NoUpload} /\ stage \in {"load", "ask", "creator"}
    BY DEF IInv, TypeOK, Ledgers
  <2>1. attempt'[a] = [attempt[a] EXCEPT !.stage = stage, !.upload = u]
    <3> HIDE DEF stage, u
    <3> QED
      BY <2>0 DEF IInv, TypeOK, Calls
  <2>3. TypeOK'
    <3> HIDE DEF stage, u
    <3>1. attempt'[a] \in Calls
      BY <2>1, <2>2 DEF IInv, TypeOK, Calls, Running, Working
    <3>2. attempt' \in [Attempts -> Calls]
      BY <1>1, <2>0, <3>1 DEF IInv, TypeOK
    <3> QED
      BY <1>1, <3>2 DEF IInv, TypeOK
  <2>4. Resumable => ledger.upload \in Uploads /\ ledger.status # "NONE" /\ (YouTube => ledger.open)
    BY DEF Resumable, IInv, OpenIsRegistered, TypeOK, Ledgers
  <2>5. ~Resumable => Standing = {} \/ GivenUp
    BY <1>4 DEF IInv, NextAttemptFindsIt
  <2>6. /\ attempt'[a].stage = stage /\ attempt'[a].upload = u /\ attempt'[a].outcome = "none"
        /\ attempt'[a].gaveUp = attempt[a].gaveUp
    BY <1>1, <2>1 DEF IInv, TypeOK, Calls
  <2>7. Knows(a)' /\ Ended(a)' /\ attempt'[a].gaveUp = attempt[a].gaveUp /\ attempt'[a].outcome = "none"
    <3>1. Standing' = Standing
      BY <1>1 DEF Standing, Whole
    <3>2. GivenUp => GivenUp'
      BY <1>1, <2>6 DEF GivenUp
    <3>3. Holds(a)' => Resumable
      BY <2>2, <2>6 DEF Holds
    <3>4. Starts(a)' => ~Resumable
      BY <2>2, <2>4, <2>6, UploadConstants DEF Starts
    <3>5. Resumable => u = ledger.upload
      OBVIOUS
    <3>6. stage = "load" => YouTube
      OBVIOUS
    <3>9. stage = "creator" => u = NoUpload
      OBVIOUS
    <3> HIDE DEF stage, u
    <3>7. Holds(a)' => attempt'[a].upload = ledger'.upload /\ ledger'.upload \in Uploads /\ ledger'.status # "NONE"
      BY <1>1, <2>4, <2>6, <3>3, <3>5
    <3>8. attempt'[a].stage \in {"load", "probe", "chunk"} /\ Holds(a)' => ledger'.open
      BY <1>1, <2>2, <2>4, <2>6, <3>3, <3>6
    <3> QED
      BY <2>2, <2>5, <2>6, <3>1, <3>2, <3>4, <3>7, <3>8, <3>9 DEF Knows, Ended
  <2> QED
    BY <1>1, <1>2, <2>3, <2>7, QuietStep
<1> QED
  BY <1>3, <1>4

(* A quiet step that reports nothing. *)
LEMMA MoveIInv ==
  ASSUME IInv, NEW a \in Attempts, attempt[a].stage \in Working, NEW stage \in Running,
         Goto(a, stage), UNCHANGED <<platform, ledger, upload>>, Knows(a)'
  PROVE  IInv'
<1>1. /\ attempt' \in [Attempts -> Calls]
      /\ attempt'[a] = [attempt[a] EXCEPT !.stage = stage]
      /\ \A b \in Attempts : b # a => attempt'[b] = attempt[b]
  BY Moved DEF IInv
<1>2. attempt'[a].outcome = "none" /\ attempt'[a].gaveUp = attempt[a].gaveUp
  BY <1>1 DEF IInv, Knows, TypeOK, Calls
<1>3. TypeOK' /\ UploadsAreWhole' /\ Ended(a)'
  BY <1>1, <1>2 DEF IInv, TypeOK, UploadsAreWhole, Ended
<1> QED
  BY <1>1, <1>2, <1>3, QuietStep

(* An attempt that lets its upload go goes on with nothing standing, or with *)
(* what it let go of on record.                                              *)
LEMMA GiveUpIInv ==
  ASSUME IInv, NEW a \in Attempts, attempt[a].stage \in Working, Holds(a),
         NEW stage \in {"creator", "init"}, GiveUp(a, stage), UNCHANGED <<platform, ledger, upload>>
  PROVE  IInv'
<1>1. stage \in Running
  BY DEF Running, Working
<1>2. /\ attempt' \in [Attempts -> Calls]
      /\ attempt'[a] = [attempt[a] EXCEPT !.stage = stage, !.upload = NoUpload,
                                          !.gaveUp = attempt[a].gaveUp \/ Whole(attempt[a].upload)]
      /\ \A b \in Attempts : b # a => attempt'[b] = attempt[b]
  BY <1>1, GaveUp DEF IInv
<1>3. /\ attempt'[a].stage = stage /\ attempt'[a].upload = NoUpload /\ attempt'[a].outcome = "none"
      /\ attempt[a].gaveUp \/ Whole(attempt[a].upload) => attempt'[a].gaveUp
  <2>1. attempt[a].outcome = "none" /\ attempt[a] \in Calls
    BY DEF IInv, TypeOK, Knows
  <2> QED
    BY <1>2, <2>1 DEF Calls
<1>4. Standing = {} \/ GivenUp'
  <2>1. CASE GivenUp
    BY <2>1, <1>2, <1>3 DEF GivenUp
  <2>2. CASE Standing = {ledger.upload}
    BY <2>2, <1>3 DEF IInv, Knows, Standing, GivenUp
  <2> QED
    BY <2>1, <2>2 DEF IInv, NextAttemptFindsIt
<1>5. Standing' = Standing
  BY DEF Standing, Whole
<1>6. Knows(a)'
  BY <1>3, <1>4, <1>5 DEF Knows, Holds
<1>7. TypeOK' /\ UploadsAreWhole' /\ Ended(a)'
  BY <1>2, <1>3 DEF IInv, TypeOK, UploadsAreWhole, Ended
<1> QED
  BY <1>2, <1>3, <1>6, <1>7, QuietStep

(* The ledger is marked failed: what stood is let go of on record. *)
LEMMA FailLedgerIInv ==
  ASSUME IInv, NEW a \in Attempts, attempt[a].stage \in Working,
         attempt' \in [Attempts -> Calls],
         \A b \in Attempts : b # a => attempt'[b] = attempt[b],
         attempt[a].gaveUp => attempt'[a].gaveUp,
         attempt'[a].stage = "answer", attempt'[a].outcome \in {"REFUSED", "RETRY"},
         FailLedger, UNCHANGED <<platform, upload>>,
         GivenUp \/ Standing = {} \/ GivenUp'
  PROVE  IInv'
<1>1. TypeOK'
  BY DEF IInv, TypeOK, FailLedger, Ledgers
<1>2. Knows(a)' /\ Ended(a)'
  BY DEF Knows, Ended, Holds, Starts, Running, Working
<1>3. Standing' = Standing /\ Posts' = Posts
  BY DEF Standing, Posts, Whole
<1>4. NextAttemptFindsIt'
  BY <1>1, <1>3, StepsAlone DEF NextAttemptFindsIt
<1>5. OpenIsRegistered' /\ UploadsAreWhole'
  BY DEF IInv, OpenIsRegistered, UploadsAreWhole, FailLedger, TypeOK, Ledgers
<1>6. UploadedIsTold'
  <2>1. ledger'.status # "UPLOADED" \/ (ledger' = ledger /\ ledger.status = "NONE")
    BY DEF FailLedger, IInv, TypeOK, Ledgers
  <2> QED
    BY <2>1 DEF UploadedIsTold
<1>7. \A u : Told(u) => Told(u)'
  BY <1>1, <1>3, StepsAlone DEF Told
<1>8. PublishedIsOut'
  <2>1. ASSUME NEW b \in Attempts, attempt'[b].outcome \in {"PUBLISHED", "ALREADY"}
        PROVE  Told(attempt[b].upload)' /\ attempt'[b] = attempt[b]
    <3>1. b # a
      BY <2>1
    <3>2. Told(attempt[b].upload)
      BY <2>1, <3>1 DEF IInv, PublishedIsOut, Told
    <3> QED
      BY <3>1, <3>2, <1>7
  <2> QED
    BY <2>1 DEF PublishedIsOut, Told
<1> QED
  BY <1>1, <1>2, <1>4, <1>5, <1>6, <1>8, StepsAlone DEF IInv

-----------------------------------------------------------------------------
(* The steps of an attempt *)

(* A request that fails changes nothing but the attempt. *)
LEMMA FailsIInv ==
  ASSUME IInv, NEW a \in Attempts, attempt[a].stage \in Working, NEW mayApply \in BOOLEAN,
         Fails(a, mayApply), UNCHANGED <<platform, ledger, upload>>
  PROVE  IInv'
BY FailsReturns, ReturnIInv

(* The creator's settings are asked for. *)
LEMMA CreatorIInv ==
  ASSUME IInv, NEW a \in Attempts, Creator(a)
  PROVE  IInv'
<1>1. attempt[a].stage = "creator" /\ attempt[a].stage \in Working /\ "load" \in Running
  BY DEF Creator, Running, Working
<1>2. CASE Goto(a, "load")
  <2>0. attempt[a].upload = NoUpload /\ attempt[a].outcome = "none"
    BY <1>1 DEF IInv, Knows
  <2>1. attempt'[a].stage = "load" /\ attempt'[a].upload = NoUpload /\ attempt'[a].outcome = "none"
    BY <1>1, <1>2, <2>0, Moved DEF IInv
  <2>2. Standing' = Standing /\ (GivenUp => GivenUp')
    BY <1>1, <1>2, Moved DEF IInv, Creator, Standing, Whole
  <2>3. Standing = {} \/ GivenUp
    BY <1>1 DEF IInv, Knows, Starts
  <2>4. Knows(a)'
    BY <2>1, <2>2, <2>3 DEF Knows, Holds
  <2> QED
    BY <1>1, <1>2, <2>4, MoveIInv DEF Creator
<1>3. CASE Fails(a, TRUE)
  BY <1>1, <1>3, FailsIInv DEF Creator
<1> QED
  BY <1>2, <1>3 DEF Creator

(* The file is read, or cannot be. *)
LEMMA LoadIInv ==
  ASSUME IInv, NEW a \in Attempts, Load(a)
  PROVE  IInv'
<1>1. attempt[a].stage = "load" /\ attempt[a].stage \in Working /\ {"init", "probe"} \subseteq Running
  BY DEF Load, Running, Working
<1>2. CASE Goto(a, IF attempt[a].upload = NoUpload THEN "init" ELSE "probe") /\ UNCHANGED ledger
  <2> DEFINE stage == IF attempt[a].upload = NoUpload THEN "init" ELSE "probe"
  <2>1. stage \in Running /\ stage \in {"init", "probe"}
        /\ (stage = "init" <=> attempt[a].upload = NoUpload)
    BY <1>1
  <2> HIDE DEF stage
  <2>2. Goto(a, stage)
    BY <1>2 DEF stage
  <2>3. attempt'[a].stage = stage /\ attempt'[a].upload = attempt[a].upload /\ attempt'[a].outcome = "none"
    BY <1>1, <2>1, <2>2, Moved DEF IInv, Knows
  <2>4. Standing' = Standing /\ (GivenUp => GivenUp')
    BY <2>1, <2>2, Moved DEF IInv, Load, Standing, Whole
  <2>5. CASE stage = "init"
    <3>1. Standing = {} \/ GivenUp
      BY <1>1, <2>1, <2>5 DEF IInv, Knows, Starts
    <3> QED
      BY <1>1, <1>2, <2>1, <2>2, <2>3, <2>4, <2>5, <3>1, MoveIInv DEF Load, Knows, Holds
  <2>6. CASE stage = "probe"
    <3>1. /\ attempt[a].upload = ledger.upload /\ ledger.upload \in Uploads
          /\ ledger.status # "NONE" /\ ledger.open
      BY <1>1, <2>1, <2>6 DEF IInv, Knows, Holds
    <3> QED
      BY <1>1, <1>2, <2>1, <2>2, <2>3, <2>6, <3>1, MoveIInv DEF Load, Knows, Starts
  <2> QED
    BY <2>1, <2>5, <2>6
<1>3. CASE Return(a, "REFUSED") /\ UNCHANGED ledger
  BY <1>1, <1>3, ReturnIInv DEF Load
<1>4. CASE /\ FailLedger
           /\ attempt' = [attempt EXCEPT ![a].stage = "answer", ![a].outcome = "REFUSED",
                                         ![a].gaveUp = @ \/ Whole(ledger.upload)]
  <2>1. Whole(ledger.upload) \in BOOLEAN
    BY DEF Whole
  <2>2. /\ attempt' \in [Attempts -> Calls] /\ \A b \in Attempts : b # a => attempt'[b] = attempt[b]
        /\ attempt'[a].stage = "answer" /\ attempt'[a].outcome = "REFUSED"
        /\ attempt[a].gaveUp \/ Whole(ledger.upload) => attempt'[a].gaveUp
    BY <1>4, <2>1 DEF IInv, TypeOK, Calls, Outcomes, Running
  <2>3. GivenUp \/ Standing = {} \/ GivenUp'
    BY <2>2 DEF IInv, NextAttemptFindsIt, Standing, GivenUp
  <2> QED
    BY <1>1, <1>4, <2>2, <2>3, FailLedgerIInv DEF Load
<1> QED
  BY <1>2, <1>3, <1>4 DEF Load

(* The session of an earlier attempt is asked what it has. *)
LEMMA ProbeIInv ==
  ASSUME IInv, NEW a \in Attempts, Probe(a)
  PROVE  IInv'
<1>1. /\ attempt[a].stage = "probe" /\ attempt[a].stage \in Working /\ Holds(a)
      /\ {"init", "finish", "chunk"} \subseteq Running
  BY DEF Probe, Running, Working, Holds
<1>2. /\ attempt[a].outcome = "none" /\ attempt[a].upload = ledger.upload /\ ledger.upload \in Uploads
      /\ ledger.status # "NONE" /\ ledger.open
  BY <1>1 DEF IInv, Knows
<1>3. CASE Goto(a, IF Whole(attempt[a].upload) THEN "finish" ELSE "chunk")
  <2> DEFINE stage == IF Whole(attempt[a].upload) THEN "finish" ELSE "chunk"
  <2>1. stage \in {"finish", "chunk"} /\ (stage = "chunk" => ~Whole(attempt[a].upload)) /\ Goto(a, stage)
    BY <1>3
  <2> HIDE DEF stage
  <2>2. stage = "chunk" => UploadOf(a).received < Chunks
    BY <1>2, <2>1, UploadConstants DEF UploadOf, Whole, IInv, TypeOK, UploadStates
  <2>3. stage \in Running
    BY <1>1, <2>1
  <2>4. attempt'[a].stage = stage /\ attempt'[a].upload = attempt[a].upload /\ attempt'[a].outcome = "none"
    BY <1>2, <2>1, <2>3, Moved DEF IInv
  <2>5. UploadOf(a)' = UploadOf(a) /\ ledger' = ledger
    BY <2>4 DEF Probe, UploadOf
  <2>6. Knows(a)'
    BY <1>2, <2>1, <2>2, <2>4, <2>5 DEF Knows, Starts
  <2> QED
    BY <1>1, <2>1, <2>3, <2>6, MoveIInv DEF Probe
<1>4. CASE GiveUp(a, "init")
  BY <1>1, <1>4, GiveUpIInv DEF Probe
<1>5. CASE Fails(a, FALSE)
  BY <1>1, <1>5, FailsIInv DEF Probe
<1> QED
  BY <1>3, <1>4, <1>5 DEF Probe

(* A session is issued: the platform has an address, and no byte of it. *)
LEMMA InitiateIInv ==
  ASSUME IInv, NEW a \in Attempts, Initiate(a)
  PROVE  IInv'
<1>1. attempt[a].stage = "init" /\ attempt[a].stage \in Working /\ (~YouTube) \in BOOLEAN
  BY DEF Initiate, Running, Working, YouTube
<1>2. CASE Fails(a, ~YouTube) /\ UNCHANGED upload
  BY <1>1, <1>2, FailsIInv DEF Initiate
<1>3. ASSUME NEW u \in Uploads, upload[u].address = "NONE",
             upload' = [upload EXCEPT ![u].address = "OPEN"],
             \/ attempt' = [attempt EXCEPT ![a].stage = "record", ![a].upload = u]
             \/ Fails(a, ~YouTube)
      PROVE  IInv'
  <2>1. upload' \in [Uploads -> UploadStates]
    BY <1>3 DEF IInv, TypeOK, UploadStates
  <2>2. \A v \in Uploads : upload'[v].post = upload[v].post /\ upload'[v].received = upload[v].received
    BY <1>3 DEF IInv, TypeOK, UploadStates
  <2>3. upload[u].received = 0
    BY <1>3 DEF IInv, UploadsAreWhole
  <2>4. \A v \in Uploads : v # u => upload'[v] = upload[v]
    BY <1>3 DEF IInv, TypeOK
  <2>5. upload'[u].address = "OPEN"
    BY <1>3 DEF IInv, TypeOK, UploadStates
  <2>6. UploadsAreWhole'
    BY <2>2, <2>4, <2>5 DEF IInv, UploadsAreWhole
  <2>7. CASE attempt' = [attempt EXCEPT ![a].stage = "record", ![a].upload = u]
    <3>1. /\ attempt'[a] = [attempt[a] EXCEPT !.stage = "record", !.upload = u]
          /\ \A b \in Attempts : b # a => attempt'[b] = attempt[b]
      BY <2>7 DEF IInv, TypeOK
    <3>2. attempt[a] \in Calls /\ attempt[a].outcome = "none"
      BY <1>1 DEF IInv, TypeOK, Knows
    <3>3. /\ attempt'[a].stage = "record" /\ attempt'[a].upload = u /\ attempt'[a].outcome = "none"
          /\ attempt'[a].gaveUp = attempt[a].gaveUp /\ attempt'[a] \in Calls
      BY <3>1, <3>2 DEF Calls, Running, Working
    <3>4. attempt' \in [Attempts -> Calls]
      BY <2>7, <3>3, <3>1 DEF IInv, TypeOK
    <3>5. TypeOK'
      BY <2>1, <3>4 DEF IInv, TypeOK, Initiate
    <3>6. (Standing = {} \/ GivenUp) /\ Standing' = Standing
      BY <1>1, <2>2 DEF IInv, Knows, Starts, Standing, Whole
    <3>7. GivenUp => GivenUp'
      BY <3>1, <3>3 DEF GivenUp
    <3>8. Knows(a)'
      BY <2>2, <2>3, <3>3, <3>6, <3>7 DEF Knows, Holds, UploadOf
    <3>9. Ended(a)'
      BY <3>3 DEF Ended
    <3> QED
      BY <1>1, <2>2, <2>6, <3>1, <3>3, <3>5, <3>8, <3>9, QuietStep DEF Initiate
  <2>8. CASE Fails(a, ~YouTube)
    <3>1. PICK outcome \in {"RETRY", "REFUSED", "AMBIGUOUS"} : Return(a, outcome)
      BY <1>1, <2>8, FailsReturns
    <3>2. outcome \in Outcomes /\ outcome \notin {"PUBLISHED", "ALREADY"}
      BY DEF Outcomes
    <3>3. TypeOK'
      BY <2>1, <3>1, <3>2, Returned DEF IInv, TypeOK, Initiate
    <3> QED
      BY <1>1, <2>2, <2>6, <3>1, <3>2, <3>3, Returned, QuietStep DEF Initiate, IInv
  <2> QED
    BY <1>3, <2>7, <2>8
<1> QED
  BY <1>2, <1>3 DEF Initiate

(* The upload is recorded before its first byte is sent. *)
LEMMA RecordIInv ==
  ASSUME IInv, NEW a \in Attempts, Record(a)
  PROVE  IInv'
<1>1. attempt[a].stage = "record" /\ attempt[a].stage \in Working /\ "chunk" \in Running /\ Goto(a, "chunk")
  BY DEF Record, Running, Working
<1>2. /\ attempt[a].outcome = "none" /\ attempt[a].upload \in Uploads /\ UploadOf(a).received = 0
      /\ Standing = {} \/ GivenUp
  <2>1. Knows(a)
    BY DEF IInv
  <2>2. Starts(a)
    BY <1>1 DEF Starts
  <2> QED
    BY <1>1, <2>1, <2>2 DEF Knows
<1>3. /\ attempt' \in [Attempts -> Calls] /\ attempt'[a].stage = "chunk"
      /\ attempt'[a].upload = attempt[a].upload /\ attempt'[a].outcome = "none"
      /\ attempt'[a].gaveUp = attempt[a].gaveUp
      /\ \A b \in Attempts : b # a => attempt'[b] = attempt[b]
      /\ GivenUp => GivenUp'
  BY <1>1, <1>2, Moved DEF IInv
<1>4. /\ ledger' = [upload |-> attempt[a].upload, open |-> TRUE, status |-> "REGISTERED"]
      /\ upload' = upload /\ platform' = platform
  BY DEF Record
<1>5. TypeOK'
  BY <1>2, <1>3, <1>4 DEF IInv, TypeOK, Ledgers
<1>6. Standing' = Standing /\ Posts' = Posts
  BY <1>4 DEF Standing, Posts, Whole
<1>7. Knows(a)' /\ Ended(a)'
  BY <1>2, <1>3, <1>4, UploadConstants DEF Knows, Starts, Ended, UploadOf
<1>8. NextAttemptFindsIt'
  BY <1>2, <1>3, <1>6 DEF NextAttemptFindsIt
<1>9. OpenIsRegistered' /\ UploadsAreWhole' /\ UploadedIsTold'
  BY <1>2, <1>4, UploadConstants DEF IInv, OpenIsRegistered, UploadsAreWhole, UploadedIsTold
<1>10. PublishedIsOut'
  <2>1. ASSUME NEW b \in Attempts, attempt'[b].outcome \in {"PUBLISHED", "ALREADY"}
        PROVE  Told(attempt[b].upload)' /\ attempt'[b] = attempt[b]
    <3>1. b # a
      BY <2>1, <1>3
    <3>2. Told(attempt[b].upload)
      BY <2>1, <1>3, <3>1 DEF IInv, PublishedIsOut, Told
    <3> QED
      BY <1>1, <1>3, <1>5, <1>6, <3>1, <3>2, StepsAlone DEF Told
  <2> QED
    BY <2>1 DEF PublishedIsOut, Told
<1> QED
  BY <1>1, <1>3, <1>5, <1>7, <1>8, <1>9, <1>10, StepsAlone DEF IInv

(* A part is sent.  The one that makes the file whole makes it the only      *)
(* upload that stands, and the ledger has it.                                *)
LEMMA ChunkIInv ==
  ASSUME IInv, NEW a \in Attempts, Chunk(a)
  PROVE  IInv'
<1> DEFINE u == attempt[a].upload
<1>1. attempt[a].stage = "chunk" /\ attempt[a].stage \in Working /\ YouTube \in BOOLEAN /\ Knows(a)
      /\ Holds(a) /\ {"chunk", "finish", "settle", "drop"} \subseteq Running
  BY DEF Chunk, Running, Working, YouTube, IInv, Holds
<1>2. /\ attempt[a].outcome = "none" /\ u = ledger.upload /\ u \in Uploads
      /\ ledger.status = "REGISTERED" /\ ledger.open /\ upload[u].received < Chunks
  BY <1>1 DEF Knows, IInv, OpenIsRegistered, UploadOf
<1>3. platform' = platform /\ ledger' = ledger
  BY DEF Chunk
<1>4. CASE Fails(a, YouTube) /\ UNCHANGED upload
  BY <1>1, <1>3, <1>4, FailsIInv
<1>5. CASE Goto(a, "drop") /\ UNCHANGED upload
  <2>1. attempt'[a].stage = "drop" /\ attempt'[a].upload = u /\ attempt'[a].outcome = "none"
    BY <1>1, <1>2, <1>5, Moved DEF IInv
  <2>2. Knows(a)'
    BY <1>2, <1>3, <2>1 DEF Knows, Starts
  <2> QED
    BY <1>1, <1>3, <1>5, <2>2, MoveIInv
<1>6. ASSUME Received(u),
             \/ Goto(a, IF upload[u].received + 1 < Chunks THEN "chunk"
                        ELSE IF YouTube THEN "finish" ELSE "settle")
             \/ Fails(a, YouTube)
      PROVE  IInv'
  <2> HIDE DEF u
  <2>1. PICK post \in {"NONE", "LIVE", "REFUSED", "PROCESSING"} :
          /\ upload' = [upload EXCEPT ![u].received = upload[u].received + 1, ![u].post = post]
          /\ upload[u].received + 1 < Chunks => post = "NONE"
          /\ post # "NONE" => upload[u].received + 1 = Chunks
    BY <1>2, <1>6, UploadConstants DEF Received, IInv, TypeOK, UploadStates
  <2>2. upload[u] \in UploadStates /\ upload[u].received \in Nat /\ Chunks \in Nat
    BY <1>2, UploadConstants DEF IInv, TypeOK, UploadStates
  <2>3. upload[u].received + 1 \in 0 .. Chunks
    BY <1>2, <2>2
  <2>4. /\ upload'[u] = [upload[u] EXCEPT !.received = upload[u].received + 1, !.post = post]
        /\ \A v \in Uploads : v # u => upload'[v] = upload[v]
    BY <1>2, <2>1 DEF IInv, TypeOK
  <2>5. /\ upload'[u].received = upload[u].received + 1 /\ upload'[u].post = post
        /\ upload'[u].address = upload[u].address /\ upload'[u] \in UploadStates
    BY <2>2, <2>3, <2>4 DEF UploadStates
  <2>6. upload' \in [Uploads -> UploadStates]
    <3>1. \A v \in Uploads : upload'[v] \in UploadStates
      BY <2>4, <2>5 DEF IInv, TypeOK
    <3>2. upload' = [v \in Uploads |-> upload'[v]]
      BY <2>1 DEF IInv, TypeOK
    <3> QED
      BY <3>1, <3>2
  <2>7. upload[u].address # "NONE"
    <3>1. upload'[u].received # upload[u].received
      BY <2>2, <2>5
    <3>2. upload' # upload
      BY <3>1
    <3> QED
      BY <3>2 DEF Chunk, u
  <2>8. UploadsAreWhole'
    BY <2>1, <2>4, <2>5, <2>7 DEF IInv, UploadsAreWhole
  <2>9. u \notin Standing /\ upload[u].post # "LIVE"
    BY <1>2, <2>2 DEF Standing, Whole, IInv, UploadsAreWhole
  <2>10. Standing' \subseteq Standing \cup {u}
    BY <2>4 DEF Standing, Whole
  <2>11. \A v \in Uploads : upload[v].post = "LIVE" => upload'[v].post = "LIVE"
    BY <2>4, <2>9
  <2>12. GivenUp \/ Standing = {}
    BY <1>2, <2>9 DEF IInv, NextAttemptFindsIt
  <2>13. /\ attempt' \in [Attempts -> Calls] /\ Knows(a)' /\ Ended(a)'
         /\ attempt'[a].outcome \notin {"PUBLISHED", "ALREADY"}
         /\ attempt'[a].gaveUp = attempt[a].gaveUp
         /\ \A b \in Attempts : b # a => attempt'[b] = attempt[b]
    <3>1. CASE Fails(a, YouTube)
      <4>1. PICK outcome \in {"RETRY", "REFUSED", "AMBIGUOUS"} : Return(a, outcome)
        BY <1>1, <3>1, FailsReturns
      <4>2. outcome \in Outcomes /\ outcome \notin {"PUBLISHED", "ALREADY"}
        BY DEF Outcomes
      <4> QED
        BY <4>1, <4>2, Returned DEF IInv
    <3>2. ASSUME NEW stage \in {"chunk", "finish", "settle"}, Goto(a, stage),
                 stage = "chunk" => upload[u].received + 1 < Chunks
          PROVE  <2>13
      <4>1. /\ attempt' \in [Attempts -> Calls] /\ attempt'[a].stage = stage
            /\ attempt'[a].upload = u /\ attempt'[a].outcome = "none"
            /\ attempt'[a].gaveUp = attempt[a].gaveUp
            /\ \A b \in Attempts : b # a => attempt'[b] = attempt[b]
        BY <1>1, <1>2, <3>2, Moved DEF IInv, u
      <4>2. Knows(a)'
        BY <1>2, <1>3, <2>5, <3>2, <4>1 DEF Knows, Starts, UploadOf
      <4> QED
        BY <4>1, <4>2 DEF Ended
    <3> QED
      BY <1>6, <3>1, <3>2
  <2>14. TypeOK'
    BY <1>3, <2>6, <2>13 DEF IInv, TypeOK
  <2>15. /\ OneRuns' /\ \A b \in Attempts : b # a => Knows(b)' /\ Ended(b)'
         /\ GivenUp => GivenUp'
         /\ \A v \in Uploads : v \in Posts' /\ Told(v) => Told(v)'
         /\ \A v : (\E b \in Attempts : attempt[b].outcome \in Unseen /\ attempt[b].upload = v) => Told(v)'
    BY <1>1, <2>13, <2>14, StepsAlone
  <2>16. \A v : Told(v) => Told(v)'
    BY <2>11, <2>15 DEF Told, Posts
  <2>17. NextAttemptFindsIt'
    <3>1. Resumable'
      BY <1>2, <1>3, UploadConstants DEF Resumable
    <3>2. Standing' = {} \/ Standing' = {u} \/ GivenUp'
      BY <2>10, <2>12, <2>15
    <3> QED
      BY <1>2, <1>3, <3>1, <3>2 DEF NextAttemptFindsIt
  <2>18. OpenIsRegistered' /\ UploadedIsTold'
    BY <1>2, <1>3 DEF IInv, OpenIsRegistered, UploadedIsTold
  <2>19. PublishedIsOut'
    <3>1. ASSUME NEW b \in Attempts, attempt'[b].outcome \in {"PUBLISHED", "ALREADY"}
          PROVE  Told(attempt[b].upload)' /\ attempt'[b] = attempt[b]
      <4>1. b # a /\ attempt'[b] = attempt[b]
        BY <2>13, <3>1
      <4>2. Told(attempt[b].upload)
        BY <3>1, <4>1 DEF IInv, PublishedIsOut, Told
      <4> QED
        BY <2>16, <4>1, <4>2
    <3> QED
      BY <3>1 DEF PublishedIsOut, Told
  <2> QED
    BY <2>8, <2>13, <2>14, <2>15, <2>17, <2>18, <2>19 DEF IInv
<1> QED
  BY <1>4, <1>5, <1>6 DEF Chunk

(* An upload whose address expired half-way is let go of. *)
LEMMA DropIInv ==
  ASSUME IInv, NEW a \in Attempts, Drop(a)
  PROVE  IInv'
<1>1. attempt[a].stage = "drop" /\ attempt[a].stage \in Working /\ Holds(a) /\ Knows(a)
  BY DEF Drop, Running, Working, Holds, IInv
<1>2. Whole(attempt[a].upload) \in BOOLEAN
  BY DEF Whole
<1>3. /\ attempt' \in [Attempts -> Calls] /\ \A b \in Attempts : b # a => attempt'[b] = attempt[b]
      /\ attempt'[a].stage = "answer" /\ attempt'[a].outcome = "RETRY"
      /\ attempt[a].gaveUp \/ Whole(attempt[a].upload) => attempt'[a].gaveUp
  <2>1. attempt[a] \in Calls /\ "RETRY" \in Outcomes /\ "answer" \in Running
    BY DEF IInv, TypeOK, Outcomes, Running
  <2>2. attempt'[a] = [attempt[a] EXCEPT !.stage = "answer", !.outcome = "RETRY",
                         !.gaveUp = attempt[a].gaveUp \/ Whole(attempt[a].upload)]
    BY DEF Drop, IInv, TypeOK
  <2>3. /\ attempt'[a] \in Calls /\ attempt'[a].stage = "answer" /\ attempt'[a].outcome = "RETRY"
        /\ attempt[a].gaveUp \/ Whole(attempt[a].upload) => attempt'[a].gaveUp
    BY <1>2, <2>1, <2>2 DEF Calls
  <2> QED
    BY <2>3 DEF Drop, IInv, TypeOK
<1>4. GivenUp \/ Standing = {} \/ GivenUp'
  BY <1>1, <1>3 DEF IInv, Knows, NextAttemptFindsIt, Standing, GivenUp
<1> QED
  BY <1>1, <1>3, <1>4, FailLedgerIInv DEF Drop

(* The state of a publish id is asked for. *)
LEMMA SettleIInv ==
  ASSUME IInv, NEW a \in Attempts, Settle(a)
  PROVE  IInv'
<1>1. /\ attempt[a].stage \in {"ask", "settle"} /\ attempt[a].stage \in Working /\ Holds(a) /\ Knows(a)
      /\ "finish" \in Running
  BY DEF Settle, Running, Working, Holds, IInv
<1>2. /\ attempt[a].outcome = "none" /\ attempt[a].upload = ledger.upload /\ ledger.upload \in Uploads
      /\ ledger.status # "NONE"
  BY <1>1 DEF Knows
<1>3. CASE Goto(a, "finish") /\ UNCHANGED ledger
  <2>1. attempt'[a].stage = "finish" /\ attempt'[a].upload = attempt[a].upload /\ attempt'[a].outcome = "none"
    BY <1>1, <1>2, <1>3, Moved DEF IInv
  <2>2. Knows(a)'
    BY <1>2, <1>3, <2>1 DEF Knows, Starts
  <2> QED
    BY <1>1, <1>3, <2>2, MoveIInv DEF Settle
<1>4. CASE UploadOf(a).post = "REFUSED" /\ FailLedger /\ Decide(a, "REFUSED")
  <2>1. Standing # {ledger.upload}
    BY <1>2, <1>4 DEF Standing, UploadOf
  <2>2. GivenUp \/ Standing = {}
    BY <2>1 DEF IInv, NextAttemptFindsIt
  <2>3. /\ attempt' \in [Attempts -> Calls] /\ attempt'[a].outcome = "REFUSED" /\ attempt'[a].stage = "answer"
        /\ attempt'[a].gaveUp = attempt[a].gaveUp
        /\ \A b \in Attempts : b # a => attempt'[b] = attempt[b]
    <3>1. "REFUSED" \in Outcomes
      BY DEF Outcomes
    <3> QED
      BY <1>4, <3>1, Decided DEF IInv
  <2> QED
    BY <1>1, <1>4, <2>2, <2>3, FailLedgerIInv DEF Settle
<1>5. CASE GiveUp(a, "creator") /\ UNCHANGED ledger
  BY <1>1, <1>5, GiveUpIInv DEF Settle
<1>6. CASE Return(a, "PROCESSING") /\ UNCHANGED ledger
  BY <1>1, <1>6, ReturnIInv DEF Settle
<1>7. CASE Fails(a, FALSE) /\ UNCHANGED ledger
  BY <1>1, <1>7, FailsIInv DEF Settle
<1> QED
  BY <1>3, <1>4, <1>5, <1>6, <1>7 DEF Settle

(* The row is marked uploaded, and what the platform said is reported. *)
LEMMA FinishIInv ==
  ASSUME IInv, NEW a \in Attempts, Finish(a)
  PROVE  IInv'
<1> DEFINE u == attempt[a].upload
           outcome == IF UploadOf(a).post = "LIVE" THEN "PUBLISHED" ELSE "UNVIEWABLE"
<1>1. attempt[a].stage = "finish" /\ attempt[a].stage \in Working /\ Holds(a) /\ Knows(a)
  BY DEF Finish, Running, Working, Holds, IInv
<1>2. u = ledger.upload /\ u \in Uploads /\ ledger.status # "NONE"
  BY <1>1 DEF Knows
<1>3. outcome \in {"PUBLISHED", "UNVIEWABLE"} /\ outcome \in Outcomes /\ (outcome = "PUBLISHED" => u \in Posts)
  BY <1>2 DEF Outcomes, Posts, UploadOf, Unseen
<1>4. Decide(a, outcome) /\ upload' = upload /\ platform' = platform
  BY DEF Finish
<1> HIDE DEF outcome
<1>5. /\ attempt' \in [Attempts -> Calls] /\ Knows(a)' /\ Ended(a)'
      /\ attempt'[a].outcome = outcome /\ attempt'[a].upload = u
      /\ attempt'[a].gaveUp = attempt[a].gaveUp
      /\ \A b \in Attempts : b # a => attempt'[b] = attempt[b]
  BY <1>3, <1>4, Decided DEF IInv
<1>6. ledger' = [upload |-> u, open |-> FALSE, status |-> "UPLOADED"]
  BY <1>2 DEF Finish
<1>7. TypeOK'
  BY <1>2, <1>4, <1>5, <1>6 DEF IInv, TypeOK, Ledgers
<1>8. Standing' = Standing /\ Posts' = Posts
  BY <1>4 DEF Standing, Posts, Whole
<1>9. /\ OneRuns' /\ \A b \in Attempts : b # a => Knows(b)' /\ Ended(b)'
      /\ GivenUp => GivenUp'
      /\ \A v \in Uploads : v \in Posts' /\ Told(v) => Told(v)'
      /\ \A v : (\E b \in Attempts : attempt[b].outcome \in Unseen /\ attempt[b].upload = v) => Told(v)'
  BY <1>1, <1>5, <1>7, StepsAlone
<1>10. \A v : Told(v) => Told(v)'
  BY <1>8, <1>9 DEF Told
<1>11. Told(u)'
  BY <1>3, <1>5, <1>8 DEF Told, Unseen
<1>12. NextAttemptFindsIt'
  BY <1>2, <1>6, <1>8, <1>9 DEF IInv, NextAttemptFindsIt
<1>13. OpenIsRegistered' /\ UploadsAreWhole'
  BY <1>2, <1>4, <1>6, UploadConstants DEF IInv, OpenIsRegistered, UploadsAreWhole
<1>14. UploadedIsTold'
  <2>1. ledger'.upload = u
    BY <1>6
  <2>2. (u \in Posts \/ \E b \in Attempts : attempt'[b].outcome \in Unseen /\ attempt'[b].upload = u)
    BY <1>3, <1>5 DEF Unseen
  <2> QED
    BY <1>8, <2>1, <2>2 DEF UploadedIsTold, Told
<1>15. PublishedIsOut'
  <2>1. ASSUME NEW b \in Attempts, attempt'[b].outcome \in {"PUBLISHED", "ALREADY"}, NEW v,
               v = attempt'[b].upload
        PROVE  Told(v)'
    <3>1. CASE b = a
      BY <1>3, <1>5, <1>8, <2>1, <3>1 DEF Told
    <3>2. CASE b # a
      <4>1. Told(v)
        BY <1>5, <2>1, <3>2 DEF IInv, PublishedIsOut, Told
      <4> QED
        BY <4>1, <1>10
    <3> QED
      BY <3>1, <3>2
  <2> QED
    BY <2>1 DEF PublishedIsOut, Told
<1> QED
  BY <1>5, <1>7, <1>9, <1>12, <1>13, <1>14, <1>15 DEF IInv

(* What was decided is returned, or dies with the attempt: who found the     *)
(* video not viewable is still known.                                        *)
LEMMA AnswerIInv ==
  ASSUME IInv, NEW a \in Attempts, attempt[a].stage = "answer", Answer(a) \/ Crash(a)
  PROVE  IInv'
<1>1. /\ ledger' = ledger /\ upload' = upload /\ platform' = platform
      /\ \A b \in Attempts : b # a => attempt'[b] = attempt[b]
  BY DEF Answer, Crash, Goto, Return, IInv, TypeOK
<1>2. PICK outcome \in Outcomes :
        /\ attempt' = [attempt EXCEPT ![a].stage = "done", ![a].outcome = outcome]
        /\ attempt[a].outcome \in Unseen => outcome \in Unseen
        /\ outcome \in {"PUBLISHED", "ALREADY"} => outcome = attempt[a].outcome
  <2>1. attempt \in [Attempts -> Calls] /\ attempt[a].outcome \in Outcomes
    BY DEF IInv, TypeOK, Calls
  <2>2. CASE Answer(a)
    <3>1. attempt[a] = [attempt[a] EXCEPT !.outcome = attempt[a].outcome]
      BY <2>1 DEF Calls
    <3>2. attempt' = [attempt EXCEPT ![a].stage = "done", ![a].outcome = attempt[a].outcome]
      BY <2>1, <2>2, <3>1 DEF Answer, Goto, Calls
    <3> QED
      BY <2>1, <3>2
  <2>3. CASE Crash(a)
    <3> DEFINE outcome == IF attempt[a].outcome = "UNVIEWABLE" THEN "UNTOLD" ELSE "CRASHED"
    <3>1. outcome \in Outcomes /\ outcome \notin {"PUBLISHED", "ALREADY"}
      BY DEF Outcomes, Unseen
    <3>2. attempt[a].outcome # "UNTOLD"
      BY DEF IInv, Knows
    <3>3. attempt[a].outcome \in Unseen => outcome \in Unseen
      BY <3>2 DEF Unseen
    <3> QED
      BY <2>3, <3>1, <3>3 DEF Crash, Return
  <2> QED
    BY <2>2, <2>3
<1>3. /\ attempt' \in [Attempts -> Calls] /\ Knows(a)' /\ Ended(a)' /\ attempt'[a].stage = "done"
      /\ attempt'[a].outcome = outcome /\ attempt'[a].upload = attempt[a].upload
      /\ attempt'[a].gaveUp = attempt[a].gaveUp
  BY <1>2, Returned DEF Return, IInv
<1>4. TypeOK'
  BY <1>1, <1>3 DEF IInv, TypeOK
<1>5. \A b \in Attempts : b # a => attempt[b].stage \notin Running
  BY DEF IInv, OneRuns, Running
<1>6. OneRuns' /\ \A b \in Attempts : Knows(b)' /\ Ended(b)'
  BY <1>1, <1>3, <1>5 DEF OneRuns, Knows, Holds, Starts, Running, Working, Ended, IInv
<1>7. Standing' = Standing /\ Posts' = Posts /\ (GivenUp => GivenUp')
  BY <1>1, <1>3 DEF Standing, Posts, Whole, GivenUp
<1>8. \A u : Told(u) => Told(u)'
  BY <1>1, <1>2, <1>3, <1>7 DEF Told
<1>9. OpenIsRegistered' /\ UploadsAreWhole' /\ NextAttemptFindsIt' /\ UploadedIsTold'
  BY <1>1, <1>7, <1>8 DEF IInv, OpenIsRegistered, UploadsAreWhole, NextAttemptFindsIt, Resumable, YouTube,
       UploadedIsTold
<1>10. PublishedIsOut'
  <2>1. ASSUME NEW b \in Attempts, attempt'[b].outcome \in {"PUBLISHED", "ALREADY"}, NEW u,
               u = attempt'[b].upload
        PROVE  Told(u)'
    <3>1. attempt[b].outcome \in {"PUBLISHED", "ALREADY"} /\ u = attempt[b].upload
      BY <1>1, <1>2, <1>3, <2>1
    <3>2. Told(u)
      BY <3>1 DEF IInv, PublishedIsOut, Told
    <3> QED
      BY <1>8, <3>2
  <2> QED
    BY <2>1 DEF PublishedIsOut, Told
<1> QED
  BY <1>4, <1>6, <1>9, <1>10 DEF IInv

-----------------------------------------------------------------------------
(* The steps of the platform *)

(* What the platform does by itself takes no file away: it makes posts of    *)
(* whole files, or refuses them.                                             *)
LEMMA PlatformIInv ==
  ASSUME IInv, NEW u \in Uploads, Process(u) \/ Expire(u)
  PROVE  IInv'
<1>1. attempt' = attempt /\ ledger' = ledger /\ platform' = platform
  BY DEF Process, Expire
<1> DEFINE Kept(v) == /\ upload'[v].received = upload[v].received
                      /\ upload'[v].address = "NONE" => upload[v].address = "NONE"
                      /\ upload'[v].post # "NONE" => upload[v].post # "NONE"
                      /\ upload[v].post = "LIVE" => upload'[v].post = "LIVE"
                      /\ upload[v].post = "REFUSED" => upload'[v].post = "REFUSED"
<1>2. upload' \in [Uploads -> UploadStates] /\ \A v \in Uploads : Kept(v)
  <2>1. CASE Process(u)
    <3>1. PICK post \in {"LIVE", "REFUSED", "INBOX"} : upload' = [upload EXCEPT ![u].post = post]
      BY <2>1 DEF Process
    <3>2. upload'[u] = [upload[u] EXCEPT !.post = post] /\ \A v \in Uploads : v # u => upload'[v] = upload[v]
      BY <3>1 DEF IInv, TypeOK
    <3>3. /\ upload'[u].post = post /\ upload'[u].received = upload[u].received
          /\ upload'[u].address = upload[u].address /\ upload'[u] \in UploadStates
      BY <3>2 DEF IInv, TypeOK, UploadStates
    <3>4. upload' = [v \in Uploads |-> upload'[v]]
      BY <3>1 DEF IInv, TypeOK
    <3>5. \A v \in Uploads : upload'[v] \in UploadStates
      BY <3>2, <3>3 DEF IInv, TypeOK
    <3> QED
      BY <2>1, <3>2, <3>3, <3>4, <3>5 DEF Process
  <2>2. CASE Expire(u)
    <3>1. upload' = [upload EXCEPT ![u].address = "GONE"]
      BY <2>2 DEF Expire
    <3>2. upload'[u] = [upload[u] EXCEPT !.address = "GONE"] /\ \A v \in Uploads : v # u => upload'[v] = upload[v]
      BY <3>1 DEF IInv, TypeOK
    <3>3. /\ upload'[u].post = upload[u].post /\ upload'[u].received = upload[u].received
          /\ upload'[u].address = "GONE" /\ upload'[u] \in UploadStates
      BY <3>2 DEF IInv, TypeOK, UploadStates
    <3>4. upload' = [v \in Uploads |-> upload'[v]]
      BY <3>1 DEF IInv, TypeOK
    <3>5. \A v \in Uploads : upload'[v] \in UploadStates
      BY <3>2, <3>3 DEF IInv, TypeOK
    <3> QED
      BY <3>2, <3>3, <3>4, <3>5
  <2> QED
    BY <2>1, <2>2
<1>3. TypeOK' /\ OneRuns' /\ OpenIsRegistered'
  BY <1>1, <1>2 DEF IInv, TypeOK, OneRuns, OpenIsRegistered
<1>0. \A v \in Uploads : Kept(v)
  BY <1>2
<1>4. UploadsAreWhole'
  BY <1>0 DEF IInv, UploadsAreWhole
<1>5. Standing' \subseteq Standing /\ Posts \subseteq Posts' /\ (GivenUp <=> GivenUp')
  <2>1. \A v \in Uploads : Whole(v)' = Whole(v)
    BY <1>0 DEF Whole
  <2>2. Standing' \subseteq Standing
    BY <1>0, <2>1 DEF Standing
  <2>3. Posts \subseteq Posts'
    BY <1>0 DEF Posts
  <2> QED
    BY <1>1, <2>2, <2>3 DEF GivenUp
<1>6. \A a \in Attempts : Knows(a)' /\ Ended(a)'
  <2>1. ASSUME NEW a \in Attempts PROVE Knows(a)' /\ Ended(a)'
    <3>1. attempt[a].upload \in Uploads => UploadOf(a)'.received = UploadOf(a).received
      BY <1>0, <1>1 DEF UploadOf
    <3>2. Holds(a)' = Holds(a) /\ Starts(a)' = Starts(a)
      BY <1>1 DEF Holds, Starts
    <3>3. attempt[a].stage = "chunk" => attempt[a].upload \in Uploads
      BY DEF IInv, Knows, Holds
    <3> QED
      BY <1>1, <1>5, <3>1, <3>2, <3>3 DEF IInv, Knows, Ended
  <2> QED
    BY <2>1
<1>7. NextAttemptFindsIt'
  BY <1>1, <1>5 DEF IInv, NextAttemptFindsIt, Resumable, YouTube
<1>8. UploadedIsTold' /\ PublishedIsOut'
  BY <1>1, <1>5 DEF IInv, UploadedIsTold, PublishedIsOut, Told
<1> QED
  BY <1>3, <1>4, <1>6, <1>7, <1>8 DEF IInv

-----------------------------------------------------------------------------
(* Every step keeps the invariant. *)
LEMMA NextIInv ==
  ASSUME IInv, [Next]_vars
  PROVE  IInv'
<1>1. ASSUME NEW a \in Attempts, Invalid(a) \/ Crash(a), attempt[a].stage # "answer" PROVE IInv'
  <2>1. attempt[a].stage \in Working /\ UNCHANGED <<platform, ledger, upload>>
    BY <1>1 DEF Invalid, Crash, Running, Working
  <2>2. attempt[a].outcome = "none"
    BY <2>1 DEF IInv, Knows
  <2> QED
    BY <1>1, <2>1, <2>2, ReturnIInv DEF Invalid, Crash
<1>3. ASSUME NEW a \in Attempts, Invalid(a) PROVE attempt[a].stage # "answer"
  BY <1>3 DEF Invalid
<1>4. ASSUME NEW a \in Attempts, Answer(a) PROVE attempt[a].stage = "answer"
  BY <1>4 DEF Answer
<1>2. CASE UNCHANGED vars
  BY <1>2 DEF vars, IInv, TypeOK, OneRuns, Working, Knows, Ended, Holds, Starts, UploadOf, Standing, Whole, GivenUp,
       OpenIsRegistered, UploadsAreWhole, NextAttemptFindsIt, Resumable, YouTube, UploadedIsTold, Told,
       PublishedIsOut, Posts
<1> QED
  BY <1>1, <1>2, <1>3, <1>4, AnswerIInv, StartIInv, FindIInv, CreatorIInv, LoadIInv, ProbeIInv, InitiateIInv, RecordIInv, ChunkIInv,
     DropIInv, SettleIInv, FinishIInv, PlatformIInv DEF Next, Quiescent

THEOREM Invariance == Spec => []IInv
BY InitIInv, NextIInv, PTL DEF Spec

-----------------------------------------------------------------------------
(* The values of the variables stay in the sets declared for them: the       *)
(* ledger row, the platform's uploads and the attempts.                      *)
THEOREM TypeCorrect == Spec => []TypeOK
<1>1. IInv => TypeOK
  BY DEF IInv
<1> QED
  BY <1>1, Invariance, PTL

(* Wherever an attempt dies and whichever answer is lost, the next one finds *)
(* the upload that has the whole file in the ledger, unless one let go of it.*)
THEOREM NextAttemptFindsItAlways == Spec => []NextAttemptFindsIt
<1>1. IInv => NextAttemptFindsIt
  BY DEF IInv
<1> QED
  BY <1>1, Invariance, PTL

(* The whole file stands once at most, unless an attempt let go of one.      *)
THEOREM SentOnceAlways == Spec => []SentOnce
<1>1. IInv => SentOnce
  <2> SUFFICES ASSUME IInv, ~GivenUp PROVE Cardinality(Standing) <= 1
    BY DEF SentOnce
  <2>1. Standing = {} \/ Standing = {ledger.upload}
    BY DEF IInv, NextAttemptFindsIt
  <2>2. Cardinality({}) = 0
    BY FS_EmptySet
  <2>3. Cardinality({ledger.upload}) = 1
    BY FS_Singleton
  <2>4. Cardinality(Standing) \in {0, 1}
    BY <2>1, <2>2, <2>3
  <2> QED
    BY <2>4
<1> QED
  BY <1>1, Invariance, PTL

(* What an attempt reports as published is viewable, or the attempt that     *)
(* finished this very upload found that it is not, and told the operator so  *)
(* or died on the point of it.                                               *)
THEOREM PublishedIsOutAlways == Spec => []PublishedIsOut
<1>1. IInv => PublishedIsOut
  BY DEF IInv
<1> QED
  BY <1>1, Invariance, PTL

=============================================================================
