----------------------------- MODULE VideoUpload -----------------------------
(***************************************************************************)
(* Publishing one video to one channel: the YouTubeVideoPublisher, which   *)
(* resumes an interrupted upload session, and the TikTokVideoPublisher,    *)
(* which asks about a publish id it has not seen settled.  Both keep their *)
(* place in the SocialMediaUpload row of account and asset.  An attempt    *)
(* is one call of publish(); attempts die, lose answers, and are repeated. *)
(***************************************************************************)
EXTENDS Naturals, FiniteSets

CONSTANTS
  Attempts,     \* calls of publish() for the asset, one at a time
  Uploads,      \* sessions and publish ids the platform can issue (bound)
  NoUpload,
  Chunks        \* parts the file is sent in

ASSUME UploadConstants ==
  /\ NoUpload \notin Uploads
  /\ Chunks \in Nat \ {0}

VARIABLES
  platform,   \* the account's platform, which selects the publisher
  ledger,     \* the SocialMediaUpload row
  upload,     \* [Uploads -> what the platform holds]
  attempt     \* [Attempts -> what each call has read and where it stands]

vars == <<platform, ledger, upload, attempt>>

Platforms == {"YOUTUBE", "TIKTOK"}
YouTube == platform = "YOUTUBE"

(* The upload of the row, whether its sealed address is kept (a session can  *)
(* be resumed only with it), and the row's status.                           *)
Ledgers == [upload : Uploads \cup {NoUpload}, open : BOOLEAN,
            status : {"NONE", "REGISTERED", "UPLOADED", "FAILED"}]
NoLedger == [upload |-> NoUpload, open |-> FALSE, status |-> "NONE"]

(* INBOX is TikTok's SEND_TO_USER_INBOX; REFUSED is a video YouTube rejected *)
(* and a publish TikTok failed.                                              *)
UploadStates == [address : {"NONE", "OPEN", "GONE"}, received : 0 .. Chunks,
                 post : {"NONE", "PROCESSING", "LIVE", "REFUSED", "INBOX"}]
NoneYet == [address |-> "NONE", received |-> 0, post |-> "NONE"]

(* What publish() returns: ALREADY is PUBLISHED on the word of the ledger,   *)
(* PROCESSING is TRANSIENT with "Publish again and Spectra will check this   *)
(* same post", RETRY every other TRANSIENT, UNVIEWABLE the failure that says *)
(* the video was rejected or left in the inbox, REFUSED every other failure, *)
(* CRASHED an attempt that threw or died, UNTOLD one that died on the point  *)
(* of answering UNVIEWABLE.                                                  *)
Unseen == {"UNVIEWABLE", "UNTOLD"}
Outcomes == {"none", "PUBLISHED", "ALREADY", "PROCESSING", "RETRY", "AMBIGUOUS", "REFUSED", "CRASHED"}
            \cup Unseen
(* An attempt in "answer" has written the ledger and is about to return.     *)
Running == {"find", "ask", "creator", "load", "probe", "init", "record", "chunk", "drop",
            "settle", "finish", "answer"}

(* gaveUp: the attempt let go of a recorded upload that had the whole file.  *)
Calls == [stage : {"idle", "done"} \cup Running, upload : Uploads \cup {NoUpload},
          gaveUp : BOOLEAN, outcome : Outcomes]
NoAttempt == [stage |-> "idle", upload |-> NoUpload, gaveUp |-> FALSE, outcome |-> "none"]

Whole(u) == u \in Uploads /\ upload[u].received = Chunks
Posts == {u \in Uploads : upload[u].post = "LIVE"}
UploadOf(a) == upload[attempt[a].upload]

Goto(a, stage) == attempt' = [attempt EXCEPT ![a].stage = stage]
Return(a, outcome) ==
  attempt' = [attempt EXCEPT ![a].stage = "done", ![a].outcome = outcome]
(* The ledger has been written, and the outcome is still to be returned.     *)
Decide(a, outcome) ==
  attempt' = [attempt EXCEPT ![a].stage = "answer", ![a].outcome = outcome]
(* The attempt goes on without the upload it read from the ledger. *)
GiveUp(a, stage) ==
  attempt' = [attempt EXCEPT ![a].stage = stage, ![a].upload = NoUpload,
                             ![a].gaveUp = @ \/ Whole(attempt[a].upload)]

(* How a request that did not succeed is reported: refused or transient; a   *)
(* call that "may have been applied" is AMBIGUOUS when it timed out.         *)
Fails(a, mayApply) ==
  \E outcome \in {"RETRY", "REFUSED"} \cup (IF mayApply THEN {"AMBIGUOUS"} ELSE {}) :
    Return(a, outcome)

(* An operator named X_Y is X with the bug Y; the mutants of the runs use it. *)

-----------------------------------------------------------------------------
(* publish() up to the upload *)

(* The executor calls publish(); one attempt of the asset at a time. *)
Start(a) ==
  /\ attempt[a].stage = "idle"
  /\ \A b \in Attempts : attempt[b].stage \notin Running
  /\ Goto(a, "find")
  /\ UNCHANGED <<platform, ledger, upload>>

(* The input is refused before the ledger is read. *)
Invalid(a) ==
  /\ attempt[a].stage = "find"
  /\ Return(a, "REFUSED")
  /\ UNCHANGED <<platform, ledger, upload>>

(* What a new attempt goes on with: YouTube a session whose address is kept, *)
(* TikTok a publish id that has not failed.                                  *)
Resumable ==
  IF YouTube THEN ledger.open ELSE ledger.upload # NoUpload /\ ledger.status # "FAILED"

(* A finished upload is never sent again. *)
Find(a) ==
  /\ attempt[a].stage = "find"
  /\ IF ledger.status = "UPLOADED"
     THEN attempt' = [attempt EXCEPT ![a].stage = "done", ![a].outcome = "ALREADY",
                                     ![a].upload = ledger.upload]
     ELSE attempt' = [attempt EXCEPT
                        ![a].upload = IF Resumable THEN ledger.upload ELSE NoUpload,
                        ![a].stage = IF YouTube THEN "load"
                                     ELSE IF Resumable THEN "ask" ELSE "creator"]
  /\ UNCHANGED <<platform, ledger, upload>>

(* creatorInfo(): unanswered, refused, or without the privacy level asked for. *)
Creator(a) ==
  /\ attempt[a].stage = "creator"
  /\ Goto(a, "load") \/ Fails(a, TRUE)
  /\ UNCHANGED <<platform, ledger, upload>>

FailLedger ==
  ledger' = IF ledger.status = "NONE" THEN ledger
            ELSE [ledger EXCEPT !.status = "FAILED", !.open = FALSE]

(* The video is read from storage; when it cannot be, the row is FAILED and  *)
(* its address dropped.  An empty file is refused and the row kept.          *)
Load(a) ==
  /\ attempt[a].stage = "load"
  /\ \/ /\ Goto(a, IF attempt[a].upload = NoUpload THEN "init" ELSE "probe")
        /\ UNCHANGED ledger
     \/ Return(a, "REFUSED") /\ UNCHANGED ledger
     \/ /\ FailLedger
        /\ attempt' = [attempt EXCEPT ![a].stage = "answer", ![a].outcome = "REFUSED",
                                      ![a].gaveUp = @ \/ Whole(ledger.upload)]
  /\ UNCHANGED <<platform, upload>>

(* probeUpload(): the video, when the session finished; what it still needs; *)
(* or nothing, when it is gone, and a fresh session is started.              *)
Probe(a) ==
  /\ attempt[a].stage = "probe"
  /\ \/ UploadOf(a).address = "OPEN" /\ Goto(a, IF Whole(attempt[a].upload) THEN "finish" ELSE "chunk")
     \/ UploadOf(a).address = "GONE" /\ GiveUp(a, "init")
     \/ Fails(a, FALSE)
  /\ UNCHANGED <<platform, ledger, upload>>

-----------------------------------------------------------------------------
(* The upload *)

(* A session or a publish id is issued, and may be lost with the answer.     *)
(* Only TikTok's unanswered init is reported as AMBIGUOUS.                   *)
Initiate(a) ==
  /\ attempt[a].stage = "init"
  /\ \/ \E u \in Uploads :
          /\ upload[u].address = "NONE"
          /\ upload' = [upload EXCEPT ![u].address = "OPEN"]
          /\ \/ attempt' = [attempt EXCEPT ![a].stage = "record", ![a].upload = u]
             \/ Fails(a, ~YouTube)
     \/ Fails(a, ~YouTube) /\ UNCHANGED upload
  /\ UNCHANGED <<platform, ledger>>

Record_Not(a) ==
  /\ attempt[a].stage = "record"
  /\ Goto(a, "chunk")
  /\ UNCHANGED <<platform, ledger, upload>>

(* ledger.started(), before the first byte is sent. *)
Record(a) ==
  /\ attempt[a].stage = "record"
  /\ ledger' = [upload |-> attempt[a].upload, open |-> TRUE, status |-> "REGISTERED"]
  /\ Goto(a, "chunk")
  /\ UNCHANGED <<platform, upload>>

(* The part with which the file is whole makes the video, or starts TikTok's *)
(* processing.                                                               *)
Received(u) ==
  LET n == upload[u].received + 1 IN
    \E post \in IF n < Chunks THEN {"NONE"} ELSE IF YouTube THEN {"LIVE", "REFUSED"} ELSE {"PROCESSING"} :
      upload' = [upload EXCEPT ![u].received = n, ![u].post = post]

(* uploadChunk(): taken and answered; taken or not and unanswered or refused *)
(* (YouTube's timeout is AMBIGUOUS, TikTok's TRANSIENT; YouTube may take the *)
(* last part and not confirm it); or the address is gone.                    *)
Chunk(a) ==
  LET u == attempt[a].upload IN
  /\ attempt[a].stage = "chunk"
  /\ \/ /\ upload[u].address = "OPEN"
        /\ Received(u)
        /\ \/ Goto(a, IF upload[u].received + 1 < Chunks THEN "chunk"
                      ELSE IF YouTube THEN "finish" ELSE "settle")
           \/ Fails(a, YouTube)
     \/ /\ Fails(a, YouTube) /\ UNCHANGED upload
     \/ /\ upload[u].address = "GONE"
        /\ Goto(a, "drop") /\ UNCHANGED upload
  /\ UNCHANGED <<platform, ledger>>

(* ledger.failed() for an upload whose address expired half-way. *)
Drop(a) ==
  /\ attempt[a].stage = "drop"
  /\ FailLedger
  /\ attempt' = [attempt EXCEPT ![a].stage = "answer", ![a].outcome = "RETRY",
                                ![a].gaveUp = @ \/ Whole(attempt[a].upload)]
  /\ UNCHANGED <<platform, upload>>

-----------------------------------------------------------------------------
(* The end of an attempt *)

(* settle(), asked of a publish id of an earlier attempt ("ask") or of this  *)
(* one ("settle"): a failure frees the ledger; a publish that is still being *)
(* processed is published anew by the first and left for later by the second.*)
Settle(a) ==
  LET post == UploadOf(a).post IN
  /\ attempt[a].stage \in {"ask", "settle"}
  /\ \/ post \in {"LIVE", "INBOX"} /\ Goto(a, "finish") /\ UNCHANGED ledger
     \/ post = "REFUSED" /\ FailLedger /\ Decide(a, "REFUSED")
     \/ /\ post \in {"NONE", "PROCESSING"}
        /\ IF attempt[a].stage = "ask" THEN GiveUp(a, "creator") ELSE Return(a, "PROCESSING")
        /\ UNCHANGED ledger
     \/ Fails(a, FALSE) /\ UNCHANGED ledger
  /\ UNCHANGED <<platform, upload>>

Finish_KeepsStatus(a) ==
  /\ attempt[a].stage = "finish"
  /\ ledger' = [ledger EXCEPT !.open = FALSE]
  /\ Decide(a, IF UploadOf(a).post = "LIVE" THEN "PUBLISHED" ELSE "UNVIEWABLE")
  /\ UNCHANGED <<platform, upload>>

Finish_Unread(a) ==
  /\ attempt[a].stage = "finish"
  /\ ledger' = IF ledger.status = "NONE" THEN ledger
               ELSE [upload |-> attempt[a].upload, open |-> FALSE, status |-> "UPLOADED"]
  /\ Decide(a, "PUBLISHED")
  /\ UNCHANGED <<platform, upload>>

(* ledger.finished(), also for a video that was rejected or left in the inbox. *)
Finish(a) ==
  /\ attempt[a].stage = "finish"
  /\ ledger' = IF ledger.status = "NONE" THEN ledger
               ELSE [upload |-> attempt[a].upload, open |-> FALSE, status |-> "UPLOADED"]
  /\ Decide(a, IF UploadOf(a).post = "LIVE" THEN "PUBLISHED" ELSE "UNVIEWABLE")
  /\ UNCHANGED <<platform, upload>>

(* publish() returns what it found when it wrote the ledger.                 *)
Answer(a) ==
  /\ attempt[a].stage = "answer"
  /\ Goto(a, "done")
  /\ UNCHANGED <<platform, ledger, upload>>

-----------------------------------------------------------------------------
(* The platform, and failures *)

(* TikTok processes a whole video. *)
Process(u) ==
  /\ upload[u].post = "PROCESSING"
  /\ \E post \in {"LIVE", "REFUSED", "INBOX"} : upload' = [upload EXCEPT ![u].post = post]
  /\ UNCHANGED <<platform, ledger, attempt>>

(* A session or an upload link expires. *)
Expire(u) ==
  /\ upload[u].address = "OPEN"
  /\ upload' = [upload EXCEPT ![u].address = "GONE"]
  /\ UNCHANGED <<platform, ledger, attempt>>

(* The process dies, or the ledger throws: whatever it was about to answer,  *)
(* nobody is told.                                                           *)
Crash(a) ==
  /\ attempt[a].stage \in Running
  /\ Return(a, IF attempt[a].outcome = "UNVIEWABLE" THEN "UNTOLD" ELSE "CRASHED")
  /\ UNCHANGED <<platform, ledger, upload>>

Quiescent ==
  /\ \A a \in Attempts : attempt[a].stage = "done"
  /\ UNCHANGED vars

-----------------------------------------------------------------------------
Init ==
  /\ platform \in Platforms
  /\ ledger = NoLedger
  /\ upload = [u \in Uploads |-> NoneYet]
  /\ attempt = [a \in Attempts |-> NoAttempt]

Next ==
  \/ \E a \in Attempts :
       \/ Start(a) \/ Invalid(a) \/ Find(a) \/ Creator(a) \/ Load(a) \/ Probe(a) \/ Initiate(a)
       \/ Record(a) \/ Chunk(a) \/ Drop(a) \/ Settle(a) \/ Finish(a) \/ Answer(a) \/ Crash(a)
  \/ \E u \in Uploads : Process(u) \/ Expire(u)
  \/ Quiescent

Spec == Init /\ [][Next]_vars

-----------------------------------------------------------------------------
(* Properties *)

(* Every variable keeps the shape of what it stands for. *)
TypeOK ==
  /\ platform \in Platforms
  /\ ledger \in Ledgers
  /\ upload \in [Uploads -> UploadStates]
  /\ attempt \in [Attempts -> Calls]

(* No crash and no lost answer sends the video twice: of the uploads that    *)
(* have the whole file one at most stands, unless an attempt let go of one.  *)
Standing == {u \in Uploads : Whole(u) /\ upload[u].post # "REFUSED"}
GivenUp == \E a \in Attempts : attempt[a].gaveUp
SentOnce == Cardinality(Standing) <= 1 \/ GivenUp

(* Whatever answer is lost and wherever an attempt dies, the next attempt    *)
(* finds the upload that has the whole file, unless one let go of it.        *)
NextAttemptFindsIt ==
  \/ GivenUp
  \/ Standing = {}
  \/ /\ Standing = {ledger.upload}
     /\ ledger.status = "UPLOADED" \/ Resumable

(* An attempt that reports the video as published is right, or the attempt   *)
(* that finished this very upload found it not viewable: it told the         *)
(* operator so, or died between the ledger's write and its return.           *)
PublishedIsOut ==
  \A a \in Attempts :
    attempt[a].outcome \in {"PUBLISHED", "ALREADY"} =>
      \/ attempt[a].upload \in Posts
      \/ \E b \in Attempts : attempt[b].outcome \in Unseen /\ attempt[b].upload = attempt[a].upload

(* What the project says of every outcome, that it never claims an operation *)
(* happened when it did not: a video reported as published is.  It is not    *)
(* so when the ledger's word is taken for a rejected or an inbox video.      *)
OnlyPostsAreReported ==
  \A a \in Attempts :
    attempt[a].stage = "done" /\ attempt[a].outcome \in {"PUBLISHED", "ALREADY"} => attempt[a].upload \in Posts

=============================================================================
