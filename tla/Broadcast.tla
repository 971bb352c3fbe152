----------------------------- MODULE Broadcast -----------------------------
(***************************************************************************)
(* One broadcast post: the admin's save, send and cancel                   *)
(* (apps/admin/src/lib/actions/broadcasts.ts), the job that sends it and   *)
(* the sweep that re-arms it (apps/worker/src/queues/broadcast.worker.ts). *)
(*                                                                         *)
(* The post's row and its BullMQ job are changed one after the other, by   *)
(* anybody, and the job's id is one for all of them.                       *)
(***************************************************************************)
EXTENDS Naturals

CONSTANTS Admins, Senders,
          ClickBound,   \* what admins do
          StumbleBound  \* deaths and errors

\* What the constants are assumed to be.
Constants == ClickBound \in Nat /\ StumbleBound \in Nat

VARIABLES
  post,      \* BroadcastPost.status
  stale,     \* whether startedAt is 15 minutes old
  task,      \* the job: its state, and whether it has failed once
  admin,     \* what an admin has still to do
  sender,    \* where a run of the job is
  sweeper,   \* the status the sweep has read, or where it is
  clicks, stumbles

vars == <<post, stale, task, admin, sender, sweeper, clicks, stumbles>>

Statuses == {"DRAFT", "QUEUED", "SENDING", "SENT", "FAILED", "CANCELLED"}
JobStates == {"none", "waiting", "active", "completed", "failed"}

TypeOK ==
  /\ post \in Statuses /\ stale \in BOOLEAN
  /\ task \in [is : JobStates, retried : BOOLEAN]
  /\ admin \in [Admins -> {"idle", "saveRemove", "save", "cancelRemove", "cancel",
                           "queue", "sendRemove", "add"}]
  /\ sender \in [Senders -> {"idle", "claim", "fanOut", "finish"}]
  /\ sweeper \in {"idle", "QUEUED", "SENDING", "requeue", "arm"}
  /\ clicks \in 0 .. ClickBound /\ stumbles \in 0 .. StumbleBound

NoTask == [is |-> "none", retried |-> FALSE]

Init ==
  /\ post = "DRAFT" /\ stale = FALSE /\ task = NoTask
  /\ admin = [a \in Admins |-> "idle"] /\ sender = [s \in Senders |-> "idle"]
  /\ sweeper = "idle" /\ clicks = 0 /\ stumbles = 0

\* queue.add() with an id that exists is a no-op.
Added == IF task.is = "none" THEN [NoTask EXCEPT !.is = "waiting"] ELSE task
Become(st) == post' = st /\ UNCHANGED stale

-----------------------------------------------------------------------------
(* The admin's actions: a check of the status read, then the writes.       *)

isBroadcastFrozen == post \in {"SENDING", "SENT"}
isBroadcastCancellable == post = "QUEUED"
isBroadcastSendable == ~isBroadcastFrozen /\ post # "QUEUED"

Admin(a, from, to) == admin[a] = from /\ admin' = [admin EXCEPT ![a] = to]

Click(a) ==
  /\ clicks < ClickBound /\ clicks' = clicks + 1
  /\ \/ isBroadcastCancellable /\ Admin(a, "idle", "saveRemove")
     \/ ~isBroadcastFrozen /\ ~isBroadcastCancellable /\ Admin(a, "idle", "save")
     \/ isBroadcastCancellable /\ Admin(a, "idle", "cancelRemove")
     \/ isBroadcastSendable /\ Admin(a, "idle", "queue")
  /\ UNCHANGED <<post, stale, task, sender, sweeper, stumbles>>

\* removeQueuedJob(): the removal of an active job throws.
removeQueuedJob(a, from, to) ==
  /\ IF task.is = "active" THEN Admin(a, from, "idle") /\ UNCHANGED task
                           ELSE Admin(a, from, to) /\ task' = NoTask
  /\ UNCHANGED <<post, stale, sender, sweeper, clicks, stumbles>>

WriteStatus(a, from, to, st) ==
  /\ Admin(a, from, to) /\ Become(st)
  /\ UNCHANGED <<task, sender, sweeper, clicks, stumbles>>

AddJob(a) ==
  /\ Admin(a, "add", "idle") /\ task' = Added
  /\ UNCHANGED <<post, stale, sender, sweeper, clicks, stumbles>>

AdminWork(a) ==
  \/ removeQueuedJob(a, "saveRemove", "save") \/ WriteStatus(a, "save", "idle", "DRAFT")
  \/ removeQueuedJob(a, "cancelRemove", "cancel") \/ WriteStatus(a, "cancel", "idle", "CANCELLED")
  \/ WriteStatus(a, "queue", "sendRemove", "QUEUED") \/ removeQueuedJob(a, "sendRemove", "add")
  \/ AddJob(a)

-----------------------------------------------------------------------------
(* The job                                                                 *)

Sender(s, from, to) == sender[s] = from /\ sender' = [sender EXCEPT ![s] = to]

Take(s) ==
  /\ task.is = "waiting" /\ task' = [task EXCEPT !.is = "active"] /\ Sender(s, "idle", "claim")
  /\ UNCHANGED <<post, stale, admin, sweeper, clicks, stumbles>>

\* sendPost(): the claim, a compare-and-set, with startedAt; what is no longer
\* QUEUED is skipped.
Claim(s) ==
  /\ IF post = "QUEUED"
     THEN post' = "SENDING" /\ stale' = FALSE /\ Sender(s, "claim", "fanOut")
     ELSE UNCHANGED <<post, stale>> /\ Sender(s, "claim", "finish")
  /\ UNCHANGED <<task, admin, sweeper, clicks, stumbles>>

\* A segment nobody knows: FAILED, whatever the post was.
RefuseSegment(s) ==
  /\ Sender(s, "claim", "finish") /\ Become("FAILED")
  /\ UNCHANGED <<task, admin, sweeper, clicks, stumbles>>

\* The last update, by id.
FanOut(s) ==
  /\ Sender(s, "fanOut", "finish")
  /\ \E st \in {"SENT", "FAILED"} : Become(st)
  /\ UNCHANGED <<task, admin, sweeper, clicks, stumbles>>

Finish(s) ==
  /\ Sender(s, "finish", "idle") /\ task' = [task EXCEPT !.is = "completed"]
  /\ UNCHANGED <<post, stale, admin, sweeper, clicks, stumbles>>

\* A run throws or its process dies: once more, then the job has failed.
Stumble(s) ==
  /\ stumbles < StumbleBound /\ stumbles' = stumbles + 1
  /\ sender[s] # "idle" /\ sender' = [sender EXCEPT ![s] = "idle"]
  /\ task' = [is |-> IF task.retried THEN "failed" ELSE "waiting", retried |-> TRUE]
  /\ UNCHANGED <<post, stale, admin, sweeper, clicks>>

GrowStale ==
  /\ post = "SENDING" /\ ~stale /\ stale' = TRUE
  /\ UNCHANGED <<post, task, admin, sender, sweeper, clicks, stumbles>>

-----------------------------------------------------------------------------
(* sweepDuePosts                                                           *)

\* Variant: only QUEUED posts are looked at.
DueQueued == post = "QUEUED"

Due == post = "QUEUED" \/ (post = "SENDING" /\ stale)

SweepRead ==
  /\ sweeper = "idle" /\ Due /\ sweeper' = post
  /\ UNCHANGED <<post, stale, task, admin, sender, clicks, stumbles>>

\* hasPendingJob(): the record of a past run is removed.
SweepJob ==
  /\ sweeper \in {"QUEUED", "SENDING"}
  /\ IF task.is \in {"waiting", "active"} THEN sweeper' = "idle" /\ UNCHANGED task
     ELSE /\ sweeper' = IF sweeper = "QUEUED" THEN "arm" ELSE "requeue"
          /\ task' = NoTask
  /\ UNCHANGED <<post, stale, admin, sender, clicks, stumbles>>

\* A compare-and-set of SENDING.
SweepRequeue ==
  /\ sweeper = "requeue"
  /\ IF post = "SENDING" THEN Become("QUEUED") /\ sweeper' = "arm"
                         ELSE UNCHANGED <<post, stale>> /\ sweeper' = "idle"
  /\ UNCHANGED <<task, admin, sender, clicks, stumbles>>

SweepArm ==
  /\ sweeper = "arm" /\ sweeper' = "idle" /\ task' = Added
  /\ UNCHANGED <<post, stale, admin, sender, clicks, stumbles>>

SweepStumbles ==
  /\ stumbles < StumbleBound /\ stumbles' = stumbles + 1
  /\ sweeper # "idle" /\ sweeper' = "idle"
  /\ UNCHANGED <<post, stale, task, admin, sender, clicks>>

-----------------------------------------------------------------------------
SendWork(s) == Claim(s) \/ RefuseSegment(s) \/ FanOut(s) \/ Finish(s)
SweepWork == SweepJob \/ SweepRequeue \/ SweepArm

Next ==
  \/ \E a \in Admins : Click(a) \/ AdminWork(a)
  \/ \E s \in Senders : Take(s) \/ SendWork(s) \/ Stumble(s)
  \/ GrowStale \/ SweepRead \/ SweepWork \/ SweepStumbles

Spec == Init /\ [][Next]_vars

-----------------------------------------------------------------------------
\* A post that was armed does not stay armed, nor SENDING: whoever dies between
\* the row and the job, or in the middle of a fan-out, the sweep takes it up and
\* it is sent, refused, cancelled or taken back.
Armed == post \in {"QUEUED", "SENDING"}
ArmedPostIsSettled == Armed ~> ~Armed

=============================================================================
