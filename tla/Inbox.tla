-------------------------------- MODULE Inbox --------------------------------
(***************************************************************************)
(* harness/inbox/local.go: the session inbox.  One goroutine (run) owns    *)
(* the set of seen IDs and a FIFO queue; Submit hands it an input over an  *)
(* unbuffered channel and the coordinator receives from another.  Several  *)
(* senders submit at once: prompts, controls of the runner, steering from  *)
(* stdin, heartbeats the coordinator posts to itself.  A sender that does  *)
(* not know whether its input arrived submits it again with the same ID.   *)
(*                                                                         *)
(* Payloads and their validation are left out: an input is its ID.         *)
(***************************************************************************)
EXTENDS Naturals, Sequences

CONSTANTS
  IDs,      \* the IDs inputs may carry
  SeenIDs,  \* New(ctx, seenIDs): IDs the session recorded before
  Senders,  \* callers of Submit
  Nobody    \* no input: not an ID

ASSUME InboxAssumption ==
  /\ SeenIDs \subseteq IDs
  /\ Nobody \notin IDs

VARIABLES
  open,        \* the inbox's context is not canceled
  running,     \* the goroutine has not returned
  seen,        \* run's set of IDs
  queued,      \* run's queue, in the order accepted
  submitting,  \* the input each sender is blocked on, or Nobody
  received     \* what the reader received, in order

vars == <<open, running, seen, queued, submitting, received>>

Init ==
  /\ open = TRUE
  /\ running = TRUE
  /\ seen = SeenIDs
  /\ queued = <<>>
  /\ submitting = [s \in Senders |-> Nobody]
  /\ received = <<>>

-----------------------------------------------------------------------------
(* Submit *)

\* A sender calls Submit; a canceled inbox turns it away at once.
Submit(s, id) ==
  /\ submitting[s] = Nobody
  /\ open
  /\ submitting' = [submitting EXCEPT ![s] = id]
  /\ UNCHANGED <<open, running, seen, queued, received>>

\* the wait does not watch the inbox's context
GiveUp_onlyown(s) ==
  /\ submitting[s] # Nobody
  /\ open
  /\ submitting' = [submitting EXCEPT ![s] = Nobody]
  /\ UNCHANGED <<open, running, seen, queued, received>>

\* Submit returns without the input taken: the sender's own context or the
\* inbox's was canceled while it was blocked.
GiveUp(s) ==
  /\ submitting[s] # Nobody
  /\ submitting' = [submitting EXCEPT ![s] = Nobody]
  /\ UNCHANGED <<open, running, seen, queued, received>>

-----------------------------------------------------------------------------
(* The goroutine.  An operator whose name ends in a lower-case word after   *)
(* an underscore is a mutant of the operator it precedes.                   *)

\* The IDs run drops as duplicates: it forgets what the session recorded, or
\* the queue has let go of.
Duplicate_queuedonly(id) == \E i \in DOMAIN queued : queued[i] = id

\* An ID run received before is dropped.
Duplicate(id) == id \in seen

\* What run marks: a busy queue's newcomer is marked before the queue can
\* hold it.
Enqueue_bounded(id) == IF Len(queued) < 1 THEN Append(queued, id) ELSE queued

\* The queue with an input at its end.
Enqueue(id) == Append(queued, id)

\* run receives what a sender holds out.
Receive(s) ==
  /\ running
  /\ IF Duplicate(submitting[s])
       THEN UNCHANGED <<seen, queued>>
       ELSE /\ seen' = seen \cup {submitting[s]}
            /\ queued' = Enqueue(submitting[s])
  /\ submitting' = [submitting EXCEPT ![s] = Nobody]
  /\ UNCHANGED <<open, running, received>>

\* the senders' channel is closed with the inbox, and read without end
Take_closed(s) == (submitting[s] # Nobody \/ ~open) /\ Receive(s)

\* run receives a submission.
Take(s) == submitting[s] # Nobody /\ Receive(s)

\* run sends the head of the queue to the reader.
Output ==
  /\ running
  /\ queued # <<>>
  /\ received' = Append(received, Head(queued))
  /\ queued' = Tail(queued)
  /\ UNCHANGED <<open, running, seen, submitting>>

\* The run that owns the inbox ends and cancels its context.
Cancel ==
  /\ open
  /\ open' = FALSE
  /\ UNCHANGED <<running, seen, queued, submitting, received>>

\* run sees its context canceled and returns; what is queued is lost.
Return ==
  /\ running
  /\ ~open
  /\ running' = FALSE
  /\ queued' = <<>>
  /\ UNCHANGED <<open, seen, submitting, received>>

Next ==
  \/ \E s \in Senders : \/ \E id \in IDs : Submit(s, id)
                        \/ GiveUp(s)
                        \/ Take(s)
  \/ Output
  \/ Cancel
  \/ Return

\* run's select serves every blocked sender (the channel queues them) and
\* sends whenever the reader receives; a blocked Submit sees the inbox's end.
Fairness ==
  /\ \A s \in Senders : WF_vars(Take(s)) /\ WF_vars(~open /\ GiveUp(s))
  /\ WF_vars(Output)
  /\ WF_vars(Return)

Spec == Init /\ [][Next]_vars /\ Fairness

-----------------------------------------------------------------------------
(* Properties *)

Elements(s) == {s[i] : i \in DOMAIN s}

TypeOK ==
  /\ open \in BOOLEAN
  /\ running \in BOOLEAN
  /\ seen \subseteq IDs
  /\ queued \in Seq(IDs)
  /\ submitting \in [Senders -> IDs \cup {Nobody}]
  /\ received \in Seq(IDs)

\* No ID is queued or handed over twice, whichever senders repeat it, and
\* none that the session recorded before: run checks and marks an ID in one
\* step, before the queue holds it.
AtMostOnce ==
  LET all == received \o queued
  IN /\ \A i, j \in DOMAIN all : all[i] = all[j] => i = j
     /\ Elements(all) \cap SeenIDs = {}

\* While the goroutine runs, an ID it will drop as a duplicate is one the
\* reader had or will get: marking an ID seen never loses its input.
NothingSwallowed ==
  running => seen \subseteq SeenIDs \cup Elements(received \o queued)

\* An input Submit returned success for reaches the reader, or the inbox is
\* canceled.
Delivered ==
  \A id \in IDs : id \in seen \ SeenIDs ~> (id \in Elements(received) \/ ~open)

\* No Submit blocks for ever, also when the inbox ends while it waits.
SubmitReturns ==
  \A s \in Senders : submitting[s] # Nobody ~> submitting[s] = Nobody

\* The inbox implements the once-only delivery it promises.
Promise == INSTANCE OnceDelivery WITH accepted <- seen, received <- received
ImplementsOnceDelivery == Promise!Spec
=============================================================================
