---------------------------- MODULE CommandIntake ----------------------------
(***************************************************************************)
(* The commands that maintainers and the public write as comments on one   *)
(* pull request, on their way to a review: the scheduler's scan, which     *)
(* reads the comments, admits public commands and enqueues what the        *)
(* comments ask for (scheduler.ts, commands.ts), and the leased job, which *)
(* reads the comments again and reviews the head, or does not (worker.ts). *)
(*                                                                         *)
(* Scans and jobs run in any number of processes over one state store.  A  *)
(* step is what a process does between two reads of GitHub or two          *)
(* transactions that matter to another process.  The limits and the order  *)
(* of the queue are ReviewQueue's, a lease that is lost to a slow process  *)
(* too; the claim of a head against other invocations is HeadReview's.     *)
(***************************************************************************)
EXTENDS Naturals, Sequences, FiniteSets

CONSTANTS
  Procs,         \* processes that scan and review
  Owners,        \* trusted authors
  Guests,        \* other authors whom publicCommands admits
  MaxHeads,      \* bound on the heads of the pull request
  MaxComments,   \* bound on its commands
  MaxFailures    \* bound on crashes, failed requests and jobs that meet a cooldown

Heads == 1..MaxHeads
Comments == 1..MaxComments
Automatic == 0   \* in the place of a comment: none

ASSUME IntakeConstants ==
  /\ Owners \cap Guests = {}
  /\ MaxHeads \in Nat \ {0}
  /\ {MaxComments, MaxFailures} \subseteq Nat

VARIABLES
  head,      \* of the pull request (external)
  thread,    \* the commands among its comments (external)
  cooling,   \* public_command_invocations inside their window
  answered,  \* processed_commands: the head each comment was recorded for
  row,       \* processed_reviews
  queue,     \* the waiting jobs of review_queue_jobs
  deferred,  \* those of them that a provider cooldown put back (last_error)
  lost,      \* the leased jobs of processes that died
  step,      \* what each process does
  failures,
  reviews,   \* of each comment: the reviews it led to (history)
  opened,    \* of each guest: the windows opened, up to MaxComments (history)
  silenced   \* the heads with a stop in force (history)

github == <<head, thread>>
history == <<reviews, opened, silenced>>
vars == <<github, cooling, answered, row, queue, deferred, lost, step, failures, history>>

\* "review" stands for re-review too.
Actions == {"review", "stop", "explain"}
Written == 1..Len(thread)
By(authors) == {c \in Written : thread[c].by \in authors}
Asking(action) == {c \in Written : thread[c].action = action}

Job(c, h) == [comment |-> c, head |-> h]
Scanning == {"read", "admit", "enqueue"}
Working == {"fetch", "resolve", "silence", "begin", "check", "send", "defer", "settle"}

\* A cooldown row is a skipped one whose error names the cooldown.
Rows == {"none", "stopped", "skipped", "cooldown", "failed", "posted"}
Retryable == {"cooldown", "failed"}

\* comment: of the job; known and todo: public commands that were admitted, and
\* are yet to be considered, together with the trusted ones; decided: the
\* command that the job carries out; retry: a cooldown had put the job back.
Idle ==
  [at |-> "idle", head |-> 0, comment |-> 0, known |-> {}, todo |-> {}, decided |-> 0,
   retry |-> FALSE]
At(stage, h) == [Idle EXCEPT !.at = stage, !.head = h]

JobOf(p) == Job(step[p].comment, step[p].head)
WorkingOn(h) == {p \in Procs : step[p].at \in Working /\ step[p].head = h}
Leased == lost \cup {JobOf(p) : p \in {q \in Procs : step[q].at \in Working}}
JobsOf(h) == {j \in queue \cup Leased : j.head = h}

Jobs == [comment : Comments \cup {Automatic}, head : Heads]
Steps ==
  [at : {"idle"} \cup Scanning \cup Working, head : Heads \cup {0},
   comment : Comments \cup {Automatic}, known : SUBSET Comments, todo : SUBSET Comments,
   decided : Comments \cup {Automatic}, retry : BOOLEAN]

TypeOK ==
  /\ head \in Heads
  /\ thread \in Seq([by : Owners \cup Guests, action : Actions]) /\ Len(thread) <= MaxComments
  /\ \A c \in By(Guests) : thread[c].action = "review"
  /\ cooling \in [Heads \X Guests -> BOOLEAN]
  /\ answered \in [Comments -> Heads \cup {0}]
  /\ row \in [Heads -> Rows]
  /\ queue \subseteq Jobs /\ deferred \subseteq queue /\ lost \subseteq Jobs
  /\ step \in [Procs -> Steps]
  /\ \A p \in Procs : step[p].head = 0 <=> step[p].at = "idle"
  /\ queue \cap Leased = {}
  /\ failures \in 0..MaxFailures
  /\ reviews \in [Comments -> Nat]
  /\ opened \in [Guests -> 0..MaxComments]
  /\ silenced \subseteq Heads

Init ==
  /\ head = 1
  /\ thread = <<>>
  /\ cooling = [k \in Heads \X Guests |-> FALSE]
  /\ answered = [c \in Comments |-> 0]
  /\ row = [h \in Heads |-> "none"]
  /\ queue = {}
  /\ deferred = {}
  /\ lost = {}
  /\ step = [p \in Procs |-> Idle]
  /\ failures = 0
  /\ reviews = [c \in Comments |-> 0]
  /\ opened = [g \in Guests |-> 0]
  /\ silenced = {}

-----------------------------------------------------------------------------
(* The pull request, and time.                                              *)

Push ==
  /\ head < MaxHeads
  /\ head' = head + 1
  /\ UNCHANGED <<thread, cooling, answered, row, queue, deferred, lost, step, failures, history>>

Comment(author, action) ==
  /\ Len(thread) < MaxComments
  /\ author \in Owners \/ action = "review"
  /\ thread' = Append(thread, [by |-> author, action |-> action])
  /\ UNCHANGED <<head, cooling, answered, row, queue, deferred, lost, step, failures, history>>

WindowPasses(window) ==
  /\ cooling[window]
  /\ cooling' = [cooling EXCEPT ![window] = FALSE]
  /\ UNCHANGED <<github, answered, row, queue, deferred, lost, step, failures, history>>

-----------------------------------------------------------------------------
(* The scan.                                                                *)

\* The head is read.
Scan(p) ==
  /\ step[p].at = "idle"
  /\ step' = [step EXCEPT ![p] = At("read", head)]
  /\ UNCHANGED <<github, cooling, answered, row, queue, deferred, lost, failures, history>>

\* The comments are read; those that cannot be read are none.
Read(p) ==
  LET h == step[p].head IN
  /\ step[p].at = "read"
  /\ \/ /\ step' = [step EXCEPT ![p] =
                      [At("admit", h) EXCEPT !.known = By(Owners), !.todo = By(Guests)]]
        /\ UNCHANGED failures
     \/ /\ failures < MaxFailures
        /\ failures' = failures + 1
        /\ step' = [step EXCEPT ![p] = At("admit", h)]
  /\ UNCHANGED <<github, cooling, answered, row, queue, deferred, lost, history>>

Opened(g) == [opened EXCEPT ![g] = IF @ = MaxComments THEN @ ELSE @ + 1]

\* Mutant: the invocation is recorded, but nobody looks for an earlier one.
AdmitUnchecked(p, c) ==
  LET window == <<step[p].head, thread[c].by>> IN
  /\ step[p].at = "admit"
  /\ c \in step[p].todo
  /\ \A b \in step[p].todo : c <= b
  /\ cooling' = [cooling EXCEPT ![window] = TRUE]
  /\ opened' = IF cooling[window] THEN opened ELSE Opened(thread[c].by)
  /\ step' = [step EXCEPT ![p].todo = @ \ {c}, ![p].known = @ \cup {c}]
  /\ UNCHANGED <<github, answered, row, queue, deferred, lost, failures, reviews, silenced>>

\* admitPublicCommands: one transaction for each public command, the oldest
\* first and those that were answered long ago included.
Admit(p, c) ==
  LET window == <<step[p].head, thread[c].by>> IN
  /\ step[p].at = "admit"
  /\ c \in step[p].todo
  /\ \A b \in step[p].todo : c <= b
  /\ \/ /\ ~ cooling[window]
        /\ cooling' = [cooling EXCEPT ![window] = TRUE]
        /\ opened' = Opened(thread[c].by)
        /\ step' = [step EXCEPT ![p].todo = @ \ {c}, ![p].known = @ \cup {c}]
     \/ /\ cooling[window]
        /\ step' = [step EXCEPT ![p].todo = @ \ {c}]
        /\ UNCHANGED <<cooling, opened>>
  /\ UNCHANGED <<github, answered, row, queue, deferred, lost, failures, reviews, silenced>>

\* hasProcessedCommand does not look at the head.
Pending(commands, h) == {c \in commands : answered[c] = 0}

\* decideCommandAction: the newest command that asks for a review or for none,
\* or else the newest.
Decided(d, commands) ==
  LET firm == commands \ Asking("explain") IN
  \/ commands = {} /\ d = Automatic
  \/ d \in commands /\ firm = {} /\ \A c \in commands : c <= d
  \/ d \in firm /\ \A c \in firm : c <= d

\* enqueueEligiblePull: a command always asks for a job, and unless it is to
\* stop or explain it retires the waiting jobs of other heads, and so does a
\* pull request without one.  Its head is then reviewed if that was not done.
Decide(p, d) ==
  LET h == step[p].head IN
  /\ step[p].at = "admit" /\ step[p].todo = {}
  /\ Decided(d, Pending(step[p].known, h))
  /\ queue' = IF d \in Asking("stop") \cup Asking("explain")
              THEN queue ELSE {j \in queue : j.head = h}
  /\ deferred' = deferred \cap queue'
  /\ step' = [step EXCEPT ![p] =
                IF d = Automatic /\ (row[h] # "none" \/ JobsOf(h) # {}) THEN Idle
                ELSE [At("enqueue", h) EXCEPT !.comment = d]]
  /\ UNCHANGED <<github, cooling, answered, row, lost, failures, history>>

\* Mutant: a job for the same command is not looked for.
EnqueueAnother(p) ==
  /\ step[p].at = "enqueue"
  /\ queue' = queue \cup {JobOf(p)}
  /\ step' = [step EXCEPT ![p] = Idle]
  /\ UNCHANGED <<github, cooling, answered, row, deferred, lost, failures, history>>

\* Unless a job for the same command and head is waiting or at work.
Enqueue(p) ==
  /\ step[p].at = "enqueue"
  /\ queue' = IF JobOf(p) \in Leased THEN queue ELSE queue \cup {JobOf(p)}
  /\ step' = [step EXCEPT ![p] = Idle]
  /\ UNCHANGED <<github, cooling, answered, row, deferred, lost, failures, history>>

-----------------------------------------------------------------------------
(* The job.                                                                 *)

\* One job of a head is at work.  processedHeadPolicyForQueueJob asks whether a
\* cooldown put it back.
Lease(p, j) ==
  /\ step[p].at = "idle"
  /\ j \in queue
  /\ WorkingOn(j.head) = {} /\ \A k \in lost : k.head # j.head
  /\ queue' = queue \ {j}
  /\ deferred' = deferred \ {j}
  /\ step' = [step EXCEPT ![p] =
                [At("fetch", j.head) EXCEPT !.comment = j.comment, !.retry = j \in deferred]]
  /\ UNCHANGED <<github, cooling, answered, row, lost, failures, history>>

GoOn(p, stage, d) == step' = [step EXCEPT ![p].at = stage, ![p].decided = d]
Settling(p) == GoOn(p, "settle", Automatic)

\* Nothing but a review and a cooldown takes the place of a posted row.
Unposted(h, status) == [row EXCEPT ![h] = IF @ = "posted" THEN @ ELSE status]

\* The head's row says that its review is to be retried, whatever it said before.
TakesBack == silenced' = {h \in silenced : row'[h] \notin Retryable}

\* The retry_failed_head policy: no cooldown holds the job up.  It goes on with
\* a row that is to be retried, and with no other.
Retrying(p) == step[p].retry \/ row[step[p].head] \in Retryable
IsTurnedAway(p) == step[p].retry /\ row[step[p].head] \notin Retryable

Answer(d, h) == answered' = [answered EXCEPT ![d] = h]

\* Mutant: the job looks for its command among the trusted ones only.
AskedByOwners(p) ==
  IF step[p].comment = Automatic THEN By(Owners) ELSE {step[p].comment} \cap By(Owners)

\* A command's job is about that command, with the authority it was enqueued
\* with; an automatic one has all trusted commands.
Asked(p) == IF step[p].comment = Automatic THEN By(Owners) ELSE {step[p].comment} \cap Written

\* The pull request is read first: a job of an older head is retired.
Fetch(p) ==
  /\ step[p].at = "fetch"
  /\ IF step[p].head = head THEN GoOn(p, "resolve", Automatic) ELSE Settling(p)
  /\ UNCHANGED <<github, cooling, answered, row, queue, deferred, lost, failures, history>>

\* A stop is recorded before the head's row is written.
ResolveStop(p, d) ==
  /\ d \in Asking("stop")
  /\ Answer(d, step[p].head)
  /\ GoOn(p, "silence", Automatic)
  /\ UNCHANGED row

ResolveExplain(p, d) ==
  /\ d \in Asking("explain")
  /\ Answer(d, step[p].head)
  /\ Settling(p)
  /\ UNCHANGED row

ResolveReview(p, d) ==
  /\ d \in Asking("review")
  /\ GoOn(p, "begin", d)
  /\ UNCHANGED <<answered, row>>

\* Mutant: a job that a cooldown put back does not look at the row again.
ResolveNoneDeferred(p, d) ==
  /\ d = Automatic
  /\ IF Retrying(p) \/ row[step[p].head] = "none"
     THEN GoOn(p, "begin", Automatic) ELSE Settling(p)
  /\ UNCHANGED <<answered, row>>

\* Without a command the head's row decides.
ResolveNone(p, d) ==
  /\ d = Automatic
  /\ IF row[step[p].head] \in {"none"} \cup Retryable /\ ~ IsTurnedAway(p)
     THEN GoOn(p, "begin", Automatic) ELSE Settling(p)
  /\ UNCHANGED <<answered, row>>

Resolve(p, d) ==
  /\ step[p].at = "resolve"
  /\ Decided(d, Pending(Asked(p), step[p].head))
  /\ ResolveStop(p, d) \/ ResolveExplain(p, d) \/ ResolveReview(p, d) \/ ResolveNone(p, d)
  /\ UNCHANGED <<github, cooling, queue, deferred, lost, failures, history>>

Silence(p) ==
  LET h == step[p].head IN
  /\ step[p].at = "silence"
  /\ row' = Unposted(h, "stopped")
  /\ silenced' = silenced \cup {h}
  /\ Settling(p)
  /\ UNCHANGED <<github, cooling, answered, queue, deferred, lost, failures, reviews, opened>>

\* The head is read again for a review that a command or a retry brought about.
GoStale(p) ==
  LET h == step[p].head IN
  /\ step[p].at = "begin"
  /\ h # head
  /\ step[p].decided # Automatic \/ Retrying(p)
  /\ row' = Unposted(h, "skipped")
  /\ Settling(p)
  /\ UNCHANGED <<github, cooling, answered, queue, deferred, lost, failures, history>>

\* The command stays unanswered; a later scan enqueues it again.
TurnAway(p) ==
  /\ step[p].at = "begin"
  /\ IsTurnedAway(p)
  /\ Settling(p)
  /\ UNCHANGED <<github, cooling, answered, row, queue, deferred, lost, failures, history>>

\* The job goes back to the queue: no capacity, no license.
Return(p) ==
  /\ step[p].at = "begin"
  /\ ~ IsTurnedAway(p)
  /\ queue' = queue \cup {JobOf(p)}
  /\ step' = [step EXCEPT ![p] = Idle]
  /\ UNCHANGED <<github, cooling, answered, row, deferred, lost, failures, history>>

\* Mutant: the command is not recorded before the review is made.
BeginWithoutAnswer(p) ==
  LET d == step[p].decided IN
  /\ step[p].at = "begin"
  /\ ~ IsTurnedAway(p)
  /\ GoOn(p, "check", d)
  /\ UNCHANGED <<github, cooling, answered, row, queue, deferred, lost, failures, history>>

\* The command is recorded before the review is made.
Begin(p) ==
  LET d == step[p].decided IN
  /\ step[p].at = "begin"
  /\ ~ IsTurnedAway(p)
  /\ IF d = Automatic THEN UNCHANGED answered ELSE Answer(d, step[p].head)
  /\ GoOn(p, "check", d)
  /\ UNCHANGED <<github, cooling, row, queue, deferred, lost, failures, history>>

\* recordPullLifecycleBeforePost, for the last time before the post.
Check(p) ==
  LET h == step[p].head IN
  /\ step[p].at = "check"
  /\ \/ h = head /\ GoOn(p, "send", step[p].decided) /\ UNCHANGED row
     \/ h # head /\ row' = Unposted(h, "skipped") /\ Settling(p)
  /\ UNCHANGED <<github, cooling, answered, queue, deferred, lost, failures, history>>

Public(d) == reviews' = IF d = Automatic THEN reviews ELSE [reviews EXCEPT ![d] = @ + 1]

Send(p) ==
  /\ step[p].at = "send"
  /\ Public(step[p].decided)
  /\ row' = [row EXCEPT ![step[p].head] = "posted"]
  /\ Settling(p)
  /\ UNCHANGED <<github, cooling, answered, queue, deferred, lost, failures, opened, silenced>>

\* The job's final state is written.
Settle(p) ==
  /\ step[p].at = "settle"
  /\ step' = [step EXCEPT ![p] = Idle]
  /\ UNCHANGED <<github, cooling, answered, row, queue, deferred, lost, failures, history>>

\* The review may be public all the same if its post fails or its process dies.
Trouble(p) ==
  /\ failures < MaxFailures
  /\ failures' = failures + 1
  /\ UNCHANGED reviews \/ (step[p].at = "send" /\ Public(step[p].decided))

\* recordFailedReview: a request failed.  The head's row says so, except when
\* the pull request could not be read.
Fail(p) ==
  /\ step[p].at \in {"fetch", "resolve", "begin", "check", "send"}
  /\ Trouble(p)
  /\ Settling(p)
  /\ row' = IF step[p].at = "fetch" THEN row ELSE Unposted(step[p].head, "failed")
  /\ TakesBack
  /\ UNCHANGED <<github, cooling, answered, queue, deferred, lost, opened>>

\* A request meets the provider's limit (recordProviderRateLimitCooldownIfNeeded),
\* or the repository's provider is cooling down as a review that is no retry is
\* to begin: the head's row says so, whatever it said.
Defer(p) ==
  /\ step[p].at \in {"resolve", "begin", "check", "send"}
  /\ Trouble(p)
  /\ row' = [row EXCEPT ![step[p].head] = "cooldown"]
  /\ TakesBack
  /\ GoOn(p, "defer", Automatic)
  /\ UNCHANGED <<github, cooling, answered, queue, deferred, lost, opened>>

\* markQueueJobProviderDeferredFromProcessed.
PutBack(p) ==
  /\ step[p].at = "defer"
  /\ queue' = queue \cup {JobOf(p)}
  /\ deferred' = deferred \cup {JobOf(p)}
  /\ step' = [step EXCEPT ![p] = Idle]
  /\ UNCHANGED <<github, cooling, answered, row, lost, failures, history>>

Crash(p) ==
  /\ step[p].at # "idle"
  /\ Trouble(p)
  /\ step' = [step EXCEPT ![p] = Idle]
  /\ lost' = IF step[p].at \in Working THEN lost \cup {JobOf(p)} ELSE lost
  /\ UNCHANGED <<github, cooling, answered, row, queue, deferred, opened, silenced>>

\* The lease of a dead process expires, and the job waits again.
Expire(j) ==
  /\ j \in lost
  /\ lost' = lost \ {j}
  /\ queue' = queue \cup {j}
  /\ UNCHANGED <<github, cooling, answered, row, deferred, step, failures, history>>

\* What a process does once it has begun.
Proceed(p) ==
  \/ Read(p) \/ Enqueue(p)
  \/ \E c \in Comments : Admit(p, c)
  \/ \E d \in Comments \cup {Automatic} : Decide(p, d) \/ Resolve(p, d)
  \/ Fetch(p) \/ Silence(p) \/ GoStale(p) \/ TurnAway(p) \/ Begin(p) \/ Check(p) \/ Send(p)
  \/ PutBack(p) \/ Settle(p)

Next ==
  \/ Push
  \/ \E author \in Owners \cup Guests, action \in Actions : Comment(author, action)
  \/ \E window \in Heads \X Guests : WindowPasses(window)
  \/ \E j \in Jobs : Expire(j) \/ \E p \in Procs : Lease(p, j)
  \/ \E p \in Procs :
       \/ Scan(p) \/ Proceed(p)
       \/ Return(p) \/ Defer(p) \/ Fail(p) \/ Crash(p)

Spec == Init /\ [][Next]_vars

(***************************************************************************)
(* The daemon scans in every cycle and leases something of what waits; a   *)
(* process goes on with what it began, and one that puts jobs back again   *)
(* and again finds capacity in the end.  The leases of the dead run out;   *)
(* so do windows, and not only while a scan goes through the commands.     *)
(***************************************************************************)
NoAdmission == \A p \in Procs : step[p].at # "admit"

Fairness ==
  /\ SF_vars(\E p \in Procs : Scan(p))
  /\ SF_vars(\E p \in Procs, j \in Jobs : Lease(p, j))
  /\ \A p \in Procs : WF_vars(Proceed(p)) /\ SF_vars(Begin(p))
  /\ WF_vars(\E j \in Jobs : Expire(j))
  /\ SF_vars(NoAdmission /\ \E window \in Heads \X Guests : WindowPasses(window))

FairSpec == Spec /\ Fairness

-----------------------------------------------------------------------------
(***************************************************************************)
(* Properties.                                                             *)
(***************************************************************************)
(***************************************************************************)
(* A command leads to one review at most, although every scan and every    *)
(* job reads it again, pushes move it to new heads, and processes die or   *)
(* lose the answer to the post: hasProcessedCommand does not look at the   *)
(* head, and the command is recorded before the head is checked again.     *)
(***************************************************************************)
OneReviewPerCommand == \A c \in Comments : reviews[c] <= 1

(***************************************************************************)
(* Scans, jobs, crashes and failed requests keep the promise of            *)
(* CommandService at every step: no command is forgotten once it was       *)
(* carried out, no stop or explain becomes a review when a job reads it    *)
(* again, no review comes before its command was recorded, and no guest's  *)
(* command is carried out beyond the windows.                              *)
(***************************************************************************)
Service == INSTANCE CommandService WITH
  Authors <- Owners \cup Guests,
  carried <- {c \in Comments : answered[c] # 0}

CommandsAreServed == Service!ServiceSpec

(***************************************************************************)
(* The public commands of an author that were carried out are not more     *)
(* than the windows that opened for that author, however often they are    *)
(* read, enqueued, retired and read again (tryRecordPublicCommandInvocation).*)
(***************************************************************************)
PublicReviewsAreRateLimited ==
  \A g \in Guests : Cardinality({c \in By({g}) : answered[c] # 0}) <= opened[g]

(***************************************************************************)
(* Once a stop has been carried out to its end, the head's row included,   *)
(* no automatic review of that head is under way or begins: not of a job   *)
(* that waited then, nor of one that a cooldown had put back to be         *)
(* retried, nor of one that was lost with its process and came back        *)
(* (worker.ts:1957-1961 reads the row again).  Two things end that in the  *)
(* code, and here: a later job of the head fails, or meets a cooldown, and *)
(* its row takes the place of the stop's.  And a process that dies after   *)
(* it recorded the stop and before it wrote the row has not carried it out *)
(* to its end: nobody does (worker.ts:5367-5394).                          *)
(***************************************************************************)
StopSilencesAutomatic ==
  \A p \in Procs :
    step[p].at \in {"begin", "check", "send"} /\ step[p].decided = Automatic
      => step[p].head \notin silenced

\* The first public command of its author.
First(c) == \E g \in Guests : c \in By({g}) /\ \A b \in By({g}) : c <= b

(***************************************************************************)
(* Every trusted command and the first public one of every author are      *)
(* answered in the end: their jobs fail, are retired by a push, wait       *)
(* behind newer commands and die with their process, and admissions are    *)
(* lost, but none of these commands is unanswered for good.                *)
(***************************************************************************)
DueCommandsAreAnswered ==
  []<>(\A c \in Written : c \in By(Owners) \/ First(c) => answered[c] # 0)

(***************************************************************************)
(* What scheduler.ts:1291-1294 says of the cooldown: a public command that *)
(* is turned away is turned away for a window, and on its head only.       *)
(***************************************************************************)
PublicCommandsAreAnswered == []<>(\A c \in Written : answered[c] # 0)

==============================================================================
