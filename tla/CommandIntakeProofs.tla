------------------------- MODULE CommandIntakeProofs -------------------------
(***************************************************************************)
(* CommandIntake's safety for every number of processes, heads, authors,   *)
(* commands and failures.                                                  *)
(***************************************************************************)
EXTENDS CommandIntake, FiniteSetTheorems, TLAPS

Busy(p) == step[p].at \in Working
Reviewing(p) == step[p].at \in {"begin", "check", "send"}
CommentsOfJobs == {j.comment : j \in queue \cup lost}

Typed ==
  /\ head \in Heads
  /\ thread \in Seq([by : Owners \cup Guests, action : Actions]) /\ Len(thread) <= MaxComments
  /\ \A c \in By(Guests) : thread[c].action = "review"
  /\ cooling \in [Heads \X Guests -> BOOLEAN]
  /\ answered \in [Comments -> Heads \cup {0}]
  /\ row \in [Heads -> Rows]
  /\ queue \subseteq Jobs /\ lost \subseteq Jobs
  /\ step \in [Procs -> Steps]
  /\ \A p \in Procs : step[p].head = 0 <=> step[p].at = "idle"
  /\ failures \in 0..MaxFailures
  /\ reviews \in [Comments -> Nat]
  /\ opened \in [Guests -> 0..MaxComments]
  /\ silenced \subseteq Heads

\* One job of a head is at work or lost with its process, and it waits no more.
Exclusive ==
  /\ queue \cap lost = {}
  /\ \A p \in Procs : Busy(p) =>
       /\ JobOf(p) \notin queue
       /\ \A k \in lost : k.head # step[p].head
       /\ \A q \in Procs : Busy(q) /\ step[q].head = step[p].head => q = p

\* Nothing is known of a head or a command that is not there yet; and a command
\* is carried out by a review only.
Known ==
  /\ \A p \in Procs :
       /\ step[p].head <= head
       /\ step[p].comment \in Written \cup {Automatic}
       /\ step[p].known \subseteq Written /\ step[p].todo \subseteq By(Guests)
       /\ step[p].decided \in Written \cup {Automatic}
       /\ step[p].decided # Automatic => Reviewing(p)
  /\ \A j \in queue \cup lost : j.head <= head /\ j.comment \in Written \cup {Automatic}
  /\ \A c \in Comments : answered[c] # 0 => c \in Written

\* A review that is about to be sent for a command, and one that was.
Sending(p, c) == step[p].at = "send" /\ step[p].decided = c

\* A command that is being reviewed was recorded; and once its review is being
\* sent, no other is on its way on the head that is current.
Once ==
  /\ \A p \in Procs : step[p].at \in {"check", "send"} /\ step[p].decided # Automatic
                        => answered[step[p].decided] # 0
  /\ \A c \in Comments :
       /\ reviews[c] <= 1
       /\ \A p, q \in Procs : Sending(p, c) /\ Sending(q, c) => p = q
       /\ (\E p \in Procs : Sending(p, c)) => reviews[c] = 0
       /\ reviews[c] # 0 \/ (\E p \in Procs : Sending(p, c)) =>
            /\ answered[c] # 0
            /\ \A q \in Procs : step[q].at \in {"begin", "check"} /\ step[q].decided = c
                                  => step[q].head < head

\* An automatic review is of a head without a row, or with one to be retried.
Quiet ==
  \A p \in Procs : Reviewing(p) /\ step[p].decided = Automatic
                     => row[step[p].head] \in {"none"} \cup Retryable

\* While a stop is in force, the head has another row.
Stopped == \A h \in silenced : row[h] \in {"stopped", "skipped", "posted"}

\* A job that a cooldown put back waits.
Deferring == deferred \subseteq queue

\* The commands of a guest that have ever been admitted and are not forgotten.
Pipe(g) ==
  {c \in By({g}) :
     \/ answered[c] # 0
     \/ c \in CommentsOfJobs
     \/ \E p \in Procs : c \in step[p].known \/ c \in {step[p].comment, step[p].decided}}

Limited == \A g \in Guests : Cardinality(Pipe(g)) <= opened[g]

IInv ==
  Typed /\ Exclusive /\ Deferring /\ Known /\ Once /\ Quiet /\ Stopped /\ Limited

USE DEF Automatic

-----------------------------------------------------------------------------
(* Steps.                                                                   *)

\* The process p, and no other, goes on to s.
Moves(p, s) == step' = [step EXCEPT ![p] = s]

LEMMA StepParts ==
  ASSUME NEW s \in Steps
  PROVE  /\ s.at \in {"idle"} \cup Scanning \cup Working
         /\ s.head \in Heads \cup {0} /\ s.comment \in Comments \cup {0}
         /\ s.known \in SUBSET Comments /\ s.todo \in SUBSET Comments
         /\ s.decided \in Comments \cup {0}
BY DEF Steps

LEMMA NewSteps ==
  /\ Idle \in Steps
  /\ \A stage \in Scanning \cup Working : \A h \in Heads :
       /\ At(stage, h) \in Steps
       /\ At(stage, h).at = stage /\ At(stage, h).head = h /\ At(stage, h).comment = 0
       /\ At(stage, h).known = {} /\ At(stage, h).todo = {} /\ At(stage, h).decided = 0
BY DEF Idle, At, Steps

LEMMA WrittenComments == Typed => Written \subseteq Comments /\ IsFiniteSet(Written)
<1> SUFFICES ASSUME Typed PROVE Written \subseteq Comments /\ IsFiniteSet(Written)
  OBVIOUS
<1>1. Len(thread) \in Nat /\ Len(thread) <= MaxComments
  BY DEF Typed
<1>2. IsFiniteSet(1..Len(thread))
  BY <1>1, FS_Interval
<1> QED
  BY <1>1, <1>2, IntakeConstants DEF Written, Comments

\* A comment is added at the end.
LEMMA CommentAdded ==
  ASSUME Typed, NEW author \in Owners \cup Guests, NEW action \in Actions, Comment(author, action)
  PROVE  /\ Len(thread) \in Nat /\ Len(thread') = Len(thread) + 1
         /\ thread' \in Seq([by : Owners \cup Guests, action : Actions])
         /\ \A c \in Written : c \in Written' /\ thread'[c] = thread[c]
         /\ Written' = Written \cup {Len(thread) + 1} /\ Len(thread) + 1 \notin Written
         /\ thread'[Len(thread) + 1] = [by |-> author, action |-> action]
BY SMT DEF Typed, Comment, Written

-----------------------------------------------------------------------------
(* Types.                                                                   *)

LEMMA TypedInit == Init => Typed
<1> SUFFICES ASSUME Init PROVE Typed
  OBVIOUS
<1>1. 1 \in Heads /\ Written = {}
  BY IntakeConstants DEF Init, Heads, Written
<1>2. \A p \in Procs : step[p] = Idle /\ Idle.head = 0 /\ Idle.at = "idle"
  BY DEF Init, Idle
<1> QED
  BY <1>1, <1>2, NewSteps, IntakeConstants DEF Init, Typed, By, Rows

\* GoOn, Settling and the other ways in which a process goes on.
LEMMA MovesTyped ==
  ASSUME Typed, NEW p \in Procs, NEW s \in Steps, Moves(p, s), s.head = 0 <=> s.at = "idle"
  PROVE  /\ step' \in [Procs -> Steps]
         /\ \A q \in Procs : step'[q].head = 0 <=> step'[q].at = "idle"
         /\ step'[p] = s /\ \A q \in Procs \ {p} : step'[q] = step[q]
BY DEF Typed, Moves

LEMMA GoOnMoves ==
  ASSUME Typed, NEW p \in Procs, NEW stage \in Working, NEW d \in Comments \cup {0},
         GoOn(p, stage, d), step[p].at # "idle"
  PROVE  \E s \in Steps :
           /\ Moves(p, s)
           /\ s.at = stage /\ s.decided = d
           /\ s.head = step[p].head /\ s.head # 0 /\ s.comment = step[p].comment
           /\ s.known = step[p].known /\ s.todo = step[p].todo
<1> DEFINE s == [step[p] EXCEPT !.at = stage, !.decided = d]
<1>1. step[p] \in Steps /\ (step[p].head = 0 <=> step[p].at = "idle")
  BY DEF Typed
<1>2. s \in Steps /\ s.at = stage /\ s.decided = d /\ s.head = step[p].head
      /\ s.comment = step[p].comment /\ s.known = step[p].known /\ s.todo = step[p].todo
  BY <1>1 DEF Steps
<1>3. Moves(p, s)
  BY DEF GoOn, Moves
<1> QED
  BY <1>1, <1>2, <1>3

LEMMA NotIdle ==
  ASSUME Typed, NEW p \in Procs, step[p].at # "idle"
  PROVE  step[p].head \in Heads /\ step[p].head # 0
BY DEF Typed, Steps

-----------------------------------------------------------------------------
(* The steps of a job.                                                      *)

Work(p) ==
  \/ \E d \in Comments \cup {Automatic} : Resolve(p, d)
  \/ Fetch(p) \/ Silence(p) \/ GoStale(p) \/ TurnAway(p) \/ Begin(p) \/ Check(p)
  \/ Send(p) \/ Fail(p) \/ Defer(p)

\* What they have in common: the job is the same, and what is carried out and
\* recorded is what it is about.
WorkTypes ==
  /\ answered' \in [Comments -> Heads \cup {0}]
  /\ row' \in [Heads -> Rows]
  /\ failures' \in 0..MaxFailures
  /\ reviews' \in [Comments -> Nat]

Works(p, s) ==
  /\ Moves(p, s)
  /\ step[p].at \in Working /\ s.at \in Working
  /\ s.head = step[p].head /\ s.head # 0 /\ s.comment = step[p].comment
  /\ s.known = step[p].known /\ s.todo = step[p].todo
  /\ s.decided \in {0, step[p].decided} \cup Asked(p)
  /\ s.decided # 0 => s.at \in {"begin", "check", "send"}
  /\ UNCHANGED <<github, cooling, queue, deferred, lost, opened>>
  /\ \A c \in Comments : /\ answered[c] # 0 => answered'[c] # 0
                         /\ answered'[c] # 0 => answered[c] # 0 \/ c \in {step[p].decided} \cup Asked(p)
  /\ \A h \in Heads \ {step[p].head} : row'[h] = row[h]

LEMMA AskedComments == Typed => \A p \in Procs : Asked(p) \subseteq Comments /\ 0 \notin Asked(p)
<1> SUFFICES ASSUME Typed, NEW p \in Procs PROVE Asked(p) \subseteq Comments /\ 0 \notin Asked(p)
  OBVIOUS
<1>1. Written \subseteq Comments /\ 0 \notin Written
  BY WrittenComments DEF Written
<1> QED
  BY <1>1 DEF Asked, By

LEMMA AnswerTyped ==
  ASSUME Typed, NEW d \in Comments, NEW h \in Heads, Answer(d, h)
  PROVE  /\ answered' \in [Comments -> Heads \cup {0}]
         /\ answered'[d] = h /\ answered'[d] # 0
         /\ \A c \in Comments \ {d} : answered'[c] = answered[c]
BY DEF Typed, Answer, Heads

LEMMA UnpostedTyped ==
  ASSUME Typed, NEW h \in Heads, NEW status \in {"stopped", "skipped", "failed"},
         row' = Unposted(h, status)
  PROVE  /\ row' \in [Heads -> Rows]
         /\ \A i \in Heads \ {h} : row'[i] = row[i]
BY DEF Typed, Unposted, Rows

LEMMA PublicTyped ==
  ASSUME Typed, NEW d \in Comments \cup {0}, Public(d)
  PROVE  /\ reviews' \in [Comments -> Nat]
         /\ d # 0 => reviews'[d] = reviews[d] + 1
         /\ \A c \in Comments \ {d} : reviews'[c] = reviews[c]
<1>1. CASE d = 0
  BY <1>1 DEF Typed, Public
<1>2. CASE d # 0
  BY <1>2 DEF Typed, Public
<1> QED
  BY <1>1, <1>2

LEMMA TroubleTyped ==
  ASSUME Typed, NEW p \in Procs, Trouble(p)
  PROVE  failures' \in 0..MaxFailures /\ reviews' \in [Comments -> Nat]
<1>1. step[p].decided \in Comments \cup {0}
  BY StepParts DEF Typed
<1>2. failures' \in 0..MaxFailures
  BY IntakeConstants DEF Typed, Trouble
<1>3. reviews' \in [Comments -> Nat]
  BY <1>1, PublicTyped DEF Typed, Trouble
<1> QED
  BY <1>2, <1>3

LEMMA WorkWorks ==
  ASSUME Typed, NEW p \in Procs, Work(p)
  PROVE  WorkTypes /\ \E s \in Steps : Works(p, s)
<1> DEFINE h == step[p].head
           kept == UNCHANGED <<github, cooling, queue, deferred, lost, opened>>
           rows == \A i \in Heads \ {h} : row'[i] = row[i]
<1>0. /\ answered \in [Comments -> Heads \cup {0}] /\ failures \in 0..MaxFailures
      /\ row \in [Heads -> Rows]
      /\ reviews \in [Comments -> Nat]
  BY DEF Typed
<1>1. step[p].at \in Working => h \in Heads /\ h # 0
  BY NotIdle DEF Working
<1>r. \A status \in {"cooldown", "posted"} :
        row' = [row EXCEPT ![h] = status] => row' \in [Heads -> Rows] /\ rows
  BY <1>0 DEF Rows
<1>2. step[p].decided \in Comments \cup {0}
  BY StepParts DEF Typed
<1>3. \A d \in Comments : Answer(d, h) /\ h \in Heads =>
        /\ answered' \in [Comments -> Heads \cup {0}]
        /\ \A c \in Comments : /\ answered[c] # 0 => answered'[c] # 0
                               /\ answered'[c] # 0 => answered[c] # 0 \/ c = d
  BY AnswerTyped
<1>4. ASSUME NEW stage \in Working, NEW d \in Comments \cup {0}, GoOn(p, stage, d),
             step[p].at \in Working, kept, rows,
             d \in {0, step[p].decided} \cup Asked(p),
             d # 0 => stage \in {"begin", "check", "send"},
             \A c \in Comments :
               /\ answered[c] # 0 => answered'[c] # 0
               /\ answered'[c] # 0 => answered[c] # 0 \/ c \in {step[p].decided} \cup Asked(p)
      PROVE  \E s \in Steps : Works(p, s)
  <2>1. step[p].at # "idle"
    BY <1>4 DEF Working
  <2>2. PICK s \in Steps :
           /\ Moves(p, s)
           /\ s.at = stage /\ s.decided = d
           /\ s.head = step[p].head /\ s.head # 0 /\ s.comment = step[p].comment
           /\ s.known = step[p].known /\ s.todo = step[p].todo
    BY <1>4, <2>1, GoOnMoves
  <2> QED
    BY <1>4, <2>2 DEF Works
<1>5. CASE Fetch(p)
  <2>1. /\ step[p].at \in Working /\ (GoOn(p, "settle", 0) \/ GoOn(p, "resolve", 0))
        /\ {"settle", "resolve"} \subseteq Working
        /\ UNCHANGED <<answered, row, failures, reviews>> /\ kept
    BY <1>5 DEF Fetch, Settling, Working, history
  <2> QED
    BY <2>1, <1>0, <1>4 DEF WorkTypes
<1>6. ASSUME NEW d \in Comments \cup {Automatic}, Resolve(p, d)
      PROVE  WorkTypes /\ \E s \in Steps : Works(p, s)
  <2>1. /\ step[p].at \in Working /\ {"silence", "settle", "begin"} \subseteq Working
        /\ UNCHANGED <<row, failures, reviews>> /\ kept
    BY <1>6 DEF Resolve, ResolveStop, ResolveExplain, ResolveReview, ResolveNone, Working, history
  <2>2. d # 0 => d \in Asked(p)
    BY <1>6 DEF Resolve, Decided, Pending
  <2>3. d \in Asking("stop") \cup Asking("explain") \cup Asking("review") => d # 0
    BY DEF Asking, Written
  <2>4. CASE ResolveStop(p, d)
    <3>1. GoOn(p, "silence", 0) /\ Answer(d, h) /\ d # 0
      BY <2>3, <2>4 DEF ResolveStop
    <3> QED
      BY <3>1, <2>1, <2>2, <1>0, <1>1, <1>3, <1>4 DEF WorkTypes
  <2>5. CASE ResolveExplain(p, d)
    <3>1. GoOn(p, "settle", 0) /\ Answer(d, h) /\ d # 0
      BY <2>3, <2>5 DEF ResolveExplain, Settling
    <3> QED
      BY <3>1, <2>1, <2>2, <1>0, <1>1, <1>3, <1>4 DEF WorkTypes
  <2>6. CASE ResolveReview(p, d)
    <3>1. GoOn(p, "begin", d) /\ UNCHANGED answered /\ d # 0
      BY <2>3, <2>6 DEF ResolveReview
    <3> QED
      BY <3>1, <2>1, <2>2, <1>0, <1>4 DEF WorkTypes
  <2>7. CASE ResolveNone(p, d)
    <3>1. (GoOn(p, "begin", 0) \/ GoOn(p, "settle", 0)) /\ UNCHANGED answered
      BY <2>7 DEF ResolveNone, Settling
    <3> QED
      BY <3>1, <2>1, <1>0, <1>4 DEF WorkTypes
  <2> QED
    BY <1>6, <2>4, <2>5, <2>6, <2>7 DEF Resolve
<1>7. CASE Silence(p)
  <2>1. /\ step[p].at \in Working /\ GoOn(p, "settle", 0) /\ "settle" \in Working
        /\ row' = Unposted(h, "stopped") /\ UNCHANGED <<answered, failures, reviews>> /\ kept
    BY <1>7 DEF Silence, Settling, Working, history
  <2> QED
    BY <2>1, <1>0, <1>1, <1>4, UnpostedTyped DEF WorkTypes
<1>8. CASE GoStale(p)
  <2>1. /\ step[p].at \in Working /\ GoOn(p, "settle", 0) /\ "settle" \in Working
        /\ row' = Unposted(h, "skipped") /\ UNCHANGED <<answered, failures, reviews>> /\ kept
    BY <1>8 DEF GoStale, Settling, Working, history
  <2> QED
    BY <2>1, <1>0, <1>1, <1>4, UnpostedTyped DEF WorkTypes
<1>9. CASE Begin(p)
  <2>1. /\ step[p].at \in Working /\ GoOn(p, "check", step[p].decided) /\ "check" \in Working
        /\ UNCHANGED <<row, failures, reviews>> /\ kept
        /\ IF step[p].decided = 0 THEN UNCHANGED answered ELSE Answer(step[p].decided, h)
    BY <1>9 DEF Begin, Working, history
  <2> QED
    BY <2>1, <1>0, <1>1, <1>2, <1>3, <1>4 DEF WorkTypes
<1>10. CASE Check(p)
  <2>1. /\ step[p].at \in Working /\ {"send", "settle"} \subseteq Working
        /\ UNCHANGED <<answered, failures, reviews>> /\ kept
        /\ \/ GoOn(p, "send", step[p].decided) /\ UNCHANGED row
           \/ GoOn(p, "settle", 0) /\ row' = Unposted(h, "skipped")
    BY <1>10 DEF Check, Settling, Working, history
  <2> QED
    BY <2>1, <1>0, <1>1, <1>2, <1>4, UnpostedTyped DEF WorkTypes
<1>11. CASE Send(p)
  <2>1. /\ step[p].at \in Working /\ GoOn(p, "settle", 0) /\ "settle" \in Working
        /\ row' = [row EXCEPT ![h] = "posted"] /\ Public(step[p].decided)
        /\ UNCHANGED <<answered, failures>> /\ kept
    BY <1>11 DEF Send, Settling, Working
  <2> QED
    BY <2>1, <1>0, <1>2, <1>4, <1>r, PublicTyped DEF WorkTypes
<1>12. CASE Fail(p)
  <2>1. /\ step[p].at \in Working /\ GoOn(p, "settle", 0) /\ "settle" \in Working
        /\ row' = Unposted(h, "failed") \/ UNCHANGED row
        /\ Trouble(p) /\ UNCHANGED answered /\ kept
    BY <1>12 DEF Fail, Settling, Working
  <2> QED
    BY <2>1, <1>0, <1>1, <1>4, UnpostedTyped, TroubleTyped DEF WorkTypes
<1>13. CASE Defer(p)
  <2>1. /\ step[p].at \in Working /\ GoOn(p, "defer", 0) /\ "defer" \in Working
        /\ row' = [row EXCEPT ![h] = "cooldown"]
        /\ Trouble(p) /\ UNCHANGED answered /\ kept
    BY <1>13 DEF Defer, Working
  <2> QED
    BY <2>1, <1>0, <1>4, <1>r, TroubleTyped DEF WorkTypes
<1>14. CASE TurnAway(p)
  <2>1. /\ step[p].at \in Working /\ GoOn(p, "settle", 0) /\ "settle" \in Working
        /\ UNCHANGED <<answered, row, failures, reviews>> /\ kept
    BY <1>14 DEF TurnAway, Settling, Working, history
  <2> QED
    BY <2>1, <1>0, <1>4 DEF WorkTypes
<1> QED
  BY <1>5, <1>6, <1>7, <1>8, <1>9, <1>10, <1>11, <1>12, <1>13, <1>14 DEF Work

\* What a step of a job does to the stops in force.
LEMMA WorkSilences ==
  ASSUME NEW p \in Procs, Work(p)
  PROVE  \/ UNCHANGED silenced
         \/ silenced' = silenced \cup {step[p].head} /\ step[p].at = "silence"
         \/ silenced' = {h \in silenced : row'[h] \notin Retryable}
BY DEF Work, Resolve, Fetch, Silence, GoStale, TurnAway, Begin, Check, Send, Fail, Defer,
       TakesBack, history

-----------------------------------------------------------------------------
(* The other steps of a process: it scans, and leases and leaves jobs.      *)

Turns(p, s) ==
  /\ Moves(p, s)
  /\ s.head = 0 <=> s.at = "idle"
  /\ s.at \in {"idle", "read", "admit", "enqueue", "fetch"} /\ s.decided = 0

\* A scan up to the admissions.
Looks(p) == Scan(p) \/ Read(p)

LEMMA LooksTurns ==
  ASSUME Typed, NEW p \in Procs, Looks(p)
  PROVE  /\ \E s \in Steps : /\ Turns(p, s)
                             /\ s.at \in {"read", "admit"} /\ s.head \in {head, step[p].head}
                             /\ s.comment = 0
                             /\ s.known \subseteq By(Owners) /\ s.todo \subseteq By(Guests)
         /\ failures' \in 0..MaxFailures
         /\ UNCHANGED <<head, thread, cooling, answered, row, queue, lost, reviews, opened, silenced>>
<1> DEFINE h == step[p].head
           r == At("read", head)
           s == [At("admit", h) EXCEPT !.known = By(Owners), !.todo = By(Guests)]
           t == At("admit", h)
<1>1. /\ head \in Heads /\ head # 0 /\ failures \in 0..MaxFailures
      /\ {"read", "admit"} \subseteq Scanning
  BY DEF Typed, Heads, Scanning
<1>2. By(Owners) \subseteq Comments /\ By(Guests) \subseteq Comments
  BY WrittenComments DEF By
<1>3. r \in Steps /\ r.at = "read" /\ r.head = head /\ r.comment = 0 /\ r.decided = 0
      /\ r.known = {} /\ r.todo = {}
  BY <1>1, NewSteps
<1>4. ASSUME Read(p)
      PROVE  /\ h # 0
             /\ s \in Steps /\ s.at = "admit" /\ s.head = h /\ s.comment = 0 /\ s.decided = 0
             /\ s.known = By(Owners) /\ s.todo = By(Guests)
             /\ t \in Steps /\ t.at = "admit" /\ t.head = h /\ t.comment = 0 /\ t.decided = 0
             /\ t.known = {} /\ t.todo = {}
  <2>1. h \in Heads /\ h # 0
    BY <1>4, NotIdle DEF Read
  <2>2. s \in Steps /\ s.at = "admit" /\ s.head = h /\ s.comment = 0 /\ s.decided = 0
        /\ s.known = By(Owners) /\ s.todo = By(Guests)
    BY <1>1, <1>2, <2>1, NewSteps DEF Steps, At, Idle
  <2>3. t \in Steps /\ t.at = "admit" /\ t.head = h /\ t.comment = 0 /\ t.decided = 0
        /\ t.known = {} /\ t.todo = {}
    BY <1>1, <2>1, NewSteps
  <2> QED
    BY <2>1, <2>2, <2>3
<1>5. /\ (Scan(p) /\ Moves(p, r)) \/ (Read(p) /\ (Moves(p, s) \/ Moves(p, t)))
      /\ failures' \in 0..MaxFailures
      /\ UNCHANGED <<head, thread, cooling, answered, row, queue, lost, reviews, opened, silenced>>
  BY <1>1, IntakeConstants DEF Looks, Scan, Read, Moves, github, history
<1> HIDE DEF r, s, t
<1> QED
  BY <1>1, <1>3, <1>4, <1>5 DEF Turns

LEMMA AdmitTurns ==
  ASSUME Typed, Known, NEW p \in Procs, NEW c \in Comments, Admit(p, c)
  PROVE  /\ \E s \in Steps : /\ Turns(p, s)
                             /\ s.at = "admit" /\ s.head = step[p].head /\ s.comment = step[p].comment
                             /\ s.todo = step[p].todo \ {c}
                             /\ \/ s.known = step[p].known \cup {c} /\ opened' = Opened(thread[c].by)
                                \/ s.known = step[p].known /\ opened' = opened
         /\ c \in step[p].todo /\ step[p].at = "admit"
         /\ cooling' \in [Heads \X Guests -> BOOLEAN]
         /\ opened' \in [Guests -> 0..MaxComments]
         /\ UNCHANGED <<head, thread, answered, row, queue, lost, failures, reviews, silenced>>
<1> DEFINE s == [step[p] EXCEPT !.todo = @ \ {c}, !.known = @ \cup {c}]
           t == [step[p] EXCEPT !.todo = @ \ {c}]
<1>1. /\ step[p] \in Steps /\ step[p].at = "admit" /\ c \in step[p].todo
      /\ cooling \in [Heads \X Guests -> BOOLEAN] /\ opened \in [Guests -> 0..MaxComments]
      /\ step[p].head = 0 <=> step[p].at = "idle"
  BY DEF Typed, Admit
<1>2. s \in Steps /\ s.at = "admit" /\ s.head = step[p].head /\ s.comment = step[p].comment
      /\ s.decided = step[p].decided /\ s.known = step[p].known \cup {c} /\ s.todo = step[p].todo \ {c}
  BY <1>1 DEF Steps
<1>3. t \in Steps /\ t.at = "admit" /\ t.head = step[p].head /\ t.comment = step[p].comment
      /\ t.decided = step[p].decided /\ t.known = step[p].known /\ t.todo = step[p].todo \ {c}
  BY <1>1 DEF Steps
<1>4. \/ Moves(p, s) /\ opened' = Opened(thread[c].by)
      \/ Moves(p, t) /\ opened' = opened
  BY DEF Admit, Moves
<1>5. cooling' \in [Heads \X Guests -> BOOLEAN] /\ opened' \in [Guests -> 0..MaxComments]
  <2>1. cooling' \in [Heads \X Guests -> BOOLEAN]
    <3> DEFINE window == <<step[p].head, thread[c].by>>
    <3>1. cooling' = cooling \/ cooling' = [cooling EXCEPT ![window] = TRUE]
      BY DEF Admit
    <3> HIDE DEF window
    <3> QED
      BY <1>1, <3>1
  <2>2. opened' \in [Guests -> 0..MaxComments]
    <3>1. MaxComments \in Nat
      BY IntakeConstants
    <3>2. \A n \in 0..MaxComments : (IF n = MaxComments THEN n ELSE n + 1) \in 0..MaxComments
      BY <3>1
    <3> QED
      BY <1>1, <3>2, <1>4 DEF Opened
  <2> QED
    BY <2>1, <2>2
<1>6. UNCHANGED <<head, thread, answered, row, queue, lost, failures, reviews, silenced>>
  BY DEF Admit, github
<1>7. step[p].decided = 0
  BY <1>1 DEF Known, Reviewing
<1> HIDE DEF s, t
<1> QED
  BY <1>1, <1>2, <1>3, <1>4, <1>5, <1>6, <1>7 DEF Turns

LEMMA DecideTurns ==
  ASSUME Typed, NEW p \in Procs, NEW d \in Comments \cup {Automatic}, Decide(p, d)
  PROVE  /\ \E s \in Steps : /\ Turns(p, s)
                             /\ s.at \in {"idle", "enqueue"} /\ s.head \in {0, step[p].head}
                             /\ s.comment \in {0} \cup step[p].known /\ s.known = {} /\ s.todo = {}
         /\ step[p].at = "admit"
         /\ queue' \subseteq queue
         /\ UNCHANGED <<head, thread, cooling, answered, row, lost, failures, reviews, opened, silenced>>
<1> DEFINE h == step[p].head
           s == [At("enqueue", h) EXCEPT !.comment = d]
<1>1. step[p].at = "admit" /\ "enqueue" \in Scanning
  BY DEF Decide, Scanning
<1>2. h \in Heads /\ h # 0
  BY <1>1, NotIdle
<1>3. s \in Steps /\ s.at = "enqueue" /\ s.head = h /\ s.comment = d /\ s.decided = 0
      /\ s.known = {} /\ s.todo = {}
  BY <1>1, <1>2, NewSteps DEF At, Idle, Steps
<1>4. Idle \in Steps /\ Idle.at = "idle" /\ Idle.head = 0 /\ Idle.comment = 0 /\ Idle.decided = 0
      /\ Idle.known = {} /\ Idle.todo = {}
  BY NewSteps DEF Idle
<1>5. d \in {0} \cup step[p].known
  BY DEF Decide, Decided, Pending
<1>6. Moves(p, s) \/ Moves(p, Idle)
  BY DEF Decide, Moves
<1>7. /\ queue' \subseteq queue
      /\ UNCHANGED <<head, thread, cooling, answered, row, lost, failures, reviews, opened, silenced>>
  BY DEF Decide, github, history
<1> HIDE DEF s
<1> QED
  BY <1>1, <1>2, <1>3, <1>4, <1>5, <1>6, <1>7 DEF Turns

LEMMA LeaseTurns ==
  ASSUME Typed, NEW p \in Procs, NEW j \in Jobs, Lease(p, j)
  PROVE  /\ \E s \in Steps : /\ Turns(p, s)
                             /\ s.at = "fetch" /\ s.head = j.head /\ s.comment = j.comment
                             /\ s.known = {} /\ s.todo = {}
         /\ step[p].at = "idle"
         /\ j \in queue /\ queue' = queue \ {j}
         /\ WorkingOn(j.head) = {} /\ \A k \in lost : k.head # j.head
         /\ UNCHANGED <<head, thread, cooling, answered, row, lost, failures, reviews, opened, silenced>>
<1> DEFINE retry == j \in deferred
<1>0. retry \in BOOLEAN
  OBVIOUS
<1> HIDE DEF retry
<1> DEFINE s == [At("fetch", j.head) EXCEPT !.comment = j.comment, !.retry = retry]
<1>1. j.head \in Heads /\ j.head # 0 /\ j.comment \in Comments \cup {0} /\ "fetch" \in Working
  BY DEF Jobs, Heads, Working
<1>2. s \in Steps /\ s.at = "fetch" /\ s.head = j.head /\ s.comment = j.comment /\ s.decided = 0
      /\ s.known = {} /\ s.todo = {}
  <2> DEFINE t == At("fetch", j.head)
             u == [t EXCEPT !.comment = j.comment]
  <2>1. /\ t \in Steps /\ t.at = "fetch" /\ t.head = j.head
        /\ t.known = {} /\ t.todo = {} /\ t.decided = 0
    BY <1>1, NewSteps
  <2>2. /\ u \in Steps /\ u.at = "fetch" /\ u.head = j.head /\ u.comment = j.comment
        /\ u.known = {} /\ u.todo = {} /\ u.decided = 0
    BY <1>1, <2>1 DEF Steps
  <2>3. s = [u EXCEPT !.retry = retry]
    BY <2>1 DEF Steps
  <2> HIDE DEF u, s
  <2> QED
    BY <1>0, <2>2, <2>3 DEF Steps
<1>3. Moves(p, s)
  BY DEF Lease, Moves, retry
<1>4. /\ step[p].at = "idle" /\ j \in queue /\ queue' = queue \ {j}
      /\ WorkingOn(j.head) = {} /\ \A k \in lost : k.head # j.head
      /\ UNCHANGED <<head, thread, cooling, answered, row, lost, failures, reviews, opened, silenced>>
  BY DEF Lease, github, history
<1> HIDE DEF s
<1> QED
  BY <1>1, <1>2, <1>3, <1>4 DEF Turns

\* The ways in which a process ends.
Quits(p) == Enqueue(p) \/ Return(p) \/ PutBack(p) \/ Settle(p) \/ Crash(p)

LEMMA JobsTyped ==
  ASSUME Typed, NEW p \in Procs, step[p].at # "idle"
  PROVE  /\ JobOf(p) \in Jobs
         /\ JobOf(p).head = step[p].head /\ JobOf(p).comment = step[p].comment
<1>1. step[p].head \in Heads /\ step[p].comment \in Comments \cup {0}
  BY NotIdle, StepParts DEF Typed
<1> QED
  BY <1>1 DEF JobOf, Job, Jobs

LEMMA QuitsTurns ==
  ASSUME Typed, NEW p \in Procs, Quits(p)
  PROVE  /\ Turns(p, Idle) /\ Idle \in Steps
         /\ Idle.at = "idle" /\ Idle.head = 0 /\ Idle.comment = 0
         /\ Idle.known = {} /\ Idle.todo = {} /\ Idle.decided = 0
         /\ step[p].at # "idle" /\ JobOf(p) \in Jobs
         /\ \/ queue' = queue
            \/ queue' = queue \cup {JobOf(p)} /\ (Busy(p) \/ JobOf(p) \notin Leased) /\ lost' = lost
         /\ \/ lost' = lost
            \/ lost' = lost \cup {JobOf(p)} /\ Busy(p) /\ queue' = queue
         /\ failures' \in 0..MaxFailures
         /\ reviews' \in [Comments -> Nat]
         /\ reviews' = reviews \/ (step[p].at = "send" /\ Public(step[p].decided))
         /\ UNCHANGED <<head, thread, cooling, answered, row, opened, silenced>>
<1>1. Idle \in Steps /\ Idle.at = "idle" /\ Idle.head = 0 /\ Idle.comment = 0
      /\ Idle.known = {} /\ Idle.todo = {} /\ Idle.decided = 0
  BY NewSteps DEF Idle
<1>2. Moves(p, Idle) /\ step[p].at # "idle"
  BY DEF Quits, Enqueue, Return, PutBack, Settle, Crash, Moves
<1>3. JobOf(p) \in Jobs
  BY <1>2, JobsTyped
<1>4. Turns(p, Idle)
  BY <1>1, <1>2 DEF Turns
<1>5. failures \in 0..MaxFailures /\ reviews \in [Comments -> Nat]
  BY DEF Typed
<1>6. CASE Enqueue(p)
  BY <1>1, <1>2, <1>3, <1>4, <1>5, <1>6 DEF Enqueue, github, history
<1>7. CASE Return(p) \/ PutBack(p)
  <2>1. Busy(p)
    BY <1>7 DEF Return, PutBack, Busy, Working
  <2> QED
    BY <1>1, <1>2, <1>3, <1>4, <1>5, <1>7, <2>1 DEF Return, PutBack, github, history
<1>8. CASE Settle(p)
  BY <1>1, <1>2, <1>3, <1>4, <1>5, <1>8 DEF Settle, github, history
<1>9. CASE Crash(p)
  <2>1. failures' \in 0..MaxFailures /\ reviews' \in [Comments -> Nat]
        /\ (reviews' = reviews \/ (step[p].at = "send" /\ Public(step[p].decided)))
    BY <1>9, TroubleTyped DEF Crash, Trouble
  <2>2. /\ queue' = queue
        /\ lost' = lost \/ (lost' = lost \cup {JobOf(p)} /\ Busy(p))
        /\ UNCHANGED <<head, thread, cooling, answered, row, opened, silenced>>
    BY <1>9 DEF Crash, Busy, github
  <2> QED
    BY <1>1, <1>2, <1>3, <1>4, <2>1, <2>2
<1> QED
  BY <1>6, <1>7, <1>8, <1>9 DEF Quits


LEMMA NextCases ==
  ASSUME Next
  PROVE  \/ Push
         \/ \E author \in Owners \cup Guests, action \in Actions : Comment(author, action)
         \/ \E window \in Heads \X Guests : WindowPasses(window)
         \/ \E j \in Jobs : Expire(j)
         \/ \E p \in Procs :
              \/ Looks(p) \/ \E c \in Comments : Admit(p, c)
              \/ \E d \in Comments \cup {Automatic} : Decide(p, d)
              \/ \E j \in Jobs : Lease(p, j)
              \/ Work(p) \/ Quits(p)
<1>1. ASSUME NEW p \in Procs, Proceed(p)
      PROVE  \/ Looks(p) \/ \E c \in Comments : Admit(p, c)
             \/ \E d \in Comments \cup {Automatic} : Decide(p, d)
             \/ Work(p) \/ Quits(p)
  BY <1>1 DEF Proceed, Work, Quits, Looks
<1>2. \A p \in Procs : /\ (Fail(p) => Work(p)) /\ (Defer(p) => Work(p))
                       /\ (Return(p) => Quits(p)) /\ (Crash(p) => Quits(p))
  BY DEF Work, Quits
<1> QED
  BY <1>1, <1>2 DEF Next, Looks

-----------------------------------------------------------------------------
(* Types.                                                                   *)

LEMMA ByUnchanged ==
  ASSUME UNCHANGED thread
  PROVE  Written' = Written /\ \A authors : By(authors)' = By(authors)
BY DEF Written, By

LEMMA TurnsTyped ==
  ASSUME Typed, NEW p \in Procs, NEW s \in Steps, Turns(p, s)
  PROVE  /\ step' \in [Procs -> Steps]
         /\ \A q \in Procs : step'[q].head = 0 <=> step'[q].at = "idle"
BY MovesTyped DEF Turns

LEMMA TypedNext == ASSUME Typed, Known, Next PROVE Typed'
<1>0. UNCHANGED thread => By(Guests)' = By(Guests)
  BY ByUnchanged
<1>1. CASE Push
  <2>1. head' \in Heads
    BY <1>1, IntakeConstants DEF Push, Typed, Heads
  <2> QED
    BY <1>0, <1>1, <2>1 DEF Push, Typed, history
<1>2. ASSUME NEW author \in Owners \cup Guests, NEW action \in Actions, Comment(author, action)
      PROVE  Typed'
  <2>1. /\ Len(thread) \in Nat /\ Len(thread') = Len(thread) + 1
        /\ thread' \in Seq([by : Owners \cup Guests, action : Actions])
        /\ \A c \in Written : c \in Written' /\ thread'[c] = thread[c]
        /\ Written' = Written \cup {Len(thread) + 1}
        /\ thread'[Len(thread) + 1] = [by |-> author, action |-> action]
    BY <1>2, CommentAdded
  <2>2. Len(thread') <= MaxComments
    BY <1>2, <2>1, IntakeConstants DEF Comment
  <2>3. \A c \in By(Guests)' : thread'[c].action = "review"
    <3> SUFFICES ASSUME NEW c \in Written', thread'[c].by \in Guests
                 PROVE  thread'[c].action = "review"
      BY DEF By
    <3>1. CASE c \in Written
      BY <2>1, <3>1 DEF Typed, By
    <3>2. CASE c = Len(thread) + 1
      BY <1>2, <2>1, <3>2, IntakeConstants DEF Comment
    <3> QED
      BY <2>1, <3>1, <3>2
  <2>4. UNCHANGED <<head, cooling, answered, row, queue, lost, step, failures, reviews, opened, silenced>>
    BY <1>2 DEF Comment, history
  <2> QED
    BY <2>1, <2>2, <2>3, <2>4 DEF Typed
<1>3. ASSUME NEW window \in Heads \X Guests, WindowPasses(window)
      PROVE  Typed'
  <2>1. cooling' \in [Heads \X Guests -> BOOLEAN]
    BY <1>3 DEF WindowPasses, Typed
  <2>2. UNCHANGED <<head, thread, answered, row, queue, lost, step, failures, reviews, opened, silenced>>
    BY <1>3 DEF WindowPasses, github, history
  <2> QED
    BY <1>0, <2>1, <2>2 DEF Typed
<1>4. ASSUME NEW j \in Jobs, Expire(j)
      PROVE  Typed'
  <2>1. UNCHANGED <<head, thread, cooling, answered, row, step, failures, reviews, opened, silenced>>
    BY <1>4 DEF Expire, github, history
  <2> QED
    BY <1>0, <1>4, <2>1 DEF Typed, Expire
<1>5. ASSUME NEW p \in Procs, Looks(p)
      PROVE  Typed'
  <2>1. /\ step' \in [Procs -> Steps]
        /\ \A q \in Procs : step'[q].head = 0 <=> step'[q].at = "idle"
    BY <1>5, LooksTurns, TurnsTyped
  <2>2. /\ failures' \in 0..MaxFailures
        /\ UNCHANGED <<head, thread, cooling, answered, row, queue, lost, reviews, opened, silenced>>
    BY <1>5, LooksTurns
  <2> QED
    BY <1>0, <2>1, <2>2 DEF Typed
<1>6. ASSUME NEW p \in Procs, NEW c \in Comments, Admit(p, c)
      PROVE  Typed'
  <2>1. /\ step' \in [Procs -> Steps]
        /\ \A q \in Procs : step'[q].head = 0 <=> step'[q].at = "idle"
    BY <1>6, AdmitTurns, TurnsTyped
  <2>2. /\ cooling' \in [Heads \X Guests -> BOOLEAN]
        /\ opened' \in [Guests -> 0..MaxComments]
        /\ UNCHANGED <<head, thread, answered, row, queue, lost, failures, reviews, silenced>>
    BY <1>6, AdmitTurns
  <2> QED
    BY <1>0, <2>1, <2>2 DEF Typed
<1>7. ASSUME NEW p \in Procs, NEW d \in Comments \cup {Automatic}, Decide(p, d)
      PROVE  Typed'
  <2>1. /\ step' \in [Procs -> Steps]
        /\ \A q \in Procs : step'[q].head = 0 <=> step'[q].at = "idle"
    BY <1>7, DecideTurns, TurnsTyped
  <2>2. /\ queue' \subseteq queue
        /\ UNCHANGED <<head, thread, cooling, answered, row, lost, failures, reviews, opened, silenced>>
    BY <1>7, DecideTurns
  <2> QED
    BY <1>0, <2>1, <2>2 DEF Typed
<1>8. ASSUME NEW p \in Procs, NEW j \in Jobs, Lease(p, j)
      PROVE  Typed'
  <2>1. /\ step' \in [Procs -> Steps]
        /\ \A q \in Procs : step'[q].head = 0 <=> step'[q].at = "idle"
    BY <1>8, LeaseTurns, TurnsTyped
  <2>2. /\ queue' = queue \ {j}
        /\ UNCHANGED <<head, thread, cooling, answered, row, lost, failures, reviews, opened, silenced>>
    BY <1>8, LeaseTurns
  <2> QED
    BY <1>0, <2>1, <2>2 DEF Typed
<1>9. ASSUME NEW p \in Procs, Work(p)
      PROVE  Typed'
  <2>1. WorkTypes
    BY <1>9, WorkWorks
  <2>2. PICK s \in Steps : Works(p, s)
    BY <1>9, WorkWorks
  <2>3. /\ step' \in [Procs -> Steps]
        /\ \A q \in Procs : step'[q].head = 0 <=> step'[q].at = "idle"
    BY <2>2, MovesTyped DEF Works, Working
  <2>4. UNCHANGED <<head, thread, cooling, queue, lost, opened>>
    BY <2>2 DEF Works, github
  <2>5. silenced' \subseteq Heads
    BY <1>9, WorkSilences, NotIdle DEF Typed
  <2> QED
    BY <1>0, <2>1, <2>3, <2>4, <2>5 DEF Typed, WorkTypes
<1>10. ASSUME NEW p \in Procs, Quits(p)
       PROVE  Typed'
  <2>1. /\ step' \in [Procs -> Steps]
        /\ \A q \in Procs : step'[q].head = 0 <=> step'[q].at = "idle"
    BY <1>10, QuitsTurns, TurnsTyped
  <2>2. /\ JobOf(p) \in Jobs
        /\ queue' \in {queue, queue \cup {JobOf(p)}} /\ lost' \in {lost, lost \cup {JobOf(p)}}
        /\ failures' \in 0..MaxFailures /\ reviews' \in [Comments -> Nat]
        /\ UNCHANGED <<head, thread, cooling, answered, row, opened, silenced>>
    BY <1>10, QuitsTurns
  <2>3. queue' \subseteq Jobs /\ lost' \subseteq Jobs
    BY <2>2 DEF Typed
  <2> QED
    BY <1>0, <2>1, <2>2, <2>3 DEF Typed
<1> QED
  BY <1>1, <1>2, <1>3, <1>4, <1>5, <1>6, <1>7, <1>8, <1>9, <1>10, NextCases


-----------------------------------------------------------------------------
(* One job of a head.                                                       *)

LEMMA MovesOne ==
  ASSUME Typed, NEW p \in Procs, NEW s \in Steps, Moves(p, s)
  PROVE  /\ step'[p] = s
         /\ \A q \in Procs \ {p} : /\ step'[q] = step[q]
                                   /\ JobOf(q)' = JobOf(q) /\ Busy(q)' = Busy(q)
<1>1. step'[p] = s /\ \A q \in Procs \ {p} : step'[q] = step[q]
  BY DEF Typed, Moves
<1> QED
  BY <1>1 DEF JobOf, Job, Busy

\* Two jobs are different if their heads are.
LEMMA JobParts ==
  /\ \A p \in Procs : JobOf(p).head = step[p].head /\ JobOf(p).comment = step[p].comment
  /\ \A c, h : Job(c, h).head = h /\ Job(c, h).comment = c
BY DEF JobOf, Job

LEMMA ExclusiveNext == ASSUME Typed, Known, Exclusive, Next PROVE Exclusive'
<1>0. ASSUME UNCHANGED <<queue, lost, step>> PROVE Exclusive'
  BY <1>0 DEF Exclusive, Busy, JobOf
<1>1. CASE Push
  BY <1>0, <1>1 DEF Push
<1>2. ASSUME NEW author \in Owners \cup Guests, NEW action \in Actions, Comment(author, action)
      PROVE  Exclusive'
  BY <1>0, <1>2 DEF Comment
<1>3. ASSUME NEW window \in Heads \X Guests, WindowPasses(window)
      PROVE  Exclusive'
  BY <1>0, <1>3 DEF WindowPasses
<1>4. ASSUME NEW j \in Jobs, Expire(j)
      PROVE  Exclusive'
  <2>1. j \in lost /\ lost' = lost \ {j} /\ queue' = queue \cup {j} /\ UNCHANGED step
    BY <1>4 DEF Expire
  <2>2. \A p \in Procs : Busy(p)' = Busy(p) /\ JobOf(p)' = JobOf(p)
    BY <2>1 DEF Busy, JobOf
  <2>3. queue' \cap lost' = {}
    BY <2>1 DEF Exclusive
  <2>4. ASSUME NEW p \in Procs, Busy(p)
        PROVE  /\ JobOf(p) \notin queue'
               /\ \A k \in lost' : k.head # step'[p].head
               /\ \A q \in Procs : Busy(q) /\ step'[q].head = step'[p].head => q = p
    BY <2>1, <2>4, JobParts DEF Exclusive
  <2> QED
    BY <2>2, <2>3, <2>4 DEF Exclusive
\* A process that does not work on a job, and has not added one.
<1>5. ASSUME NEW p \in Procs, NEW s \in Steps, Moves(p, s), s.at \notin Working,
             queue' \subseteq queue, lost' = lost
      PROVE  Exclusive'
  <2>1. /\ step'[p] = s
        /\ \A q \in Procs \ {p} : step'[q] = step[q] /\ JobOf(q)' = JobOf(q) /\ Busy(q)' = Busy(q)
    BY <1>5, MovesOne
  <2>2. ~ Busy(p)'
    BY <1>5, <2>1 DEF Busy
  <2> QED
    BY <1>5, <2>1, <2>2 DEF Exclusive
<1>6. ASSUME NEW p \in Procs, Looks(p)
      PROVE  Exclusive'
  BY <1>5, <1>6, LooksTurns DEF Turns, Working
<1>7. ASSUME NEW p \in Procs, NEW c \in Comments, Admit(p, c)
      PROVE  Exclusive'
  BY <1>5, <1>7, AdmitTurns DEF Turns, Working
<1>8. ASSUME NEW p \in Procs, NEW d \in Comments \cup {Automatic}, Decide(p, d)
      PROVE  Exclusive'
  BY <1>5, <1>8, DecideTurns DEF Turns, Working
<1>9. ASSUME NEW p \in Procs, NEW j \in Jobs, Lease(p, j)
      PROVE  Exclusive'
  <2>1. /\ j \in queue /\ queue' = queue \ {j} /\ lost' = lost
        /\ WorkingOn(j.head) = {} /\ \A k \in lost : k.head # j.head
    BY <1>9, LeaseTurns
  <2>2. PICK s \in Steps : /\ Turns(p, s)
                           /\ s.at = "fetch" /\ s.head = j.head /\ s.comment = j.comment
    BY <1>9, LeaseTurns
  <2>3. /\ step'[p] = s
        /\ \A q \in Procs \ {p} : step'[q] = step[q] /\ JobOf(q)' = JobOf(q) /\ Busy(q)' = Busy(q)
    BY <2>2, MovesOne DEF Turns
  <2>4. JobOf(p)' = j
    BY <2>2, <2>3 DEF JobOf, Job, Jobs
  <2>5. \A q \in Procs \ {p} : Busy(q)' => step'[q].head # j.head
    BY <2>1, <2>3 DEF WorkingOn, Busy
  <2>6. ASSUME NEW q \in Procs, Busy(q)'
        PROVE  /\ JobOf(q)' \notin queue'
               /\ \A k \in lost' : k.head # step'[q].head
               /\ \A r \in Procs : Busy(r)' /\ step'[r].head = step'[q].head => r = q
    <3>1. CASE q = p
      BY <2>1, <2>2, <2>3, <2>4, <2>5, <3>1
    <3>2. CASE q # p
      BY <2>1, <2>2, <2>3, <2>5, <2>6, <3>2 DEF Exclusive
    <3> QED
      BY <3>1, <3>2
  <2>7. queue' \cap lost' = {}
    BY <2>1 DEF Exclusive
  <2> QED
    BY <2>6, <2>7 DEF Exclusive
<1>10. ASSUME NEW p \in Procs, Work(p)
       PROVE  Exclusive'
  <2>1. PICK s \in Steps : Works(p, s)
    BY <1>10, WorkWorks
  <2>2. /\ step'[p] = s
        /\ \A q \in Procs \ {p} : step'[q] = step[q] /\ JobOf(q)' = JobOf(q) /\ Busy(q)' = Busy(q)
    BY <2>1, MovesOne DEF Works
  <2>3. /\ step'[p].head = step[p].head /\ JobOf(p)' = JobOf(p) /\ Busy(p) /\ Busy(p)'
        /\ queue' = queue /\ lost' = lost
    BY <2>1, <2>2 DEF Works, JobOf, Busy
  <2> QED
    BY <2>2, <2>3 DEF Exclusive
<1>11. ASSUME NEW p \in Procs, Quits(p)
       PROVE  Exclusive'
  <2>1. /\ Moves(p, Idle) /\ Idle \in Steps /\ Idle.at = "idle"
        /\ step[p].at # "idle" /\ JobOf(p) \in Jobs
        /\ \/ queue' = queue
           \/ queue' = queue \cup {JobOf(p)} /\ (Busy(p) \/ JobOf(p) \notin Leased) /\ lost' = lost
        /\ \/ lost' = lost
           \/ lost' = lost \cup {JobOf(p)} /\ Busy(p) /\ queue' = queue
    BY <1>11, QuitsTurns DEF Turns
  <2>2. /\ step'[p] = Idle
        /\ \A q \in Procs \ {p} : step'[q] = step[q] /\ JobOf(q)' = JobOf(q) /\ Busy(q)' = Busy(q)
    BY <2>1, MovesOne
  <2>3. ~ Busy(p)'
    BY <2>1, <2>2 DEF Busy, Working
  <2>4. CASE queue' = queue /\ lost' = lost
    BY <2>2, <2>3, <2>4 DEF Exclusive
  <2>5. CASE queue' = queue \cup {JobOf(p)} /\ (Busy(p) \/ JobOf(p) \notin Leased) /\ lost' = lost
    <3>1. JobOf(p) \notin lost
      BY <2>5, JobParts DEF Exclusive, Leased
    <3>2. \A q \in Procs \ {p} : Busy(q) => JobOf(q) # JobOf(p)
      BY <2>5, JobParts DEF Exclusive, Leased, Busy
    <3> QED
      BY <2>2, <2>3, <2>5, <3>1, <3>2 DEF Exclusive
  <2>6. CASE lost' = lost \cup {JobOf(p)} /\ Busy(p) /\ queue' = queue
    <3>1. \A q \in Procs \ {p} : Busy(q) => step[q].head # JobOf(p).head
      BY <2>6, JobParts DEF Exclusive
    <3> QED
      BY <2>2, <2>3, <2>6, <3>1 DEF Exclusive
  <2> QED
    BY <2>1, <2>4, <2>5, <2>6
<1> QED
  BY <1>1, <1>2, <1>3, <1>4, <1>6, <1>7, <1>8, <1>9, <1>10, <1>11, NextCases


-----------------------------------------------------------------------------
(* What is known.                                                           *)

\* Of one process, and of one job.
KnownStep(s) ==
  /\ s.head <= head
  /\ s.comment \in Written \cup {Automatic}
  /\ s.known \subseteq Written /\ s.todo \subseteq By(Guests)
  /\ s.decided \in Written \cup {Automatic}
  /\ s.decided # Automatic => s.at \in {"begin", "check", "send"}

KnownJob(j) == j.head <= head /\ j.comment \in Written \cup {Automatic}

LEMMA KnownParts ==
  Known <=> /\ \A p \in Procs : KnownStep(step[p])
            /\ \A j \in queue \cup lost : KnownJob(j)
            /\ \A c \in Comments : answered[c] # 0 => c \in Written
BY DEF Known, KnownStep, KnownJob, Reviewing

LEMMA KnownNext == ASSUME Typed, Known, Next PROVE Known'
<1>0. /\ \A p \in Procs : KnownStep(step[p])
      /\ \A j \in queue \cup lost : KnownJob(j)
      /\ \A c \in Comments : answered[c] # 0 => c \in Written
  BY KnownParts
<1>a. ASSUME NEW p \in Procs, NEW s \in Steps, Moves(p, s), KnownStep(s),
             UNCHANGED <<head, thread>>,
             \A j \in queue' \cup lost' : j \in queue \cup lost \/ KnownJob(j),
             \A c \in Comments : answered'[c] # 0 => c \in Written
      PROVE  Known'
  <2>1. \A q \in Procs : step'[q] \in {s, step[q]}
    BY <1>a, MovesOne
  <2>2. Written' = Written /\ By(Guests)' = By(Guests)
    BY <1>a, ByUnchanged
  <2>3. \A q \in Procs : KnownStep(step[q])'
    BY <1>0, <1>a, <2>1, <2>2 DEF KnownStep
  <2>4. \A j \in queue' \cup lost' : KnownJob(j)'
    BY <1>0, <1>a, <2>2 DEF KnownJob
  <2> QED
    BY <1>a, <2>2, <2>3, <2>4 DEF Known, KnownStep, KnownJob, Reviewing
<1>1. CASE Push
  <2>1. head \in Nat /\ head' = head + 1 /\ UNCHANGED <<thread, answered, queue, lost, step>>
    BY <1>1 DEF Push, Typed, Heads
  <2>2. Written' = Written /\ By(Guests)' = By(Guests)
    BY <2>1, ByUnchanged
  <2>3. \A p \in Procs : step[p].head \in Nat
    BY StepParts DEF Typed, Heads
  <2>4. \A j \in queue \cup lost : j.head \in Nat
    BY DEF Typed, Jobs, Heads
  <2>5. \A n \in Nat : n <= head => n <= head'
    BY <2>1
  <2> QED
    BY <2>1, <2>2, <2>3, <2>4, <2>5 DEF Known, Reviewing
<1>2. ASSUME NEW author \in Owners \cup Guests, NEW action \in Actions, Comment(author, action)
      PROVE  Known'
  <2>1. /\ \A c \in Written : c \in Written' /\ thread'[c] = thread[c]
        /\ UNCHANGED <<head, answered, queue, lost, step>>
    BY <1>2, CommentAdded DEF Comment
  <2>2. Written \subseteq Written' /\ By(Guests) \subseteq By(Guests)'
    BY <2>1 DEF By
  <2> QED
    BY <2>1, <2>2 DEF Known, Reviewing
<1>3. ASSUME NEW window \in Heads \X Guests, WindowPasses(window)
      PROVE  Known'
  BY <1>3 DEF WindowPasses, github, Known, Reviewing, Written, By
<1>4. ASSUME NEW j \in Jobs, Expire(j)
      PROVE  Known'
  <2>1. queue' \cup lost' \subseteq queue \cup lost /\ UNCHANGED <<head, thread, answered, step>>
    BY <1>4 DEF Expire, github
  <2> QED
    BY <2>1, ByUnchanged DEF Known, Reviewing
<1>5. ASSUME NEW p \in Procs, Looks(p)
      PROVE  Known'
  <2>1. PICK s \in Steps : /\ Turns(p, s)
                           /\ s.head \in {head, step[p].head} /\ s.comment = 0
                           /\ s.known \subseteq By(Owners) /\ s.todo \subseteq By(Guests)
    BY <1>5, LooksTurns
  <2>2. UNCHANGED <<head, thread, answered, queue, lost>>
    BY <1>5, LooksTurns
  <2>3. KnownStep(s)
    BY <1>0, <2>1 DEF Turns, KnownStep, By, Typed, Heads
  <2> QED
    BY <1>0, <1>a, <2>1, <2>2, <2>3 DEF Turns
<1>6. ASSUME NEW p \in Procs, NEW c \in Comments, Admit(p, c)
      PROVE  Known'
  <2>1. PICK s \in Steps : /\ Turns(p, s)
                           /\ s.at = "admit" /\ s.head = step[p].head /\ s.comment = step[p].comment
                           /\ s.todo = step[p].todo \ {c}
                           /\ s.known \in {step[p].known, step[p].known \cup {c}}
    BY <1>6, AdmitTurns
  <2>2. c \in step[p].todo /\ UNCHANGED <<head, thread, answered, queue, lost>>
    BY <1>6, AdmitTurns
  <2>3. KnownStep(s)
    BY <1>0, <2>1, <2>2 DEF Turns, KnownStep, By
  <2> QED
    BY <1>0, <1>a, <2>1, <2>2, <2>3 DEF Turns
<1>7. ASSUME NEW p \in Procs, NEW d \in Comments \cup {Automatic}, Decide(p, d)
      PROVE  Known'
  <2>1. PICK s \in Steps : /\ Turns(p, s)
                           /\ s.at \in {"idle", "enqueue"} /\ s.head \in {0, step[p].head}
                           /\ s.comment \in {0} \cup step[p].known /\ s.known = {} /\ s.todo = {}
    BY <1>7, DecideTurns
  <2>2. queue' \subseteq queue /\ UNCHANGED <<head, thread, answered, lost>>
    BY <1>7, DecideTurns
  <2>3. KnownStep(s)
    BY <1>0, <2>1 DEF Turns, KnownStep, Typed, Heads
  <2> QED
    BY <1>0, <1>a, <2>1, <2>2, <2>3 DEF Turns
<1>8. ASSUME NEW p \in Procs, NEW j \in Jobs, Lease(p, j)
      PROVE  Known'
  <2>1. PICK s \in Steps : /\ Turns(p, s)
                           /\ s.at = "fetch" /\ s.head = j.head /\ s.comment = j.comment
                           /\ s.known = {} /\ s.todo = {}
    BY <1>8, LeaseTurns
  <2>2. j \in queue /\ queue' \subseteq queue /\ UNCHANGED <<head, thread, answered, lost>>
    BY <1>8, LeaseTurns
  <2>3. KnownStep(s)
    BY <1>0, <2>1, <2>2 DEF Turns, KnownStep, KnownJob
  <2> QED
    BY <1>0, <1>a, <2>1, <2>2, <2>3 DEF Turns
<1>9. ASSUME NEW p \in Procs, Work(p)
      PROVE  Known'
  <2>1. PICK s \in Steps : Works(p, s)
    BY <1>9, WorkWorks
  <2>2. Asked(p) \subseteq Written
    BY DEF Asked, By
  <2>3. UNCHANGED <<head, thread, queue, lost>> /\ Moves(p, s)
    BY <2>1 DEF Works, github
  <2>4. KnownStep(s)
    BY <1>0, <2>1, <2>2 DEF Works, KnownStep
  <2>5. \A c \in Comments : answered'[c] # 0 => c \in Written
    <3> SUFFICES ASSUME NEW c \in Comments, answered'[c] # 0 PROVE c \in Written
      OBVIOUS
    <3>1. answered[c] # 0 \/ c \in {step[p].decided} \cup Asked(p)
      BY <2>1 DEF Works
    <3>2. c # 0
      BY DEF Comments
    <3> QED
      BY <1>0, <2>2, <3>1, <3>2 DEF KnownStep
  <2> QED
    BY <1>a, <2>3, <2>4, <2>5
<1>10. ASSUME NEW p \in Procs, Quits(p)
       PROVE  Known'
  <2>1. /\ Turns(p, Idle) /\ Idle \in Steps
        /\ Idle.at = "idle" /\ Idle.head = 0 /\ Idle.comment = 0
        /\ Idle.known = {} /\ Idle.todo = {} /\ Idle.decided = 0
        /\ queue' \in {queue, queue \cup {JobOf(p)}} /\ lost' \in {lost, lost \cup {JobOf(p)}}
        /\ UNCHANGED <<head, thread, answered>>
    BY <1>10, QuitsTurns
  <2>2. KnownJob(JobOf(p))
    BY <1>0, JobParts DEF KnownStep, KnownJob
  <2>3. KnownStep(Idle)
    BY <2>1 DEF KnownStep, Typed, Heads
  <2> QED
    BY <1>0, <1>a, <2>1, <2>2, <2>3 DEF Turns
<1> QED
  BY <1>1, <1>2, <1>3, <1>4, <1>5, <1>6, <1>7, <1>8, <1>9, <1>10, NextCases


-----------------------------------------------------------------------------
(* Reviews of one command.                                                  *)

Sent(c) == reviews[c] # 0 \/ \E p \in Procs : Sending(p, c)

OnceOf(c) ==
  /\ reviews[c] <= 1
  /\ \A p, q \in Procs : Sending(p, c) /\ Sending(q, c) => p = q
  /\ (\E p \in Procs : Sending(p, c)) => reviews[c] = 0
  /\ Sent(c) => /\ answered[c] # 0
                /\ \A q \in Procs : step[q].at \in {"begin", "check"} /\ step[q].decided = c
                                      => step[q].head < head

Recorded(p) ==
  step[p].at \in {"check", "send"} /\ step[p].decided # Automatic => answered[step[p].decided] # 0

LEMMA OnceParts == Once <=> (\A p \in Procs : Recorded(p)) /\ (\A c \in Comments : OnceOf(c))
BY DEF Once, Recorded, OnceOf, Sent

LEMMA OnceNext == ASSUME Typed, Known, Exclusive, Once, Next PROVE Once'
<1>0. /\ \A p \in Procs : KnownStep(step[p])
      /\ \A p \in Procs : Recorded(p)
      /\ \A c \in Comments : OnceOf(c)
  BY KnownParts, OnceParts
<1>00. (\A p \in Procs : Recorded(p)') /\ (\A c \in Comments : OnceOf(c)') => Once'
  BY DEF Once, Recorded, OnceOf, Sent
<1>h. head \in Nat /\ \A p \in Procs : step[p].head \in Nat /\ step[p].decided \in Comments \cup {0}
  BY StepParts DEF Typed, Heads
<1>c. 0 \notin Comments /\ \A c \in Comments : reviews[c] \in Nat
  <2>1. reviews \in [Comments -> Nat]
    BY DEF Typed
  <2> QED BY <2>1 DEF Comments
\* Nothing that matters is done.
<1>a. ASSUME head' \in Nat, head <= head', UNCHANGED <<answered, step, reviews>>
      PROVE  Once'
  <2>1. \A p \in Procs : step[p].head < head => step[p].head < head'
    BY <1>a, <1>h
  <2>2. \A p \in Procs : Recorded(p)'
    BY <1>0, <1>a DEF Recorded
  <2>3. \A c \in Comments : OnceOf(c)'
    BY <1>0, <1>a, <2>1 DEF OnceOf, Sent, Sending
  <2> QED
    BY <1>00, <2>2, <2>3
\* A process is not, or no longer, about to review for a command.
<1>b. ASSUME NEW p \in Procs, NEW s \in Steps, Moves(p, s),
             s.at \notin {"begin", "check", "send"} \/ s.decided = 0,
             UNCHANGED <<head>>,
             \A c \in Comments : answered[c] # 0 => answered'[c] # 0,
             reviews' = reviews \/ (step[p].at = "send" /\ Public(step[p].decided))
      PROVE  Once'
  <2>1. step'[p] = s /\ \A q \in Procs \ {p} : step'[q] = step[q]
    BY <1>b, MovesOne
  <2>2. \A q \in Procs : Recorded(q)'
    BY <1>0, <1>b, <1>h, <2>1 DEF Recorded
  <2>3. ASSUME NEW c \in Comments
        PROVE  OnceOf(c)'
    <3>1. \A q \in Procs : Sending(q, c)' => q # p /\ Sending(q, c)
      BY <1>b, <1>c, <2>1 DEF Sending
    <3>2. \A q \in Procs : step'[q].at \in {"begin", "check"} /\ step'[q].decided = c
                             => q # p /\ step'[q] = step[q]
      BY <1>b, <1>c, <2>1
    <3>3. CASE reviews'[c] = reviews[c]
      BY <1>0, <1>b, <3>1, <3>2, <3>3 DEF OnceOf, Sent
    <3>4. CASE reviews'[c] # reviews[c]
      <4>1. step[p].at = "send" /\ step[p].decided = c /\ reviews'[c] = reviews[c] + 1
        <5>1. step[p].at = "send" /\ Public(step[p].decided)
          BY <1>b, <3>4
        <5>2. /\ step[p].decided # 0 => reviews'[step[p].decided] = reviews[step[p].decided] + 1
              /\ \A b \in Comments \ {step[p].decided} : reviews'[b] = reviews[b]
          BY <1>h, <5>1, PublicTyped
        <5> QED
          BY <1>c, <3>4, <5>1, <5>2
      <4>2. Sending(p, c)
        BY <4>1 DEF Sending
      <4>3. reviews[c] = 0 /\ \A q \in Procs : ~ Sending(q, c)'
        BY <1>0, <3>1, <4>2 DEF OnceOf
      <4> QED
        BY <1>0, <1>b, <3>2, <4>1, <4>2, <4>3 DEF OnceOf, Sent
    <3> QED
      BY <3>3, <3>4
  <2> QED
    BY <1>00, <2>2, <2>3
<1>1. CASE Push
  BY <1>1, <1>a, <1>h DEF Push, history
<1>2. ASSUME NEW author \in Owners \cup Guests, NEW action \in Actions, Comment(author, action)
      PROVE  Once'
  BY <1>2, <1>a, <1>h DEF Comment, history
<1>3. ASSUME NEW window \in Heads \X Guests, WindowPasses(window)
      PROVE  Once'
  BY <1>3, <1>a, <1>h DEF WindowPasses, github, history
<1>4. ASSUME NEW j \in Jobs, Expire(j)
      PROVE  Once'
  BY <1>4, <1>a, <1>h DEF Expire, github, history
<1>5. ASSUME NEW p \in Procs, Looks(p)
      PROVE  Once'
  BY <1>5, <1>b, LooksTurns DEF Turns
<1>6. ASSUME NEW p \in Procs, NEW c \in Comments, Admit(p, c)
      PROVE  Once'
  BY <1>6, <1>b, AdmitTurns DEF Turns
<1>7. ASSUME NEW p \in Procs, NEW d \in Comments \cup {Automatic}, Decide(p, d)
      PROVE  Once'
  BY <1>7, <1>b, DecideTurns DEF Turns
<1>8. ASSUME NEW p \in Procs, NEW j \in Jobs, Lease(p, j)
      PROVE  Once'
  BY <1>8, <1>b, LeaseTurns DEF Turns
<1>9. ASSUME NEW p \in Procs, Quits(p)
      PROVE  Once'
  BY <1>9, <1>b, QuitsTurns DEF Turns
<1>10. ASSUME NEW p \in Procs, Work(p)
       PROVE  Once'
  <2>1. PICK s \in Steps : Works(p, s)
    BY <1>10, WorkWorks
  <2>2. /\ Moves(p, s) /\ head' = head
        /\ \A c \in Comments : answered[c] # 0 => answered'[c] # 0
    BY <2>1 DEF Works, github
  <2>3. step'[p] = s /\ \A q \in Procs \ {p} : step'[q] = step[q]
    BY <2>2, MovesOne
  <2>4. ASSUME s.at \notin {"begin", "check", "send"} \/ s.decided = 0,
               reviews' = reviews \/ (step[p].at = "send" /\ Public(step[p].decided))
        PROVE  Once'
    BY <1>b, <2>2, <2>4
  \* A command that was not answered is carried out.
  <2>5. ASSUME NEW d \in Comments, s.at = "begin", s.decided = d, answered[d] = 0,
               UNCHANGED <<answered, reviews>>
        PROVE  Once'
    <3>1. \A q \in Procs : Recorded(q)'
      BY <1>0, <2>3, <2>5 DEF Recorded
    <3>2. ~ Sent(d)
      BY <1>0, <2>5 DEF OnceOf
    <3>3. \A c \in Comments, q \in Procs : Sending(q, c)' => q # p /\ Sending(q, c)
      BY <2>3, <2>5 DEF Sending
    <3>4. ASSUME NEW c \in Comments
          PROVE  OnceOf(c)'
      BY <1>0, <2>2, <2>3, <2>5, <3>2, <3>3 DEF OnceOf, Sent
    <3> QED
      BY <1>00, <3>1, <3>4
  \* It is recorded.
  <2>6. ASSUME step[p].at = "begin", s.at = "check", s.decided = step[p].decided,
               s.decided # 0, answered'[s.decided] # 0, UNCHANGED reviews
        PROVE  Once'
    <3>1. \A q \in Procs : Recorded(q)'
      BY <1>0, <1>h, <2>2, <2>3, <2>6 DEF Recorded
    <3>2. \A c \in Comments, q \in Procs : Sending(q, c)' => q # p /\ Sending(q, c)
      BY <2>3, <2>6 DEF Sending
    <3>3. s.head = step[p].head
      BY <2>1 DEF Works
    <3>4. ASSUME NEW c \in Comments
          PROVE  OnceOf(c)'
      BY <1>0, <2>2, <2>3, <2>6, <3>2, <3>3 DEF OnceOf, Sent
    <3> QED
      BY <1>00, <3>1, <3>4
  \* Its review is sent on the current head, where nothing else is at work.
  <2>7. ASSUME step[p].at = "check", s.at = "send", s.decided = step[p].decided,
               s.decided # 0, step[p].head = head, UNCHANGED <<answered, reviews>>
        PROVE  Once'
    <3> PICK d \in Comments : d = step[p].decided
      BY <1>h, <2>7
    <3>1. \A q \in Procs : Recorded(q)'
      BY <1>0, <2>3, <2>7 DEF Recorded
    <3>2. d \in Comments /\ answered[d] # 0
      BY <1>0, <1>h, <2>7 DEF Recorded
    <3>3. ~ Sent(d)
      BY <1>0, <1>h, <2>7, <3>2 DEF OnceOf
    <3>4. \A q \in Procs : Sending(q, d)' => q = p
      BY <2>3, <3>3 DEF Sending, Sent
    <3>5. \A q \in Procs \ {p} : step[q].at \in {"begin", "check"} => step[q].head < head
      <4> SUFFICES ASSUME NEW q \in Procs \ {p}, step[q].at \in {"begin", "check"}
                   PROVE  step[q].head < head
        OBVIOUS
      <4>1. Busy(p) /\ Busy(q)
        BY <2>7 DEF Busy, Working
      <4>2. step[q].head # head
        BY <2>7, <4>1 DEF Exclusive
      <4> QED
        BY <1>0, <1>h, <4>2 DEF KnownStep
    <3>6. OnceOf(d)'
      BY <1>0, <2>2, <2>3, <2>7, <3>2, <3>3, <3>4, <3>5 DEF OnceOf, Sent
    <3>7. ASSUME NEW c \in Comments \ {d}
          PROVE  OnceOf(c)'
      <4>1. \A q \in Procs : Sending(q, c)' => q # p /\ Sending(q, c)
        BY <2>3, <2>7 DEF Sending
      <4> QED
        BY <1>0, <2>2, <2>3, <2>7, <4>1 DEF OnceOf, Sent
    <3> QED
      BY <1>00, <3>1, <3>6, <3>7
  <2>8. ASSUME NEW stage \in Working, NEW d \in Comments \cup {0}, GoOn(p, stage, d)
        PROVE  s.at = stage /\ s.decided = d
    BY <2>3, <2>8 DEF GoOn, Typed, Steps
  <2>9. {"resolve", "silence", "settle", "begin", "check", "send", "defer"} \subseteq Working
    BY DEF Working
  <2>10. CASE Fetch(p)
    <3>1. (GoOn(p, "settle", 0) \/ GoOn(p, "resolve", 0)) /\ UNCHANGED reviews
      BY <2>10 DEF Fetch, Settling, history
    <3> QED
      BY <2>4, <2>8, <2>9, <3>1
  <2>11. ASSUME NEW d \in Comments \cup {Automatic}, Resolve(p, d)
         PROVE  Once'
    <3>1. CASE ResolveReview(p, d)
      <4>1. GoOn(p, "begin", d) /\ UNCHANGED <<answered, reviews>>
        BY <2>11, <3>1 DEF Resolve, ResolveReview, history
      <4>2. d # 0
        BY <3>1 DEF ResolveReview, Asking, Written
      <4>3. answered[d] = 0
        BY <2>11, <4>2 DEF Resolve, Decided, Pending
      <4> QED
        BY <2>5, <2>8, <2>9, <4>1, <4>2, <4>3
    <3>2. CASE ~ ResolveReview(p, d)
      <4>1. /\ GoOn(p, "silence", 0) \/ GoOn(p, "settle", 0) \/ GoOn(p, "begin", 0)
            /\ UNCHANGED reviews
        BY <2>11, <3>2 DEF Resolve, ResolveStop, ResolveExplain, ResolveNone, Settling, history
      <4> QED
        BY <2>4, <2>8, <2>9, <4>1
    <3> QED
      BY <3>1, <3>2
  <2>12. CASE Silence(p) \/ GoStale(p) \/ TurnAway(p)
    <3>1. GoOn(p, "settle", 0) /\ UNCHANGED reviews
      BY <2>12 DEF Silence, GoStale, TurnAway, Settling, history
    <3> QED
      BY <2>4, <2>8, <2>9, <3>1
  <2>13. CASE Begin(p)
    <3>1. GoOn(p, "check", step[p].decided) /\ step[p].at = "begin" /\ UNCHANGED reviews
      BY <2>13 DEF Begin, history
    <3>2. s.at = "check" /\ s.decided = step[p].decided
      BY <1>h, <2>8, <2>9, <3>1
    <3>3. CASE step[p].decided = 0
      BY <2>4, <3>1, <3>2, <3>3
    <3>4. CASE step[p].decided # 0
      <4>1. Answer(step[p].decided, step[p].head)
        BY <2>13, <3>4 DEF Begin
      <4>2. answered'[step[p].decided] # 0
        BY <1>h, <3>1, <3>4, <4>1, AnswerTyped, NotIdle
      <4> QED
        BY <2>6, <3>1, <3>2, <3>4, <4>2
    <3> QED
      BY <3>3, <3>4
  <2>14. CASE Check(p)
    <3>1. /\ step[p].at = "check" /\ UNCHANGED <<answered, reviews>>
          /\ \/ step[p].head = head /\ GoOn(p, "send", step[p].decided)
             \/ GoOn(p, "settle", 0)
      BY <2>14 DEF Check, Settling, history
    <3>2. \/ step[p].head = head /\ s.at = "send" /\ s.decided = step[p].decided
          \/ s.at = "settle"
      BY <1>h, <2>8, <2>9, <3>1
    <3> QED
      BY <2>4, <2>7, <3>1, <3>2
  <2>15. CASE Send(p)
    <3>1. GoOn(p, "settle", 0) /\ step[p].at = "send" /\ Public(step[p].decided)
      BY <2>15 DEF Send, Settling
    <3> QED
      BY <2>4, <2>8, <2>9, <3>1
  <2>16. CASE Fail(p) \/ Defer(p)
    <3>1. /\ GoOn(p, "settle", 0) \/ GoOn(p, "defer", 0)
          /\ reviews' = reviews \/ (step[p].at = "send" /\ Public(step[p].decided))
      BY <2>16 DEF Fail, Defer, Settling, Trouble
    <3> QED
      BY <2>4, <2>8, <2>9, <3>1
  <2> QED
    BY <1>10, <2>10, <2>11, <2>12, <2>13, <2>14, <2>15, <2>16 DEF Work
<1> QED
  BY <1>1, <1>2, <1>3, <1>4, <1>5, <1>6, <1>7, <1>8, <1>9, <1>10, NextCases


-----------------------------------------------------------------------------
(* Automatic reviews.                                                       *)

LEMMA QuietNext == ASSUME Typed, Known, Exclusive, Quiet, Next PROVE Quiet'
<1>a. ASSUME UNCHANGED <<row, step>> PROVE Quiet'
  BY <1>a DEF Quiet, Reviewing
<1>b. ASSUME NEW p \in Procs, NEW s \in Steps, Moves(p, s),
             \/ UNCHANGED row
             \/ Busy(p) /\ \A h \in Heads \ {step[p].head} : row'[h] = row[h],
             s.at \in {"begin", "check", "send"} /\ s.decided = 0 => row'[s.head] \in {"none"} \cup Retryable
      PROVE  Quiet'
  <2>1. step'[p] = s /\ \A q \in Procs \ {p} : step'[q] = step[q]
    BY <1>b, MovesOne
  <2>2. ASSUME NEW q \in Procs \ {p}, step[q].at \in {"begin", "check", "send"}
        PROVE  row'[step[q].head] = row[step[q].head]
    <3>1. Busy(q) /\ step[q].head \in Heads
      BY <2>2, NotIdle DEF Busy, Working
    <3> QED
      BY <1>b, <3>1 DEF Exclusive
  <2>3. ASSUME NEW q \in Procs, step'[q].at \in {"begin", "check", "send"}, step'[q].decided = 0
        PROVE  row'[step'[q].head] \in {"none"} \cup Retryable
    <3>1. CASE q = p
      BY <1>b, <2>1, <2>3, <3>1
    <3>2. CASE q # p
      BY <2>1, <2>2, <2>3, <3>2 DEF Quiet, Reviewing
    <3> QED
      BY <3>1, <3>2
  <2> QED
    BY <2>3 DEF Quiet, Reviewing
<1>1. CASE Push
  BY <1>1, <1>a DEF Push
<1>2. ASSUME NEW author \in Owners \cup Guests, NEW action \in Actions, Comment(author, action)
      PROVE  Quiet'
  BY <1>2, <1>a DEF Comment
<1>3. ASSUME NEW window \in Heads \X Guests, WindowPasses(window)
      PROVE  Quiet'
  BY <1>3, <1>a DEF WindowPasses
<1>4. ASSUME NEW j \in Jobs, Expire(j)
      PROVE  Quiet'
  BY <1>4, <1>a DEF Expire
<1>5. ASSUME NEW p \in Procs, Looks(p)
      PROVE  Quiet'
  BY <1>5, <1>b, LooksTurns DEF Turns
<1>6. ASSUME NEW p \in Procs, NEW c \in Comments, Admit(p, c)
      PROVE  Quiet'
  BY <1>6, <1>b, AdmitTurns DEF Turns
<1>7. ASSUME NEW p \in Procs, NEW d \in Comments \cup {Automatic}, Decide(p, d)
      PROVE  Quiet'
  BY <1>7, <1>b, DecideTurns DEF Turns
<1>8. ASSUME NEW p \in Procs, NEW j \in Jobs, Lease(p, j)
      PROVE  Quiet'
  BY <1>8, <1>b, LeaseTurns DEF Turns
<1>9. ASSUME NEW p \in Procs, Quits(p)
      PROVE  Quiet'
  BY <1>9, <1>b, QuitsTurns DEF Turns
<1>10. ASSUME NEW p \in Procs, Work(p)
       PROVE  Quiet'
  <2>1. PICK s \in Steps : Works(p, s)
    BY <1>10, WorkWorks
  <2>2. /\ Moves(p, s) /\ Busy(p) /\ s.head = step[p].head
        /\ \A h \in Heads \ {step[p].head} : row'[h] = row[h]
    BY <2>1 DEF Works, Busy
  <2>3. step'[p] = s /\ step[p].decided \in Comments \cup {0}
    BY <2>2, MovesOne, StepParts DEF Typed
  <2>4. ASSUME s.at \in {"begin", "check", "send"} /\ s.decided = 0
                 => row'[s.head] \in {"none"} \cup Retryable
        PROVE  Quiet'
    BY <1>b, <2>2, <2>4
  <2>5. ASSUME NEW stage \in Working, NEW d \in Comments \cup {0}, GoOn(p, stage, d)
        PROVE  s.at = stage /\ s.decided = d
    BY <2>3, <2>5 DEF GoOn, Typed, Steps
  <2>6. {"resolve", "silence", "settle", "begin", "check", "send", "defer"} \subseteq Working
    BY DEF Working
  <2>7. ASSUME \/ GoOn(p, "silence", 0) \/ GoOn(p, "settle", 0)
               \/ GoOn(p, "resolve", 0) \/ GoOn(p, "defer", 0)
        PROVE  Quiet'
    BY <2>4, <2>5, <2>6, <2>7
  \* What it carries out and the row are the same.
  <2>8. ASSUME step[p].at \in {"begin", "check", "send"}, s.decided = step[p].decided, UNCHANGED row
        PROVE  Quiet'
    BY <2>2, <2>4, <2>8 DEF Quiet, Reviewing
  <2>9. ASSUME NEW d \in Comments \cup {Automatic}, Resolve(p, d)
        PROVE  Quiet'
    <3>1. CASE ResolveReview(p, d)
      <4>1. GoOn(p, "begin", d) /\ d # 0
        BY <3>1 DEF ResolveReview, Asking, Written
      <4> QED
        BY <2>4, <2>5, <2>6, <4>1
    <3>2. CASE ResolveNone(p, d)
      BY <2>2, <2>4, <2>7, <3>2 DEF ResolveNone, Settling
    <3>3. CASE ResolveStop(p, d) \/ ResolveExplain(p, d)
      BY <2>7, <3>3 DEF ResolveStop, ResolveExplain, Settling
    <3> QED
      BY <2>9, <3>1, <3>2, <3>3 DEF Resolve
  <2>10. CASE Begin(p)
    <3>1. GoOn(p, "check", step[p].decided) /\ step[p].at = "begin" /\ UNCHANGED row
      BY <2>10 DEF Begin
    <3> QED
      BY <2>3, <2>5, <2>6, <2>8, <3>1
  <2>11. CASE Check(p)
    <3>1. /\ step[p].at = "check"
          /\ \/ GoOn(p, "send", step[p].decided) /\ UNCHANGED row
             \/ GoOn(p, "settle", 0)
      BY <2>11 DEF Check, Settling
    <3> QED
      BY <2>3, <2>5, <2>6, <2>7, <2>8, <3>1
  <2> QED
    BY <1>10, <2>7, <2>9, <2>10, <2>11
    DEF Work, Fetch, Silence, GoStale, TurnAway, Send, Fail, Defer,
       Settling
<1> QED
  BY <1>1, <1>2, <1>3, <1>4, <1>5, <1>6, <1>7, <1>8, <1>9, <1>10, NextCases

\* Only the steps of a job write the heads' rows.
LEMMA RowsStay ==
  ASSUME Typed, Known, Next
  PROVE  UNCHANGED <<row, silenced>> \/ \E p \in Procs : Work(p)
<1>1. \A p \in Procs : Looks(p) => UNCHANGED <<row, silenced>>
  BY LooksTurns
<1>2. \A p \in Procs, c \in Comments : Admit(p, c) => UNCHANGED <<row, silenced>>
  BY AdmitTurns
<1>3. \A p \in Procs, d \in Comments \cup {Automatic} : Decide(p, d) => UNCHANGED <<row, silenced>>
  BY DecideTurns
<1>4. \A p \in Procs, j \in Jobs : Lease(p, j) => UNCHANGED <<row, silenced>>
  BY LeaseTurns
<1>5. \A p \in Procs : Quits(p) => UNCHANGED <<row, silenced>>
  BY QuitsTurns
<1>6. /\ Push => UNCHANGED <<row, silenced>>
      /\ \A author, action : Comment(author, action) => UNCHANGED <<row, silenced>>
      /\ \A window : WindowPasses(window) => UNCHANGED <<row, silenced>>
      /\ \A j : Expire(j) => UNCHANGED <<row, silenced>>
  BY DEF Push, Comment, WindowPasses, Expire, history
<1> QED
  BY <1>1, <1>2, <1>3, <1>4, <1>5, <1>6, NextCases

LEMMA StoppedNext == ASSUME Typed, Known, Stopped, Next PROVE Stopped'
<1>1. CASE UNCHANGED <<row, silenced>>
  BY <1>1 DEF Stopped
<1>2. ASSUME NEW p \in Procs, Work(p)
      PROVE  Stopped'
  <2> DEFINE h == step[p].head
  <2>1. h \in Heads /\ \A i \in Heads \ {h} : row'[i] = row[i]
    <3>1. PICK s \in Steps : Works(p, s)
      BY <1>2, WorkWorks
    <3> QED BY <3>1, NotIdle DEF Works, Working
  <2>2. silenced \subseteq Heads /\ row \in [Heads -> Rows]
    BY DEF Typed
  <2>3. \/ row'[h] \in {row[h], "stopped", "skipped", "posted"}
        \/ silenced' = {i \in silenced : row'[i] \notin Retryable} /\ row'[h] \in {"failed", "cooldown"}
    <3>1. \A status : Unposted(h, status)[h] \in {row[h], status}
      BY <2>1, <2>2 DEF Unposted
    <3>2. \A status : [row EXCEPT ![h] = status][h] = status
      BY <2>1, <2>2
    <3>3. CASE Fail(p) \/ Defer(p)
      BY <3>1, <3>2, <3>3 DEF Fail, Defer, TakesBack
    <3>4. CASE ~ Fail(p) /\ ~ Defer(p)
      BY <1>2, <3>1, <3>2, <3>4
      DEF Work, Resolve, ResolveStop, ResolveExplain, ResolveReview, ResolveNone,
          Fetch, Silence, GoStale, TurnAway, Begin, Check, Send
    <3> QED BY <3>3, <3>4
  <2>4. \A i \in silenced' : i \in silenced \/ (i = h /\ row'[h] \in {"stopped", "posted"})
    <3>1. step[p].at = "silence" => row' = Unposted(h, "stopped")
      BY <1>2
      DEF Work, Resolve, Fetch, Silence, GoStale, TurnAway, Begin, Check, Send, Fail, Defer
    <3>2. Unposted(h, "stopped")[h] \in {"stopped", "posted"}
      BY <2>1, <2>2 DEF Unposted
    <3> QED BY <1>2, <3>1, <3>2, WorkSilences
  <2> QED BY <2>1, <2>2, <2>3, <2>4 DEF Stopped, Retryable
<1> QED
  BY <1>1, <1>2, RowsStay

LEMMA DeferringNext == ASSUME Typed, Deferring, Next PROVE Deferring'
<1>1. ASSUME NEW p \in Procs, Work(p)
      PROVE  Deferring'
  <2>1. PICK s \in Steps : Works(p, s)
    BY <1>1, WorkWorks
  <2> QED BY <2>1 DEF Works, Deferring
<1>2. \A p \in Procs : Looks(p) \/ Quits(p) => Deferring'
  BY DEF Looks, Scan, Read, Quits, Enqueue, Return, PutBack, Settle, Crash, Deferring
<1>3. \A p \in Procs, c \in Comments : Admit(p, c) => Deferring'
  BY DEF Admit, Deferring
<1>4. \A p \in Procs, d \in Comments \cup {Automatic} : Decide(p, d) => Deferring'
  BY DEF Decide, Deferring
<1>5. \A p \in Procs, j \in Jobs : Lease(p, j) => Deferring'
  BY DEF Lease, Deferring
<1>6. /\ Push => Deferring'
      /\ \A author, action : Comment(author, action) => Deferring'
      /\ \A window : WindowPasses(window) => Deferring'
      /\ \A j : Expire(j) => Deferring'
  BY DEF Push, Comment, WindowPasses, Expire, Deferring
<1> QED
  BY <1>1, <1>2, <1>3, <1>4, <1>5, <1>6, NextCases

-----------------------------------------------------------------------------
(* Public commands.                                                         *)

\* What a process has of the commands.
Held(s) == s.known \cup {s.comment, s.decided}

LEMMA CommentsFinite == IsFiniteSet(Comments) /\ Cardinality(Comments) = MaxComments
<1>1. MaxComments \in Nat /\ 1 \in Int /\ MaxComments \in Int
  BY IntakeConstants
<1>2. IsFiniteSet(1..MaxComments)
      /\ Cardinality(1..MaxComments) = IF 1 > MaxComments THEN 0 ELSE MaxComments - 1 + 1
  BY <1>1, FS_Interval
<1> QED
  BY <1>1, <1>2 DEF Comments

LEMMA PipeFinite ==
  ASSUME Typed, NEW g
  PROVE  /\ IsFiniteSet(Pipe(g)) /\ Pipe(g) \subseteq Comments
         /\ Cardinality(Pipe(g)) \in Nat
<1>1. Pipe(g) \subseteq Comments
  BY WrittenComments DEF Pipe, By
<1> QED
  BY <1>1, CommentsFinite, FS_Subset, FS_CardinalityType

LEMMA LimitedNext == ASSUME Typed, Known, Limited, Next, Typed' PROVE Limited'
<1>0. \A p \in Procs : KnownStep(step[p])
  BY KnownParts
<1>1. \A g \in Guests : /\ IsFiniteSet(Pipe(g)) /\ Cardinality(Pipe(g)) \in Nat
                        /\ Cardinality(Pipe(g)) <= opened[g] /\ opened[g] \in 0..MaxComments
  BY PipeFinite DEF Limited, Typed
\* Nothing is admitted.
<1>a. ASSUME NEW g \in Guests, Pipe(g)' \subseteq Pipe(g), opened'[g] \in Nat, opened[g] <= opened'[g]
      PROVE  Cardinality(Pipe(g)') <= opened'[g]
  <2>1. IsFiniteSet(Pipe(g)') /\ Cardinality(Pipe(g)') <= Cardinality(Pipe(g))
    BY <1>1, <1>a, FS_Subset
  <2>2. Cardinality(Pipe(g)') \in Nat
    BY <2>1, FS_CardinalityType
  <2> QED
    BY <1>1, <1>a, <2>1, <2>2
<1>b. ASSUME UNCHANGED opened, \A g \in Guests : Pipe(g)' \subseteq Pipe(g)
      PROVE  Limited'
  <2>1. \A g \in Guests : opened'[g] \in Nat /\ opened[g] <= opened'[g]
    BY <1>1, <1>b
  <2>2. \A g \in Guests : Cardinality(Pipe(g)') <= opened'[g]
    BY <1>a, <1>b, <2>1
  <2> QED
    BY <2>2 DEF Limited
\* A process holds and a job is about what was held or known already.
<1>c. ASSUME NEW p \in Procs, NEW s \in Steps, Moves(p, s), NEW more,
             UNCHANGED thread,
             Held(s) \subseteq Held(step[p]) \cup CommentsOfJobs \cup more,
             CommentsOfJobs' \subseteq CommentsOfJobs \cup {step[p].comment},
             \A c \in Comments : answered'[c] # 0 => answered[c] # 0 \/ c \in Held(step[p]) \cup more
      PROVE  \A g : Pipe(g)' \subseteq Pipe(g) \cup (more \cap By({g}))
  <2>1. step'[p] = s /\ \A q \in Procs \ {p} : step'[q] = step[q]
    BY <1>c, MovesOne
  <2>2. \A g : By({g})' = By({g}) /\ By({g}) \subseteq Comments
    BY <1>c, ByUnchanged, WrittenComments DEF By
  <2> SUFFICES ASSUME NEW g, NEW c \in By({g}), c \in Pipe(g)'
               PROVE  c \in Pipe(g) \/ c \in more
    BY <2>2 DEF Pipe
  <2>3. CASE answered'[c] # 0
    BY <1>c, <2>2, <2>3 DEF Pipe, Held
  <2>4. CASE c \in CommentsOfJobs'
    BY <1>c, <2>4 DEF Pipe
  <2>5. CASE \E q \in Procs : c \in Held(step'[q])
    <3>1. PICK q \in Procs : c \in Held(step'[q])
      BY <2>5
    <3>2. CASE q = p
      BY <1>c, <2>1, <3>1, <3>2 DEF Pipe, Held
    <3>3. CASE q # p
      BY <2>1, <3>1, <3>3 DEF Pipe, Held
    <3> QED
      BY <3>2, <3>3
  <2> QED
    BY <2>3, <2>4, <2>5 DEF Pipe, Held
\* Of what is trusted nothing is public.
<1>d. \A g \in Guests : By(Owners) \cap By({g}) = {} /\ 0 \notin By({g})
  BY IntakeConstants DEF By, Written
<1>e. ASSUME NEW p \in Procs, NEW s \in Steps, Moves(p, s),
             UNCHANGED <<thread, opened>>,
             Held(s) \subseteq Held(step[p]) \cup CommentsOfJobs \cup By(Owners) \cup {0},
             CommentsOfJobs' \subseteq CommentsOfJobs \cup {step[p].comment},
             \A c \in Comments : answered'[c] # 0
                                   => answered[c] # 0 \/ c \in Held(step[p]) \cup By(Owners) \cup {0}
      PROVE  Limited'
  <2>0. PICK more : more = By(Owners) \cup {0}
    OBVIOUS
  <2>1. \A g : Pipe(g)' \subseteq Pipe(g) \cup (more \cap By({g}))
    BY <1>c, <1>e, <2>0
  <2> QED
    BY <1>b, <1>d, <1>e, <2>0, <2>1
<1>2. CASE Push
  BY <1>2, <1>b DEF Push, history, Pipe, By, Written, CommentsOfJobs
<1>3. ASSUME NEW author \in Owners \cup Guests, NEW action \in Actions, Comment(author, action)
      PROVE  Limited'
  <2>1. /\ \A c \in Written : c \in Written' /\ thread'[c] = thread[c]
        /\ Written' = Written \cup {Len(thread) + 1} /\ Len(thread) + 1 \notin Written
    BY <1>3, CommentAdded
  <2>2. UNCHANGED <<answered, queue, lost, step, opened>>
    BY <1>3 DEF Comment, history
  <2>3. Written' \subseteq Comments /\ 0 \notin Comments
    BY <1>3, <2>1, WrittenComments, IntakeConstants DEF Comments, Comment, Typed
  <2>4. CommentsOfJobs' = CommentsOfJobs
    BY <2>2 DEF CommentsOfJobs
  <2>5. CommentsOfJobs \subseteq Written \cup {0}
    BY DEF CommentsOfJobs, Known
  <2>6. \A g : \A c \in By({g})' : c \in By({g}) \/ c = Len(thread) + 1
    BY <2>1 DEF By
  <2>7. ASSUME NEW g, NEW c \in Pipe(g)'
        PROVE  c \in Pipe(g)
    <3>1. c \in By({g})' /\ c # 0 /\ c \in Comments
      BY <2>3 DEF Pipe, By
    <3>2. \/ answered[c] # 0
          \/ c \in CommentsOfJobs
          \/ \E p \in Procs : c \in step[p].known \/ c \in {step[p].comment, step[p].decided}
      BY <2>2, <2>4 DEF Pipe
    <3>3. c \in Written
      BY <1>0, <2>5, <3>1, <3>2 DEF Known, KnownStep
    <3>4. c \in By({g})
      BY <2>1, <2>6, <3>1, <3>3
    <3> QED
      BY <3>2, <3>4 DEF Pipe
  <2> QED
    BY <1>b, <2>2, <2>7
<1>4. ASSUME NEW window \in Heads \X Guests, WindowPasses(window)
      PROVE  Limited'
  BY <1>4, <1>b DEF WindowPasses, github, history, Pipe, By, Written, CommentsOfJobs
<1>5. ASSUME NEW j \in Jobs, Expire(j)
      PROVE  Limited'
  <2>1. queue' \cup lost' \subseteq queue \cup lost /\ UNCHANGED <<thread, answered, step, opened>>
    BY <1>5 DEF Expire, github, history
  <2>2. CommentsOfJobs' \subseteq CommentsOfJobs
    BY <2>1 DEF CommentsOfJobs
  <2>3. \A g : Pipe(g)' \subseteq Pipe(g)
    BY <2>1, <2>2, ByUnchanged DEF Pipe
  <2> QED
    BY <1>b, <2>1, <2>3
<1>6. ASSUME NEW p \in Procs, Looks(p)
      PROVE  Limited'
  <2>1. PICK s \in Steps : Turns(p, s) /\ s.comment = 0 /\ s.known \subseteq By(Owners)
    BY <1>6, LooksTurns
  <2>2. Held(s) \subseteq By(Owners) \cup {0}
    BY <2>1 DEF Held, Turns
  <2>3. UNCHANGED <<thread, answered, queue, lost, opened>>
    BY <1>6, LooksTurns
  <2> QED
    BY <1>e, <2>1, <2>2, <2>3 DEF Turns, CommentsOfJobs
<1>7. ASSUME NEW p \in Procs, NEW d \in Comments \cup {Automatic}, Decide(p, d)
      PROVE  Limited'
  <2>1. PICK s \in Steps : Turns(p, s) /\ s.comment \in {0} \cup step[p].known /\ s.known = {}
    BY <1>7, DecideTurns
  <2>2. Held(s) \subseteq Held(step[p]) \cup {0}
    BY <2>1 DEF Held, Turns
  <2>3. queue' \subseteq queue /\ UNCHANGED <<thread, answered, lost, opened>>
    BY <1>7, DecideTurns
  <2>4. CommentsOfJobs' \subseteq CommentsOfJobs
    BY <2>3 DEF CommentsOfJobs
  <2> QED
    BY <1>e, <2>1, <2>2, <2>3, <2>4 DEF Turns
<1>8. ASSUME NEW p \in Procs, NEW j \in Jobs, Lease(p, j)
      PROVE  Limited'
  <2>1. PICK s \in Steps : Turns(p, s) /\ s.comment = j.comment /\ s.known = {}
    BY <1>8, LeaseTurns
  <2>2. j \in queue /\ queue' \subseteq queue /\ UNCHANGED <<thread, answered, lost, opened>>
    BY <1>8, LeaseTurns
  <2>3. Held(s) \subseteq CommentsOfJobs \cup {0}
    BY <2>1, <2>2 DEF Held, Turns, CommentsOfJobs
  <2>4. CommentsOfJobs' \subseteq CommentsOfJobs
    BY <2>2 DEF CommentsOfJobs
  <2> QED
    BY <1>e, <2>1, <2>2, <2>3, <2>4 DEF Turns
<1>9. ASSUME NEW p \in Procs, Quits(p)
      PROVE  Limited'
  <2>1. /\ Turns(p, Idle) /\ Idle \in Steps
        /\ Idle.comment = 0 /\ Idle.known = {} /\ Idle.decided = 0
        /\ queue' \in {queue, queue \cup {JobOf(p)}} /\ lost' \in {lost, lost \cup {JobOf(p)}}
        /\ UNCHANGED <<thread, answered, opened>>
    BY <1>9, QuitsTurns
  <2>2. Held(Idle) \subseteq {0}
    BY <2>1 DEF Held
  <2>3. CommentsOfJobs' \subseteq CommentsOfJobs \cup {step[p].comment}
    BY <2>1, JobParts DEF CommentsOfJobs
  <2> QED
    BY <1>e, <2>1, <2>2, <2>3 DEF Turns
<1>10. ASSUME NEW p \in Procs, Work(p)
       PROVE  Limited'
  <2>1. PICK s \in Steps : Works(p, s)
    BY <1>10, WorkWorks
  <2>2. Asked(p) \subseteq By(Owners) \cup {step[p].comment}
    BY DEF Asked
  <2>3. Held(s) \subseteq Held(step[p]) \cup By(Owners) \cup {0}
    BY <2>1, <2>2 DEF Works, Held
  <2>4. \A c \in Comments : answered'[c] # 0
                              => answered[c] # 0 \/ c \in Held(step[p]) \cup By(Owners) \cup {0}
    BY <2>1, <2>2 DEF Works, Held
  <2>5. CommentsOfJobs' = CommentsOfJobs /\ Moves(p, s) /\ UNCHANGED <<thread, opened>>
    BY <2>1 DEF Works, github, CommentsOfJobs
  <2> QED
    BY <1>e, <2>3, <2>4, <2>5
\* One command is admitted in a window that opens.
<1>11. ASSUME NEW p \in Procs, NEW c \in Comments, Admit(p, c)
       PROVE  Limited'
  <2>1. PICK s \in Steps : /\ Turns(p, s) /\ s.comment = step[p].comment
                           /\ \/ s.known = step[p].known \cup {c} /\ opened' = Opened(thread[c].by)
                              \/ s.known = step[p].known /\ opened' = opened
    BY <1>11, AdmitTurns, SMTT(30)
  <2>2. c \in step[p].todo /\ UNCHANGED <<thread, answered, queue, lost>>
    BY <1>11, AdmitTurns
  <2>3. c \in Written /\ thread[c].by \in Guests
    BY <1>0, <2>2 DEF KnownStep, By
  <2>4. CommentsOfJobs' = CommentsOfJobs
    BY <2>2 DEF CommentsOfJobs
  <2>5. CASE s.known = step[p].known /\ opened' = opened
    <3>1. Held(s) \subseteq Held(step[p]) \cup {0}
      BY <2>1, <2>5 DEF Held, Turns
    <3> QED
      BY <1>e, <2>1, <2>2, <2>4, <2>5, <3>1 DEF Turns
  <2>6. CASE s.known = step[p].known \cup {c} /\ opened' = Opened(thread[c].by)
    <3>1. Held(s) \subseteq Held(step[p]) \cup {0, c}
      BY <2>1, <2>6 DEF Held, Turns
    <3>2. \A g : Pipe(g)' \subseteq Pipe(g) \cup ({0, c} \cap By({g}))
      <4>1. PICK more : more = {0, c}
        OBVIOUS
      <4>2. \A b \in Comments : answered'[b] # 0 => answered[b] # 0 \/ b \in Held(step[p]) \cup more
        BY <2>2
      <4>3. \A g : Pipe(g)' \subseteq Pipe(g) \cup (more \cap By({g}))
        BY <1>c, <2>1, <2>2, <2>4, <3>1, <4>1, <4>2 DEF Turns
      <4> QED
        BY <4>1, <4>3
    <3>3. ASSUME NEW g \in Guests, g = thread[c].by
          PROVE  Cardinality(Pipe(g)') <= opened'[g]
      <4>1. opened'[g] = IF opened[g] = MaxComments THEN MaxComments ELSE opened[g] + 1
        BY <2>6, <3>3 DEF Opened, Typed
      <4>2. Cardinality(Pipe(g)') \in Nat /\ Cardinality(Pipe(g)') <= MaxComments
        <5>0. Pipe(g) \subseteq Comments /\ By({g}) \subseteq Comments
          BY PipeFinite, WrittenComments DEF By
        <5>1. Pipe(g)' \subseteq Comments
          BY <3>2, <5>0
        <5> QED
          BY <5>1, CommentsFinite, FS_Subset, FS_CardinalityType
      <4>3. Pipe(g)' \subseteq Pipe(g) \cup {c}
        BY <1>d, <3>2
      <4>4. IsFiniteSet(Pipe(g) \cup {c}) /\ Cardinality(Pipe(g) \cup {c}) <= Cardinality(Pipe(g)) + 1
        <5>1. IsFiniteSet(Pipe(g)) /\ Cardinality(Pipe(g)) \in Nat
          BY <1>1
        <5>2. /\ IsFiniteSet(Pipe(g) \cup {c})
              /\ Cardinality(Pipe(g) \cup {c}) = IF c \in Pipe(g) THEN Cardinality(Pipe(g))
                                                 ELSE Cardinality(Pipe(g)) + 1
          BY <5>1, FS_AddElement
        <5> QED
          BY <5>1, <5>2
      <4>5. Cardinality(Pipe(g)') <= Cardinality(Pipe(g) \cup {c})
        BY <4>3, <4>4, FS_Subset
      <4>6. Cardinality(Pipe(g) \cup {c}) \in Nat
        BY <4>4, FS_CardinalityType
      <4> QED
        BY <1>1, <4>1, <4>2, <4>4, <4>5, <4>6, IntakeConstants
    <3>4. ASSUME NEW g \in Guests, g # thread[c].by
          PROVE  Cardinality(Pipe(g)') <= opened'[g]
      <4>1. opened'[g] = opened[g]
        BY <2>6, <3>4 DEF Opened, Typed
      <4>2. Pipe(g)' \subseteq Pipe(g)
        BY <1>d, <3>2, <3>4 DEF By
      <4> QED
        BY <1>1, <1>a, <4>1, <4>2
    <3> QED
      BY <3>3, <3>4 DEF Limited
  <2> QED
    BY <2>1, <2>5, <2>6
<1> QED
  BY <1>2, <1>3, <1>4, <1>5, <1>6, <1>7, <1>8, <1>9, <1>10, <1>11, NextCases


-----------------------------------------------------------------------------
(* The invariant and the theorems.                                          *)

LEMMA InvInit == Init => IInv
<1> SUFFICES ASSUME Init PROVE IInv
  OBVIOUS
<1>1. Typed
  BY TypedInit
<1>2. /\ \A p \in Procs : step[p] = Idle
      /\ Idle.at = "idle" /\ Idle.head = 0 /\ Idle.comment = 0
      /\ Idle.known = {} /\ Idle.todo = {} /\ Idle.decided = 0
      /\ queue = {} /\ deferred = {} /\ lost = {} /\ head = 1 /\ Written = {} /\ silenced = {}
      /\ \A c \in Comments : answered[c] = 0 /\ reviews[c] = 0
      /\ \A g \in Guests : opened[g] = 0
  BY DEF Init, Idle, Written
<1>3. Exclusive
  BY <1>2 DEF Exclusive, Busy, Working
<1>4. Known
  BY <1>2 DEF Known, Reviewing
<1>5. Once
  BY <1>2 DEF Once, Sending
<1>6. Quiet
  BY <1>2 DEF Quiet, Reviewing
<1>8. Stopped /\ Deferring
  BY <1>2 DEF Stopped, Deferring
<1>7. Limited
  <2>1. \A g : Pipe(g) = {}
    BY <1>2 DEF Pipe, By
  <2> QED
    BY <1>2, <2>1, FS_EmptySet DEF Limited
<1> QED
  BY <1>1, <1>3, <1>4, <1>5, <1>6, <1>7, <1>8 DEF IInv

LEMMA InvNext == IInv /\ [Next]_vars => IInv'
<1> SUFFICES ASSUME IInv, [Next]_vars PROVE IInv'
  OBVIOUS
<1>1. CASE Next
  BY <1>1, TypedNext, ExclusiveNext, DeferringNext, KnownNext, OnceNext, QuietNext, StoppedNext,
     LimitedNext DEF IInv
<1>2. CASE UNCHANGED vars
  <2>1. /\ UNCHANGED <<head, thread, cooling, answered, row, queue, lost, step, failures>>
        /\ UNCHANGED <<deferred, reviews, opened, silenced>>
    BY <1>2 DEF vars, github, history
  <2>2. Typed'
    BY <2>1, ByUnchanged DEF IInv, Typed
  <2>3. Exclusive'
    BY <2>1 DEF IInv, Exclusive, Busy, JobOf
  <2>4. Known'
    BY <2>1, ByUnchanged DEF IInv, Known, Reviewing
  <2>5. Once'
    BY <2>1 DEF IInv, Once, Sending
  <2>6. Quiet'
    BY <2>1 DEF IInv, Quiet, Reviewing
  <2>8. Stopped' /\ Deferring'
    BY <2>1 DEF IInv, Stopped, Deferring
  <2>7. Limited'
    <3>1. CommentsOfJobs' = CommentsOfJobs
      BY <2>1 DEF CommentsOfJobs
    <3>2. \A g : Pipe(g)' = Pipe(g)
      BY <2>1, <3>1, ByUnchanged DEF Pipe
    <3> QED
      BY <2>1, <3>2 DEF IInv, Limited
  <2> QED
    BY <2>2, <2>3, <2>4, <2>5, <2>6, <2>7, <2>8 DEF IInv
<1> QED
  BY <1>1, <1>2

(***************************************************************************)
(* The invariant: one job of a head is at work; nothing is known that is   *)
(* not there; a command is recorded before its review and sent once; an    *)
(* automatic review is of a head without a row that forbids it; and the    *)
(* public commands that are known are not more than the windows opened.    *)
(***************************************************************************)
THEOREM Invariance == Spec => []IInv
BY InvInit, InvNext, PTL DEF Spec

(***************************************************************************)
(* Types, and a job that is leased does not wait (leaseNextReviewQueueJob).*)
(***************************************************************************)
THEOREM TypeCorrect == Spec => []TypeOK
<1>1. IInv => TypeOK
  <2> SUFFICES ASSUME IInv PROVE TypeOK
    OBVIOUS
  <2>1. queue \cap Leased = {}
    BY DEF IInv, Exclusive, Leased, Busy
  <2> QED
    BY <2>1 DEF IInv, Typed, Deferring, TypeOK
<1> QED
  BY <1>1, Invariance, PTL

(***************************************************************************)
(* A command leads to one review at most, whatever is read again, pushed,  *)
(* lost or crashes (worker.ts records it before the review is made).       *)
(***************************************************************************)
THEOREM OneReviewHolds == Spec => []OneReviewPerCommand
<1>1. IInv => OneReviewPerCommand
  BY DEF IInv, Once, OneReviewPerCommand
<1> QED
  BY <1>1, Invariance, PTL

(***************************************************************************)
(* However many processes scan, an author's public commands are carried    *)
(* out once for a window (tryRecordPublicCommandInvocation).               *)
(***************************************************************************)
THEOREM RateLimitHolds == Spec => []PublicReviewsAreRateLimited
<1>1. IInv => PublicReviewsAreRateLimited
  <2> SUFFICES ASSUME IInv, NEW g \in Guests
               PROVE  Cardinality({c \in By({g}) : answered[c] # 0}) <= opened[g]
    BY DEF PublicReviewsAreRateLimited
  <2>1. Typed /\ Cardinality(Pipe(g)) <= opened[g] /\ opened[g] \in Nat
    BY DEF IInv, Limited, Typed
  <2>2. IsFiniteSet(Pipe(g)) /\ Cardinality(Pipe(g)) \in Nat
    BY <2>1, PipeFinite
  <2>3. {c \in By({g}) : answered[c] # 0} \subseteq Pipe(g)
    BY DEF Pipe
  <2> DEFINE done == {c \in By({g}) : answered[c] # 0}
  <2>4. Cardinality(done) <= Cardinality(Pipe(g)) /\ Cardinality(done) \in Nat
    BY <2>2, <2>3, FS_Subset, FS_CardinalityType
  <2> HIDE DEF done
  <2>5. Cardinality(done) <= opened[g]
    BY <2>1, <2>2, <2>4
  <2> QED
    BY <2>5 DEF done
<1> QED
  BY <1>1, Invariance, PTL

(***************************************************************************)
(* While a stop that was carried out to its end is in force, no automatic  *)
(* review of the head is under way, whatever jobs of the head waited, were *)
(* put back by a cooldown or come back (processedHeadPolicyForQueueJob,    *)
(* worker.ts:1957-1961).                                                   *)
(***************************************************************************)
THEOREM StopHolds == Spec => []StopSilencesAutomatic
<1>1. IInv => StopSilencesAutomatic
  BY DEF IInv, Quiet, Stopped, Reviewing, Retryable, StopSilencesAutomatic
<1> QED
  BY <1>1, Invariance, PTL

-----------------------------------------------------------------------------
(* The promise of CommandService.                                           *)

Carried == {c \in Comments : answered[c] # 0}

\* Nothing happens that the service sees.
Unseen == UNCHANGED <<thread, reviews, opened>> /\ Carried' = Carried

Served == Service!ServiceNext \/ Unseen

\* What a process decides to review asks for a review.
AskedForReview ==
  \A p \in Procs : step[p].decided # Automatic => thread[step[p].decided].action = "review"

LEMMA AskedForReviewNext ==
  ASSUME Typed, Known, AskedForReview, Next
  PROVE  AskedForReview'
<1>a. ASSUME UNCHANGED <<thread, step>> PROVE AskedForReview'
  BY <1>a DEF AskedForReview
<1>b. ASSUME NEW p \in Procs, NEW s \in Steps, Moves(p, s), UNCHANGED thread,
             s.decided # 0 => thread[s.decided].action = "review"
      PROVE  AskedForReview'
  <2>1. step'[p] = s /\ \A q \in Procs \ {p} : step'[q] = step[q]
    BY <1>b, MovesOne
  <2> QED
    BY <1>b, <2>1 DEF AskedForReview
<1>1. CASE Push
  BY <1>1, <1>a DEF Push
<1>2. ASSUME NEW author \in Owners \cup Guests, NEW action \in Actions, Comment(author, action)
      PROVE  AskedForReview'
  <2>1. \A c \in Written : thread'[c] = thread[c]
    BY <1>2, CommentAdded
  <2>2. \A p \in Procs : step[p].decided # 0 => step[p].decided \in Written
    BY DEF Known
  <2>3. UNCHANGED step
    BY <1>2 DEF Comment
  <2> QED
    BY <2>1, <2>2, <2>3 DEF AskedForReview
<1>3. ASSUME NEW window \in Heads \X Guests, WindowPasses(window)
      PROVE  AskedForReview'
  BY <1>3, <1>a DEF WindowPasses, github
<1>4. ASSUME NEW j \in Jobs, Expire(j)
      PROVE  AskedForReview'
  BY <1>4, <1>a DEF Expire, github
<1>5. ASSUME NEW p \in Procs, Looks(p)
      PROVE  AskedForReview'
  <2>1. UNCHANGED thread
    BY <1>5 DEF Looks, Scan, Read, github
  <2> QED
    BY <1>5, <1>b, <2>1, LooksTurns DEF Turns
<1>6. ASSUME NEW p \in Procs, NEW c \in Comments, Admit(p, c)
      PROVE  AskedForReview'
  <2>1. UNCHANGED thread
    BY <1>6 DEF Admit, github
  <2> QED
    BY <1>6, <1>b, <2>1, AdmitTurns DEF Turns
<1>7. ASSUME NEW p \in Procs, NEW d \in Comments \cup {Automatic}, Decide(p, d)
      PROVE  AskedForReview'
  <2>1. UNCHANGED thread
    BY <1>7 DEF Decide, github
  <2> QED
    BY <1>7, <1>b, <2>1, DecideTurns DEF Turns
<1>8. ASSUME NEW p \in Procs, NEW j \in Jobs, Lease(p, j)
      PROVE  AskedForReview'
  <2>1. UNCHANGED thread
    BY <1>8 DEF Lease, github
  <2> QED
    BY <1>8, <1>b, <2>1, LeaseTurns DEF Turns
<1>9. ASSUME NEW p \in Procs, Quits(p)
      PROVE  AskedForReview'
  <2>1. UNCHANGED thread
    BY <1>9 DEF Quits, Enqueue, Return, PutBack, Settle, Crash, github
  <2> QED
    BY <1>9, <1>b, <2>1, QuitsTurns DEF Turns
<1>10. ASSUME NEW p \in Procs, Work(p)
       PROVE  AskedForReview'
  <2>1. PICK s \in Steps : Works(p, s)
    BY <1>10, WorkWorks
  <2>2. Moves(p, s) /\ UNCHANGED thread
    BY <2>1 DEF Works, github
  <2>3. step'[p] = s
    BY <2>2, MovesOne
  <2>4. ASSUME NEW stage, NEW d, GoOn(p, stage, d), d # 0 => thread[d].action = "review"
        PROVE  AskedForReview'
    <3>1. s.decided = d
      BY <2>3, <2>4 DEF GoOn, Typed, Steps
    <3> QED
      BY <1>b, <2>2, <2>4, <3>1
  <2>5. ASSUME NEW stage, GoOn(p, stage, 0) \/ GoOn(p, stage, step[p].decided)
        PROVE  AskedForReview'
    BY <2>4, <2>5 DEF AskedForReview
  <2>6. ASSUME NEW d \in Comments \cup {Automatic}, Resolve(p, d)
        PROVE  AskedForReview'
    <3>1. CASE ResolveReview(p, d)
      BY <2>4, <3>1 DEF ResolveReview, Asking
    <3>2. CASE ResolveNone(p, d) \/ ResolveStop(p, d) \/ ResolveExplain(p, d)
      BY <2>5, <3>2 DEF ResolveNone, ResolveStop, ResolveExplain, Settling
    <3> QED
      BY <2>6, <3>1, <3>2 DEF Resolve
  <2> QED
    BY <1>10, <2>5, <2>6
       DEF Work, Fetch, Silence, GoStale, TurnAway, Begin, Check, Send, Fail, Defer, Settling
<1> QED
  BY <1>1, <1>2, <1>3, <1>4, <1>5, <1>6, <1>7, <1>8, <1>9, <1>10, NextCases

\* A command is recorded: again, or within the windows of its author.
LEMMA AnswerCarriesOut ==
  ASSUME IInv, IInv', NEW d \in Written, NEW h \in Heads, Answer(d, h),
         UNCHANGED <<thread, reviews, opened>>
  PROVE  Served
<1>1. d \in Comments /\ h # 0
  BY WrittenComments DEF IInv, Heads
<1>2. /\ answered'[d] # 0
      /\ \A c \in Comments \ {d} : answered'[c] = answered[c]
  BY <1>1, AnswerTyped DEF IInv
<1>3. CASE answered[d] # 0
  BY <1>1, <1>2, <1>3 DEF Served, Unseen, Carried
<1>4. CASE answered[d] = 0
  <2>1. d \notin Carried /\ Carried' = Carried \cup {d}
    BY <1>1, <1>2, <1>4 DEF Carried
  <2>2. ASSUME NEW g \in Guests, thread[d].by = g
        PROVE  Cardinality({c \in Carried : thread[c].by = g}) < opened[g]
    <3> DEFINE before == {c \in Carried : thread[c].by = g}
    <3>1. \A c \in Carried \cup {d} : c \in Written' /\ answered'[c] # 0
      BY <2>1 DEF IInv, Known, Carried
    <3>2. \A c \in before \cup {d} : c \in By({g})'
      BY <2>2, <3>1, ByUnchanged DEF By
    <3>3. before \cup {d} \subseteq Pipe(g)'
      BY <3>1, <3>2 DEF Pipe
    <3>4. IsFiniteSet(Pipe(g)') /\ Cardinality(Pipe(g)') <= opened[g]
          /\ opened[g] \in Nat /\ Cardinality(Pipe(g)') \in Nat
      <4>1. Pipe(g)' \subseteq Comments
        BY ByUnchanged, WrittenComments DEF IInv, Pipe, By
      <4>2. IsFiniteSet(Pipe(g)') /\ Cardinality(Pipe(g)') \in Nat
        BY <4>1, CommentsFinite, FS_Subset, FS_CardinalityType
      <4>3. Cardinality(Pipe(g)') <= opened[g] /\ opened[g] \in Nat
        BY IntakeConstants DEF IInv, Limited, Typed
      <4> QED
        BY <4>2, <4>3
    <3> HIDE DEF before
    <3>5. /\ IsFiniteSet(before \cup {d})
          /\ Cardinality(before \cup {d}) <= Cardinality(Pipe(g)')
      BY <3>3, <3>4, FS_Subset
    <3>6. IsFiniteSet(before) /\ d \notin before
      BY <2>1, <3>5, FS_Subset DEF before
    <3>7. Cardinality(before \cup {d}) = Cardinality(before) + 1 /\ Cardinality(before) \in Nat
      BY <3>6, FS_AddElement, FS_CardinalityType
    <3>8. Cardinality(before) < opened[g]
      BY <3>4, <3>5, <3>7
    <3> QED
      BY <3>8 DEF before
  <2>3. \A S : Service!Cardinality(S) = Cardinality(S)
    BY DEF Cardinality, Service!Cardinality
  <2>4. Service!CarryOut(d)
    BY <2>1, <2>2, <2>3 DEF Service!CarryOut, Service!CarriedFor, Carried, Written
  <2> QED
    BY <1>1, <2>4 DEF Served, Service!ServiceNext
<1> QED
  BY <1>3, <1>4

\* A review becomes public: it is automatic, or the only one of its command.
LEMMA PublicReviews ==
  ASSUME IInv, AskedForReview, NEW p \in Procs,
         \/ UNCHANGED reviews
         \/ step[p].at = "send" /\ Public(step[p].decided),
         UNCHANGED <<thread, answered, opened>>
  PROVE  Served
<1>1. Carried' = Carried
  BY DEF Carried
<1>2. CASE UNCHANGED reviews
  BY <1>1, <1>2 DEF Served, Unseen
<1>3. CASE step[p].at = "send" /\ Public(step[p].decided) /\ step[p].decided # 0
  <2> DEFINE c == step[p].decided
  <2>1. c \in Comments
    BY <1>3, StepParts DEF IInv, Typed
  <2>2. c \in Carried /\ reviews[c] = 0 /\ thread[c].action = "review"
    BY <1>3, <2>1 DEF IInv, Once, Sending, Carried, AskedForReview
  <2>3. reviews' = [reviews EXCEPT ![c] = 1]
    BY <1>3, <2>1, <2>2 DEF Public, IInv, Typed
  <2>4. Service!Review(c)
    BY <1>1, <2>2, <2>3 DEF Service!Review, Carried
  <2> QED
    BY <2>1, <2>4 DEF Served, Service!ServiceNext
<1>4. CASE Public(step[p].decided) /\ step[p].decided = 0
  BY <1>2, <1>4 DEF Public
<1> QED
  BY <1>2, <1>3, <1>4

\* A transaction of admitPublicCommands opens a window for the author.
LEMMA AdmitOpens ==
  ASSUME IInv, NEW p \in Procs, NEW c \in Comments, Admit(p, c)
  PROVE  Served
<1>1. UNCHANGED <<thread, reviews>> /\ Carried' = Carried
  BY DEF Admit, github, Carried
<1>2. thread[c].by \in Guests
  BY DEF Admit, IInv, Known, By
<1>3. CASE UNCHANGED opened
  BY <1>1, <1>3 DEF Served, Unseen
<1>4. CASE opened' = Opened(thread[c].by)
  <2>1. opened' = opened \/ opened' = [opened EXCEPT ![thread[c].by] = @ + 1]
    BY <1>2, <1>4 DEF Opened, IInv, Typed
  <2>2. CASE opened' = [opened EXCEPT ![thread[c].by] = @ + 1]
    BY <1>1, <1>2, <2>2 DEF Served, Service!ServiceNext, Service!Open, Carried
  <2> QED
    BY <1>3, <2>1, <2>2
<1> QED
  BY <1>3, <1>4 DEF Admit

LEMMA WorkIsServed ==
  ASSUME IInv, IInv', AskedForReview, NEW p \in Procs, Work(p)
  PROVE  Served
<1>h. step[p].at # "idle" => step[p].head \in Heads
  BY NotIdle DEF IInv
<1>1. ASSUME UNCHANGED <<thread, answered, reviews, opened>>
      PROVE  Served
  BY <1>1 DEF Served, Unseen, Carried
<1>2. ASSUME NEW d \in Comments \cup {Automatic}, Resolve(p, d)
      PROVE  Served
  <2>1. UNCHANGED <<thread, reviews, opened>> /\ step[p].at = "resolve"
    BY <1>2 DEF Resolve, github, history
  <2>2. CASE ResolveStop(p, d) \/ ResolveExplain(p, d)
    BY <1>h, <2>1, <2>2, AnswerCarriesOut DEF ResolveStop, ResolveExplain, Asking
  <2>3. CASE ResolveReview(p, d) \/ ResolveNone(p, d)
    BY <1>1, <2>1, <2>3 DEF ResolveReview, ResolveNone
  <2> QED
    BY <1>2, <2>2, <2>3 DEF Resolve
<1>3. CASE Begin(p)
  <2>1. UNCHANGED <<thread, reviews, opened>> /\ step[p].at = "begin"
    BY <1>3 DEF Begin, github, history
  <2>2. CASE step[p].decided = 0
    BY <1>1, <1>3, <2>1, <2>2 DEF Begin
  <2>3. CASE step[p].decided # 0
    <3>1. step[p].decided \in Written
      BY <2>3 DEF IInv, Known
    <3> QED
      BY <1>3, <1>h, <2>1, <2>3, <3>1, AnswerCarriesOut DEF Begin
  <2> QED
    BY <2>2, <2>3
<1>4. CASE Send(p) \/ Fail(p) \/ Defer(p)
  BY <1>4, PublicReviews DEF Send, Fail, Defer, Trouble, github
<1>5. CASE Fetch(p) \/ Silence(p) \/ GoStale(p) \/ TurnAway(p) \/ Check(p)
  BY <1>1, <1>5 DEF Fetch, Silence, GoStale, TurnAway, Check, github, history
<1> QED
  BY <1>2, <1>3, <1>4, <1>5 DEF Work

(***************************************************************************)
(* For every number of processes, heads, authors, commands and failures,   *)
(* CommandIntake implements CommandService: what was carried out is never  *)
(* forgotten, guests stay within their windows, and a review follows only  *)
(* a recorded review command, once.                                        *)
(***************************************************************************)
THEOREM CommandsAreServedHolds == Spec => CommandsAreServed
<1>1. Init => AskedForReview /\ Service!ServiceInit
  BY DEF Init, AskedForReview, Idle, Service!ServiceInit
<1>2. IInv /\ AskedForReview /\ [Next]_vars => AskedForReview'
  <2> SUFFICES ASSUME IInv, AskedForReview, [Next]_vars PROVE AskedForReview'
    OBVIOUS
  <2>1. CASE UNCHANGED vars
    BY <2>1 DEF vars, github, AskedForReview
  <2> QED
    BY <2>1, AskedForReviewNext DEF IInv
<1>3. IInv /\ IInv' /\ AskedForReview /\ [Next]_vars
        => [Service!ServiceNext]_<<thread, {c \in Comments : answered[c] # 0}, reviews, opened>>
  <2> SUFFICES ASSUME IInv, IInv', AskedForReview, [Next]_vars
               PROVE  Served
    BY DEF Served, Unseen, Carried
  <2>1. ASSUME UNCHANGED <<thread, answered, reviews, opened>>
        PROVE  Served
    BY <2>1 DEF Served, Unseen, Carried
  <2>2. ASSUME NEW author \in Owners \cup Guests, NEW action \in Actions, Comment(author, action)
        PROVE  Served
    <3>1. Service!Write
      BY <2>2 DEF Comment, history, Service!Write
    <3> QED
      BY <3>1 DEF Served, Service!ServiceNext
  <2>3. CASE \/ Push
             \/ \E window \in Heads \X Guests : WindowPasses(window)
             \/ \E j \in Jobs : Expire(j)
             \/ UNCHANGED vars
    BY <2>1, <2>3 DEF Push, WindowPasses, Expire, vars, github, history
  <2>4. ASSUME NEW p \in Procs,
               \/ Looks(p)
               \/ \E d \in Comments \cup {Automatic} : Decide(p, d)
               \/ \E j \in Jobs : Lease(p, j)
        PROVE  Served
    BY <2>1, <2>4 DEF Looks, Scan, Read, Decide, Lease, github, history
  <2>5. ASSUME NEW p \in Procs, Quits(p)
        PROVE  Served
    <3>1. CASE Enqueue(p) \/ Return(p) \/ PutBack(p) \/ Settle(p)
      BY <2>1, <3>1 DEF Enqueue, Return, PutBack, Settle, github, history
    <3>2. CASE Crash(p)
      BY <3>2, PublicReviews DEF Crash, Trouble, github
    <3> QED
      BY <2>5, <3>1, <3>2 DEF Quits
  <2> QED
    BY <2>2, <2>3, <2>4, <2>5, AdmitOpens, WorkIsServed, NextCases
<1> QED
  BY <1>1, <1>2, <1>3, Invariance, PTL DEF Spec, CommandsAreServed, Service!ServiceSpec

==============================================================================
