------------------------- MODULE JobExecutionProofs -------------------------
(***************************************************************************)
(* Proofs about JobExecution, for any number of jobs, workers and files,   *)
(* any size of the task queue and any number of starts.                    *)
(*                                                                         *)
(* The invariant follows a task through the five places where it can be.   *)
(* A place is a set of tasks here; a step moves a task from one of them to *)
(* the next, and only submit_batch brings a task into one.                 *)
(***************************************************************************)
EXTENDS JobExecution, FiniteSetTheorems, SequenceTheorems, TLAPS

Queued    == {t \in Task : \E i \in DOMAIN tasks : tasks[i] = t}
AtWork    == {t \in Task : \E w \in Workers : wpc[w] = "work" /\ wtask[w] = t}
Delivered == {t \in Task : \E i \in DOMAIN results : results[i].task = t}
Counted   == {t \in Task : \E j \in Jobs : t \in collected[j]}
Placed    == Queued \cup AtWork \cup Delivered \cup Counted \cup lost

(* The job at hand, its files put by submit_batch and its results counted. *)
Control ==
  /\ cur \in Jobs => row[cur].status # "pending"
  /\ epc # "idle" => /\ cur \in Jobs /\ row[cur].status = "running"
                     /\ processed < row[cur].total /\ sent[cur] <= row[cur].total
                     /\ cur \notin excepted
  /\ epc = "submit" => processed = 0
  /\ epc = "collect" => sent[cur] = row[cur].total
  /\ \A j \in Jobs : row[j].status = "pending" =>
       sent[j] = 0 /\ collected[j] = {} /\ j \notin excepted
  /\ \A w \in Workers : wpc[w] = "work" => wtask[w] \in Task
  /\ running \/ spc # "none" \/ \A w \in Workers : wpc[w] = "off"

(* A task is at most once in each place ... *)
OnceInQueue   == \A i, k \in DOMAIN tasks :
                   tasks[i] \in Task /\ tasks[i] = tasks[k] => i = k
OnceAtWork    == \A v, w \in Workers :
                   wpc[v] = "work" /\ wpc[w] = "work" /\ wtask[v] = wtask[w] => v = w
OnceDelivered == \A i, k \in DOMAIN results : results[i].task = results[k].task => i = k
OnceCounted   == \A t \in Task, i, j \in Jobs :
                   t \in collected[i] /\ t \in collected[j] => i = j
Once == OnceInQueue /\ OnceAtWork /\ OnceDelivered /\ OnceCounted

(* ... and in at most one of them. *)
Apart ==
  /\ Queued \cap (AtWork \cup Delivered \cup Counted \cup lost) = {}
  /\ AtWork \cap (Delivered \cup Counted \cup lost) = {}
  /\ Delivered \cap (Counted \cup lost) = {}
  /\ Counted \cap lost = {}

(* What is in a place is what has been submitted. *)
Submitted == {t \in Task : t.file <= sent[t.job]}
Tracked   == Placed = Submitted

(* The count that join() waits for exceeds this by the stop signals taken and
   the tasks of cancelled workers. *)
Working == {w \in Workers : wpc[w] = "work"}
CountsAll == unfinished >= Len(tasks) + Cardinality(Working)

Raised(j) == \E t \in collected[j] : outcome[t] = "raised"
Outcomes ==
  /\ \A i \in DOMAIN results : results[i].success <=> outcome[results[i].task] # "raised"
  /\ epc # "idle" => (failed <=> Raised(cur))
  /\ \A j \in Jobs : row[j].status \in Ended /\ sent[j] > 0 =>
       (row[j].status = "failed" <=> j \in excepted \/ Raised(j))

(* The results to come are those the job at hand waits for and those that the
   executions which ended early left; of the latter the job at hand can count
   no more than were left when it began. *)
Uncounted == Submitted \ Counted
Due       == IF epc = "idle" THEN 0 ELSE sent[cur] - processed
Foreign   == (collected[cur] \cup Uncounted) \ FilesOf(cur)
MissesFew(j) ==
  /\ Cardinality(collected[j] \ FilesOf(j)) <= owed
  /\ epc = "idle" \/ j # cur => Cardinality(FilesOf(j) \ collected[j]) <= owed
Owing ==
  /\ IsFiniteSet(Submitted)
  /\ Cardinality(Uncounted) = owed + Due
  /\ epc # "idle" => /\ Cardinality(Foreign) <= owed
                     /\ \A j \in Jobs \ {cur} : collected[j] \cap FilesOf(cur) = {}
  /\ \A j \in Jobs : MissesFew(j)

ExecInv ==
  TypeOK /\ Control /\ Once /\ Apart /\ Tracked /\ CountsAll /\ Outcomes /\ Owing
-----------------------------------------------------------------------------
(* Sequences *)

(* What Head and Tail are of a sequence that is not empty.                 *)
LEMMA HeadAndTail ==
  ASSUME NEW S, NEW s \in Seq(S), s # <<>>
  PROVE  /\ Len(s) \in Nat \ {0} /\ DOMAIN s = 1..Len(s)
         /\ Head(s) = s[1] /\ s[1] \in S /\ 1 \in DOMAIN s
         /\ Tail(s) \in Seq(S) /\ Len(Tail(s)) = Len(s) - 1
         /\ DOMAIN Tail(s) = 1..(Len(s) - 1)
         /\ \A i \in 1..(Len(s) - 1) :
              Tail(s)[i] = s[i + 1] /\ i + 1 \in DOMAIN s /\ i + 1 # 1
         /\ \A i \in DOMAIN s : i # 1 =>
              i - 1 \in 1..(Len(s) - 1) /\ Tail(s)[i - 1] = s[i]
  <1>1. Len(s) \in Nat \ {0} /\ DOMAIN s = 1..Len(s)
    BY EmptySeq, LenProperties
  <1>2. /\ Tail(s) \in Seq(S) /\ Len(Tail(s)) = Len(s) - 1
        /\ \A i \in 1..Len(Tail(s)) : Tail(s)[i] = s[i + 1]
    BY HeadTailProperties
  <1>3. DOMAIN Tail(s) = 1..Len(Tail(s))
    BY <1>2, LenProperties
  <1>4. s[1] \in S
    BY <1>1, ElementOfSeq
  <1>5. Head(s) = s[1]
    BY <1>1
  <1>6. \A i \in 1..(Len(s) - 1) : i + 1 \in 1..Len(s) /\ i + 1 # 1
    BY <1>1
  <1>7. \A i \in 1..Len(s) : i # 1 => i - 1 \in 1..(Len(s) - 1) /\ (i - 1) + 1 = i
    BY <1>1
  <1>. QED
    BY <1>1, <1>2, <1>3, <1>4, <1>5, <1>6, <1>7

(* What Append makes of a sequence.                                        *)
LEMMA AtTheEnd ==
  ASSUME NEW S, NEW s \in Seq(S), NEW x \in S
  PROVE  /\ Len(s) \in Nat /\ DOMAIN s = 1..Len(s)
         /\ Append(s, x) \in Seq(S)
         /\ DOMAIN Append(s, x) = 1..(Len(s) + 1)
         /\ \A i \in 1..Len(s) : Append(s, x)[i] = s[i]
         /\ Append(s, x)[Len(s) + 1] = x
  <1>1. Len(s) \in Nat /\ DOMAIN s = 1..Len(s)
    BY LenProperties
  <1>2. /\ Append(s, x) \in Seq(S) /\ Len(Append(s, x)) = Len(s) + 1
        /\ \A i \in 1..Len(s) : Append(s, x)[i] = s[i]
        /\ Append(s, x)[Len(s) + 1] = x
    BY AppendProperties
  <1>3. DOMAIN Append(s, x) = 1..Len(Append(s, x))
    BY <1>2, LenProperties
  <1>. QED
    BY <1>1, <1>2, <1>3

(* s \o t, where t is given by its elements. *)
LEMMA Joined ==
  ASSUME NEW S, NEW s \in Seq(S), NEW n \in Nat, NEW t, t \in [1..n -> S]
  PROVE  /\ Len(s) \in Nat /\ DOMAIN s = 1..Len(s)
         /\ s \o t \in Seq(S)
         /\ Len(s \o t) = Len(s) + n
         /\ DOMAIN (s \o t) = 1..(Len(s) + n)
         /\ \A i \in 1..Len(s) : (s \o t)[i] = s[i]
         /\ \A i \in 1..n : (s \o t)[Len(s) + i] = t[i]
  <1>1. Len(s) \in Nat /\ DOMAIN s = 1..Len(s)
    BY LenProperties
  <1>2. t \in Seq(S)
    BY SeqDef
  <1>3. Len(t) = n
    BY <1>2
  <1>4. /\ s \o t \in Seq(S) /\ Len(s \o t) = Len(s) + Len(t)
        /\ \A i \in 1 .. Len(s) + Len(t) : (s \o t)[i] =
                     IF i <= Len(s) THEN s[i] ELSE t[i - Len(s)]
    BY <1>2, ConcatProperties
  <1>5. DOMAIN (s \o t) = 1..Len(s \o t)
    BY <1>4, LenProperties
  <1>6. \A i \in 1..Len(s) : i \in 1 .. Len(s) + n /\ i <= Len(s)
    BY <1>1
  <1>7. \A i \in 1..n : /\ Len(s) + i \in 1 .. Len(s) + n /\ ~(Len(s) + i <= Len(s))
                        /\ Len(s) + i - Len(s) = i
    BY <1>1
  <1>8. \A i \in 1..n : (s \o t)[Len(s) + i] = t[i]
    BY <1>3, <1>4, <1>7
  <1>. QED
    BY <1>1, <1>3, <1>4, <1>5, <1>6, <1>8

-----------------------------------------------------------------------------
(* Types *)

(* What the assumption says, and that a stop signal is no task.            *)
LEMMA StopIsNoTask == Stop \notin Task /\ IsFiniteSet(Workers) /\ QueueCap \in Nat \ {0}
                      /\ MaxFiles \in Nat /\ NoJob \notin Jobs
  BY JobExecutionAssumption DEF Stop, Task

(* What is put in the queue at once: no more than there is to put, and     *)
(* than there is room for.                                                 *)
LEMMA RoomType ==
  ASSUME NEW n \in Nat, TypeOK
  PROVE  /\ Room(n) \in Nat /\ Room(n) <= n /\ n - Room(n) \in Nat
         /\ Len(tasks) \in Nat /\ Len(tasks) + Room(n) <= QueueCap
  <1>1. Len(tasks) \in Nat /\ Len(tasks) <= QueueCap /\ QueueCap \in Nat
    BY StopIsNoTask, LenProperties DEF TypeOK
  <1>. QED
    BY <1>1 DEF Room, AtMost

(* Stop signals go to the end of the queue and leave the rest of it alone. *)
LEMMA SignalsType ==
  ASSUME NEW n \in Nat, TypeOK, PutSignals(n)
  PROVE  /\ tasks' \in Seq(Task \cup {Stop}) /\ Len(tasks') <= QueueCap
         /\ unfinished' \in Int /\ signals' \in Nat /\ spc' \in {"joining", "putting"}
         /\ unfinished' - Len(tasks') = unfinished - Len(tasks)
         /\ DOMAIN tasks = 1..Len(tasks) /\ DOMAIN tasks' = 1..Len(tasks')
         /\ Len(tasks) \in Nat /\ Len(tasks') \in Nat /\ Len(tasks) <= Len(tasks')
         /\ \A i \in DOMAIN tasks : tasks'[i] = tasks[i]
         /\ \A i \in DOMAIN tasks' : i \notin DOMAIN tasks => tasks'[i] = Stop
  <1>. DEFINE r == Room(n)
              t == [i \in 1..r |-> Stop]
  <1>1. /\ r \in Nat /\ r <= n /\ n - r \in Nat
        /\ Len(tasks) \in Nat /\ Len(tasks) + r <= QueueCap
    BY RoomType
  <1>2. t \in [1..r -> Task \cup {Stop}] /\ \A i \in 1..r : t[i] = Stop
    OBVIOUS
  <1>3. tasks' = tasks \o t /\ unfinished' = unfinished + r /\ signals' = n - r
        /\ spc' \in {"joining", "putting"}
    BY DEF PutSignals
  <1>4. tasks \in Seq(Task \cup {Stop}) /\ unfinished \in Int
    BY DEF TypeOK
  <1>. HIDE DEF t, r
  <1>5. /\ DOMAIN tasks = 1..Len(tasks)
        /\ tasks \o t \in Seq(Task \cup {Stop})
        /\ Len(tasks \o t) = Len(tasks) + r
        /\ DOMAIN (tasks \o t) = 1..(Len(tasks) + r)
        /\ \A i \in 1..Len(tasks) : (tasks \o t)[i] = tasks[i]
        /\ \A i \in 1..r : (tasks \o t)[Len(tasks) + i] = t[i]
    BY <1>1, <1>2, <1>4, Joined
  <1>6. ASSUME NEW i \in DOMAIN tasks', i \notin DOMAIN tasks PROVE tasks'[i] = Stop
    <2>1. i \in 1..(Len(tasks) + r) /\ i \notin 1..Len(tasks)
      BY <1>3, <1>5, <1>6
    <2>2. i - Len(tasks) \in 1..r /\ Len(tasks) + (i - Len(tasks)) = i
      BY <1>1, <2>1
    <2>. QED
      BY <1>2, <1>3, <1>5, <2>2
  <1>7. \A i \in DOMAIN tasks : tasks'[i] = tasks[i]
    BY <1>3, <1>5
  <1>8. unfinished' \in Int /\ unfinished' - Len(tasks') = unfinished - Len(tasks)
        /\ Len(tasks') \in Nat /\ Len(tasks) <= Len(tasks') /\ Len(tasks') <= QueueCap
    BY <1>1, <1>3, <1>4, <1>5
  <1>. QED
    BY <1>1, <1>3, <1>5, <1>6, <1>7, <1>8
(* The tasks that Submit makes are of the job, numbered on from those      *)
(* sent.                                                                   *)
LEMMA FilesType ==
  ASSUME TypeOK, Control, epc = "submit", NEW k \in Nat, sent[cur] + k <= row[cur].total
  PROVE  /\ FilesFrom(sent[cur], k) \in [1..k -> Task]
         /\ \A i \in 1..k : FilesFrom(sent[cur], k)[i] = [job |-> cur, file |-> sent[cur] + i]
  <1>1. cur \in Jobs /\ sent[cur] \in Nat /\ row[cur].total \in 0..MaxFiles /\ MaxFiles \in Nat
    BY StopIsNoTask DEF TypeOK, Control
  <1>2. \A i \in 1..k : sent[cur] + i \in 1..MaxFiles
    BY <1>1
  <1>3. \A i \in 1..k : [job |-> cur, file |-> sent[cur] + i] \in Task
    BY <1>1, <1>2 DEF Task
  <1>. QED
    BY <1>3 DEF FilesFrom

(* What Submit does to the queue: it appends the next files of the job. *)
LEMMA SubmitType ==
  ASSUME TypeOK, Control, Submit
  PROVE  \E k \in Nat :
         /\ cur \in Jobs /\ sent[cur] \in Nat
         /\ sent'[cur] = sent[cur] + k /\ sent'[cur] <= row[cur].total
         /\ sent' \in [Jobs -> 0..MaxFiles]
         /\ \A j \in Jobs \ {cur} : sent'[j] = sent[j]
         /\ unfinished' = unfinished + k
         /\ tasks' \in Seq(Task \cup {Stop}) /\ Len(tasks') <= QueueCap
         /\ Len(tasks) \in Nat /\ Len(tasks') = Len(tasks) + k
         /\ DOMAIN tasks = 1..Len(tasks) /\ DOMAIN tasks' = 1..(Len(tasks) + k)
         /\ \A i \in 1..Len(tasks) : tasks'[i] = tasks[i]
         /\ \A i \in 1..k : tasks'[Len(tasks) + i] = [job |-> cur, file |-> sent[cur] + i]
         /\ \A i \in 1..k : [job |-> cur, file |-> sent[cur] + i] \in Task
  <1>. DEFINE s == sent[cur]
              k == Room(row[cur].total - s)
              t == FilesFrom(s, k)
  <1>1. /\ cur \in Jobs /\ s \in Nat /\ row[cur].total \in 0..MaxFiles /\ MaxFiles \in Nat
        /\ s <= row[cur].total /\ epc = "submit"
    BY StopIsNoTask DEF TypeOK, Control, Submit
  <1>2. row[cur].total - s \in Nat
    BY <1>1
  <1>3. k \in Nat /\ k <= row[cur].total - s /\ Len(tasks) \in Nat /\ Len(tasks) + k <= QueueCap
    BY <1>2, RoomType
  <1>4. tasks' = tasks \o t /\ unfinished' = unfinished + k /\ sent' = [sent EXCEPT ![cur] = s + k]
    BY DEF Submit, PutTasks
  <1>5. s + k <= row[cur].total
    BY <1>1, <1>3
  <1>6. /\ t \in [1..k -> Task]
        /\ \A i \in 1..k : t[i] = [job |-> cur, file |-> s + i]
    BY <1>1, <1>3, <1>5, FilesType
  <1>7. \A i \in 1..k : [job |-> cur, file |-> s + i] \in Task
    BY <1>6
  <1>8. t \in [1..k -> Task \cup {Stop}] /\ tasks \in Seq(Task \cup {Stop})
    BY <1>6 DEF TypeOK
  <1>. HIDE DEF t, k
  <1>10. k \in Nat /\ t \in [1..k -> Task \cup {Stop}]
    BY <1>3, <1>8
  <1>9. /\ DOMAIN tasks = 1..Len(tasks)
        /\ tasks \o t \in Seq(Task \cup {Stop})
        /\ Len(tasks \o t) = Len(tasks) + k
        /\ DOMAIN (tasks \o t) = 1..(Len(tasks) + k)
        /\ \A i \in 1..Len(tasks) : (tasks \o t)[i] = tasks[i]
        /\ \A i \in 1..k : (tasks \o t)[Len(tasks) + i] = t[i]
    BY <1>8, <1>10, Joined
  <1>12. s + k \in 0..MaxFiles
    BY <1>1, <1>3, <1>5
  <1>13. /\ sent'[cur] = s + k /\ sent' \in [Jobs -> 0..MaxFiles]
         /\ \A j \in Jobs \ {cur} : sent'[j] = sent[j]
    BY <1>1, <1>4, <1>12 DEF TypeOK
  <1>11. /\ sent'[cur] <= row[cur].total /\ unfinished' = unfinished + k
         /\ tasks' \in Seq(Task \cup {Stop}) /\ Len(tasks') <= QueueCap
         /\ Len(tasks) \in Nat /\ Len(tasks') = Len(tasks) + k
         /\ DOMAIN tasks = 1..Len(tasks) /\ DOMAIN tasks' = 1..(Len(tasks) + k)
         /\ \A i \in 1..Len(tasks) : tasks'[i] = tasks[i]
         /\ \A i \in 1..k : tasks'[Len(tasks) + i] = [job |-> cur, file |-> s + i]
    BY <1>3, <1>4, <1>5, <1>6, <1>9, <1>13
  <1>. QED
    BY <1>1, <1>7, <1>10, <1>11, <1>13

(* The result that is read first.                                          *)
LEMMA HeadType ==
  ASSUME TypeOK, results # <<>>
  PROVE  /\ Head(results) = results[1] /\ Head(results) \in Result
         /\ Head(results).task \in Task /\ Head(results).success \in BOOLEAN
         /\ results' = Tail(results) => results' \in Seq(Result)
  <1>1. results \in Seq(Result)
    BY DEF TypeOK
  <1>2. /\ Head(results) = results[1] /\ Head(results) \in Result
        /\ Tail(results) \in Seq(Result)
    BY <1>1, HeadAndTail
  <1>. QED
    BY <1>2 DEF Result

(* The columns of the jobs table. *)
Rows == [Jobs -> [status : {"pending", "running"} \cup Ended, total : 0..MaxFiles]]

(* What complete_job makes of the jobs table.                              *)
LEMMA CompleteJobType ==
  ASSUME NEW r \in Rows, NEW j \in Jobs, NEW error \in BOOLEAN
  PROVE  /\ CompleteJob(j, error, r) \in Rows
         /\ CompleteJob(j, error, r)[j].status = (IF error THEN "failed" ELSE "completed")
         /\ \A i \in Jobs : CompleteJob(j, error, r)[i].total = r[i].total
         /\ \A i \in Jobs \ {j} : CompleteJob(j, error, r)[i] = r[i]
  BY DEF CompleteJob, Rows, Ended

(* What the exception handler makes of it, and that its failures are       *)
(* bounded.                                                                *)
LEMMA ExceptType ==
  ASSUME TypeOK, NEW r \in Rows, NEW j \in Jobs, NEW raised \in {0, 1}, Except(j, r, raised)
  PROVE  /\ row' \in Rows /\ row'[j].status \in {"failed", r[j].status}
         /\ \A i \in Jobs : row'[i].total = r[i].total
         /\ \A i \in Jobs \ {j} : row'[i] = r[i]
         /\ excepted' = excepted \cup {j}
         /\ errors' \in 0..MaxErrors /\ excepted' \in SUBSET Jobs
  <1>1. excepted' = excepted \cup {j} /\ excepted' \in SUBSET Jobs
    BY DEF Except, TypeOK
  <1>2. errors' \in 0..MaxErrors
    <2>1. errors \in Nat /\ MaxErrors \in Nat /\ errors' <= MaxErrors
      BY JobExecutionAssumption DEF Except, TypeOK
    <2>2. errors' = errors + raised \/ errors' = errors + 1
      BY DEF Except
    <2>. QED
      BY <2>1, <2>2
  <1>3. CASE row' = CompleteJob(j, TRUE, r)
    <2>1. /\ CompleteJob(j, TRUE, r) \in Rows
          /\ CompleteJob(j, TRUE, r)[j].status = "failed"
          /\ \A i \in Jobs : CompleteJob(j, TRUE, r)[i].total = r[i].total
          /\ \A i \in Jobs \ {j} : CompleteJob(j, TRUE, r)[i] = r[i]
      BY CompleteJobType
    <2>. QED
      BY <1>1, <1>2, <1>3, <2>1
  <1>4. CASE row' = r
    BY <1>1, <1>2, <1>4
  <1>. QED
    BY <1>3, <1>4 DEF Except

(* The table as start_job and the count of the files leave it.             *)
LEMMA StartedType ==
  ASSUME row \in Rows, NEW j \in Jobs, NEW n \in 0..MaxFiles
  PROVE  /\ Started(j, n) \in Rows
         /\ Started(j, n)[j].status = "running" /\ Started(j, n)[j].total = n
         /\ \A i \in Jobs \ {j} : Started(j, n)[i] = row[i]
  <1>. DEFINE s == [row EXCEPT ![j].status = "running"]
  <1>1. /\ s \in Rows /\ s[j].status = "running" /\ \A i \in Jobs \ {j} : s[i] = row[i]
    BY DEF Rows
  <1>2. Started(j, n) = [s EXCEPT ![j].total = n]
    BY <1>1 DEF Started, Rows
  <1>. HIDE DEF s
  <1>. QED
    BY <1>1, <1>2 DEF Rows

(* A result is counted.                                                    *)
LEMMA CountResultType ==
  ASSUME TypeOK, Control, CountResult
  PROVE  /\ cur \in Jobs /\ epc = "collect" /\ row[cur].status = "running"
         /\ processed \in Nat /\ processed' = processed + 1 /\ failed' \in BOOLEAN
         /\ processed' <= row[cur].total /\ row[cur].total \in 0..MaxFiles
         /\ sent[cur] = row[cur].total /\ cur \notin excepted
         /\ results' \in Seq(Result) /\ collected' \in [Jobs -> SUBSET Task]
         /\ \A j \in Jobs \ {cur} : collected'[j] = collected[j]
  <1>1. /\ cur \in Jobs /\ epc = "collect" /\ row[cur].status = "running"
        /\ processed < row[cur].total /\ sent[cur] = row[cur].total /\ cur \notin excepted
        /\ row[cur].total \in 0..MaxFiles /\ processed \in Nat /\ processed' = processed + 1
    BY DEF CountResult, Control, TypeOK
  <1>2. processed' <= row[cur].total
    BY <1>1, StopIsNoTask
  <1>3. results' \in Seq(Result) /\ collected' \in [Jobs -> SUBSET Task] /\ failed' \in BOOLEAN
        /\ \A j \in Jobs \ {cur} : collected'[j] = collected[j]
    BY <1>1, HeadType DEF TypeOK, CountResult
  <1>. QED
    BY <1>1, <1>2, <1>3

(* What becomes of the job when one of its results has been counted, or    *)
(* when it ends without.                                                   *)
Ends(j) ==
  /\ row' \in Rows
  /\ \A i \in Jobs : row'[i].total = row[i].total
  /\ \A i \in Jobs \ {j} : row'[i] = row[i]
  /\ row'[j].status # "pending"
  /\ row'[j].status \in Ended =>
       (row'[j].status = "failed" <=> j \in excepted' \/ failed')
  /\ errors' \in 0..MaxErrors
  /\ excepted' \in SUBSET Jobs /\ excepted' \ {j} = excepted \ {j}
  /\ owed' \in Nat /\ owed <= owed'
  /\ owed' = owed + (IF epc' = "idle" THEN sent[j] - processed' ELSE 0)

(* Collect, with and without an error.                                     *)
LEMMA CollectedRow ==
  ASSUME TypeOK, Control, Collect \/ CollectFails
  PROVE  /\ CountResult /\ Ends(cur) /\ epc' \in {"idle", "collect"}
         /\ epc' = "collect" => /\ row'[cur].status = "running" /\ excepted' = excepted
                                /\ processed' < row[cur].total
         /\ UNCHANGED <<poolVars, tasks, unfinished, outcome, stopVars, cur, sent>>
  <1>0. CountResult /\ UNCHANGED <<poolVars, tasks, unfinished, outcome, stopVars, cur, sent>>
    BY DEF Collect, CollectFails
  <1>1. /\ cur \in Jobs /\ row[cur].status = "running" /\ row \in Rows
        /\ processed' \in Nat /\ failed' \in BOOLEAN /\ processed' <= row[cur].total
        /\ sent[cur] = row[cur].total /\ cur \notin excepted
        /\ row[cur].total \in Nat /\ owed \in Nat
        /\ errors \in 0..MaxErrors /\ excepted \in SUBSET Jobs
    BY <1>0, CountResultType, StopIsNoTask DEF TypeOK, Rows
  <1>2. CASE CollectFails
    <2>1. Except(cur, row, 1) /\ epc' = "idle" /\ owed' = owed + (sent[cur] - processed')
      BY <1>2 DEF CollectFails, LeaveEarly
    <2>2. /\ row' \in Rows /\ row'[cur].status \in {"failed", "running"}
          /\ \A i \in Jobs : row'[i].total = row[i].total
          /\ \A i \in Jobs \ {cur} : row'[i] = row[i]
          /\ excepted' = excepted \cup {cur}
          /\ errors' \in 0..MaxErrors /\ excepted' \in SUBSET Jobs
      BY <1>1, <2>1, ExceptType
    <2>3. owed' \in Nat /\ owed <= owed'
      BY <1>1, <2>1
    <2>4. excepted' \ {cur} = excepted \ {cur} /\ cur \in excepted'
      BY <2>2
    <2>5. row'[cur].status # "pending" /\ (row'[cur].status \in Ended => row'[cur].status = "failed")
      BY <2>2 DEF Ended
    <2>. QED
      BY <1>0, <2>1, <2>2, <2>3, <2>4, <2>5 DEF Ends
  <1>3. CASE Collect /\ IsLast
    <2>1. /\ row' = CompleteJob(cur, failed', row) /\ epc' = "idle"
          /\ errors' = errors /\ owed' = owed /\ excepted' = excepted /\ processed' = row[cur].total
      BY <1>3 DEF Collect, IsLast
    <2>2. /\ row' \in Rows /\ row'[cur].status = (IF failed' THEN "failed" ELSE "completed")
          /\ \A i \in Jobs : row'[i].total = row[i].total
          /\ \A i \in Jobs \ {cur} : row'[i] = row[i]
      BY <1>1, <2>1, CompleteJobType
    <2>3. owed' = owed + (sent[cur] - processed') /\ owed <= owed'
      BY <1>1, <2>1
    <2>. QED
      BY <1>0, <1>1, <2>1, <2>2, <2>3 DEF Ends
  <1>4. CASE Collect /\ ~IsLast
    <2>1. /\ row' = row /\ epc' = "collect"
          /\ errors' = errors /\ owed' = owed /\ excepted' = excepted /\ processed' # row[cur].total
      BY <1>4 DEF Collect, IsLast
    <2>2. processed' < row[cur].total /\ owed' = owed + 0 /\ owed <= owed'
      BY <1>1, <2>1
    <2>. QED
      BY <1>0, <1>1, <2>1, <2>2 DEF Ends, Ended
  <1>. QED
    BY <1>2, <1>3, <1>4

(* A timeout, or an interrupt.                                             *)
LEMMA LeftRow ==
  ASSUME TypeOK, Control, CollectTimeout \/ Interrupt
  PROVE  /\ Ends(cur) /\ epc # "idle" /\ epc' = "idle" /\ cur \in Jobs
         /\ UNCHANGED <<poolVars, tasks, unfinished, results, outcome, stopVars, cur, sent,
                        processed, failed, collected>>
  <1>1. /\ epc # "idle" /\ LeaveEarly(processed)
        /\ UNCHANGED <<poolVars, tasks, unfinished, results, outcome, stopVars, cur, sent,
                       processed, failed, collected>>
    BY DEF CollectTimeout, Interrupt
  <1>2. /\ cur \in Jobs /\ row[cur].status = "running" /\ row \in Rows /\ failed \in BOOLEAN
        /\ cur \notin excepted /\ errors \in 0..MaxErrors /\ excepted \in SUBSET Jobs
        /\ epc \in {"submit", "collect"}
    BY <1>1 DEF TypeOK, Control, Rows
  <1>3. sent[cur] - processed \in Nat
    BY <1>2, StopIsNoTask DEF TypeOK, Control
  <1>4. owed \in Nat /\ owed' = owed + (sent[cur] - processed') /\ epc' = "idle"
    BY <1>1 DEF LeaveEarly, TypeOK
  <1>5. owed' \in Nat /\ owed <= owed'
    BY <1>1, <1>3, <1>4
  <1>6. CASE Interrupt
    BY <1>1, <1>2, <1>4, <1>5, <1>6 DEF Interrupt, Ends, Ended
  <1>7. CASE row' = CompleteJob(cur, failed, row) /\ UNCHANGED <<errors, excepted>>
    <2>1. /\ row' \in Rows /\ row'[cur].status = (IF failed THEN "failed" ELSE "completed")
          /\ \A i \in Jobs : row'[i].total = row[i].total
          /\ \A i \in Jobs \ {cur} : row'[i] = row[i]
      BY <1>2, <1>7, CompleteJobType
    <2>. QED
      BY <1>1, <1>2, <1>4, <1>5, <1>7, <2>1 DEF Ends
  <1>8. CASE Except(cur, row, 1)
    <2>1. /\ row' \in Rows /\ row'[cur].status \in {"failed", "running"}
          /\ \A i \in Jobs : row'[i].total = row[i].total
          /\ \A i \in Jobs \ {cur} : row'[i] = row[i]
          /\ excepted' = excepted \cup {cur}
          /\ errors' \in 0..MaxErrors /\ excepted' \in SUBSET Jobs
      BY <1>2, <1>8, ExceptType
    <2>2. excepted' \ {cur} = excepted \ {cur} /\ cur \in excepted'
      BY <2>1
    <2>3. row'[cur].status # "pending" /\ (row'[cur].status \in Ended => row'[cur].status = "failed")
      BY <2>1 DEF Ended
    <2>. QED
      BY <1>1, <1>2, <1>4, <1>5, <2>1, <2>2, <2>3 DEF Ends
  <1>. QED
    BY <1>6, <1>7, <1>8 DEF CollectTimeout

(* A job that ends before anything is submitted.                           *)
LEMMA NothingRow ==
  ASSUME TypeOK, Control, NEW j \in Jobs, ExecuteNothing(j)
  PROVE  /\ row[j].status = "pending" /\ epc = "idle"
         /\ row' \in Rows /\ row'[j].status # "pending"
         /\ \A i \in Jobs \ {j} : row'[i] = row[i]
         /\ errors' \in 0..MaxErrors
         /\ excepted' \in SUBSET Jobs /\ excepted' \ {j} = excepted \ {j}
         /\ UNCHANGED <<poolVars, tasks, unfinished, results, outcome, stopVars, epc, cur,
                        sent, processed, failed, collected, owed>>
  <1>1. /\ row[j].status = "pending" /\ epc = "idle"
        /\ UNCHANGED <<poolVars, tasks, unfinished, results, outcome, stopVars, epc, cur,
                       sent, processed, failed, collected, owed>>
    BY DEF ExecuteNothing
  <1>2. row \in Rows /\ 0 \in 0..MaxFiles /\ errors \in 0..MaxErrors /\ excepted \in SUBSET Jobs
    BY StopIsNoTask DEF TypeOK, Rows
  <1>3. /\ Started(j, 0) \in Rows /\ Started(j, 0)[j].status = "running"
        /\ \A i \in Jobs \ {j} : Started(j, 0)[i] = row[i]
    BY <1>2, StartedType
  <1>4. CASE row' = CompleteJob(j, FALSE, Started(j, 0)) /\ UNCHANGED <<errors, excepted>>
    <2>. DEFINE r == Started(j, 0)
    <2>2. /\ CompleteJob(j, FALSE, r) \in Rows
          /\ CompleteJob(j, FALSE, r)[j].status = "completed"
          /\ \A i \in Jobs \ {j} : CompleteJob(j, FALSE, r)[i] = r[i]
      BY <1>3, CompleteJobType
    <2>1. /\ row' \in Rows /\ row'[j].status = "completed"
          /\ \A i \in Jobs \ {j} : row'[i] = row[i]
      BY <1>3, <1>4, <2>2
    <2>. QED
      BY <1>1, <1>2, <1>4, <2>1
  <1>5. CASE \E raised \in {0, 1} : Except(j, Started(j, 0), raised)
    <2>1. /\ row' \in Rows /\ row'[j].status \in {"failed", "running"}
          /\ \A i \in Jobs \ {j} : row'[i] = row[i]
          /\ excepted' = excepted \cup {j}
          /\ errors' \in 0..MaxErrors /\ excepted' \in SUBSET Jobs
      BY <1>3, <1>5, ExceptType
    <2>. QED
      BY <1>1, <2>1
  <1>. QED
    BY <1>1, <1>4, <1>5 DEF ExecuteNothing

(* A job whose files are going to be submitted.                            *)
LEMMA BegunRow ==
  ASSUME TypeOK, NEW j \in Jobs, NEW n \in FileCounts[j], ExecuteJob(j, n)
  PROVE  /\ row[j].status = "pending" /\ epc = "idle" /\ n \in 1..MaxFiles
         /\ row' \in Rows /\ row'[j].status = "running" /\ row'[j].total = n
         /\ \A i \in Jobs \ {j} : row'[i] = row[i]
         /\ epc' = "submit" /\ cur' = j /\ processed' = 0 /\ failed' = FALSE
         /\ UNCHANGED <<poolVars, tasks, unfinished, results, outcome, stopVars, sent, errors,
                        collected, owed, excepted>>
  <1>1. n \in 1..MaxFiles /\ n \in 0..MaxFiles
    BY JobExecutionAssumption
  <1>2. row \in Rows
    BY DEF TypeOK, Rows
  <1>3. row' = Started(j, n)
    BY DEF ExecuteJob
  <1>. QED
    BY <1>1, <1>2, <1>3, StartedType DEF ExecuteJob

(* Types and the control of the job at hand, step by step. *)
LEMMA TypeInit == Init => TypeOK /\ Control
  <1>. SUFFICES ASSUME Init PROVE TypeOK /\ Control
    OBVIOUS
  <1>1. tasks \in Seq(Task \cup {Stop}) /\ Len(tasks) <= QueueCap /\ results \in Seq(Result)
    BY StopIsNoTask, EmptySeq DEF Init
  <1>2. row \in Rows
    BY StopIsNoTask DEF Init, Rows
  <1>9. wpc \in [Workers -> {"off", "get", "work"}]
    BY DEF Init
  <1>3. wtask \in [Workers -> Task \cup {Stop}] /\ outcome \in [Task -> Outcome \cup {"none"}]
    BY DEF Init
  <1>4. /\ starts \in Nat /\ unfinished \in Int
        /\ spc \in {"none", "putting", "joining"}
        /\ signals \in Nat /\ epc \in {"idle", "submit", "collect"}
        /\ cur \in Jobs \cup {NoJob} /\ processed \in Nat
    BY DEF Init
  <1>7. sent \in [Jobs -> 0..MaxFiles] /\ errors \in 0..MaxErrors /\ owed \in Nat
    BY StopIsNoTask, JobExecutionAssumption DEF Init
  <1>10. running \in BOOLEAN /\ failed \in BOOLEAN
    BY DEF Init
  <1>5. collected \in [Jobs -> SUBSET Task] /\ lost \in SUBSET Task /\ excepted \in SUBSET Jobs
    BY DEF Init
  <1>6. TypeOK
    BY <1>1, <1>2, <1>3, <1>4, <1>5, <1>7, <1>9, <1>10
    DEF TypeOK, Rows
  <1>. QED
    BY <1>6, StopIsNoTask DEF Init, Control

(* The actions keep the types and what the places of executor and pool     *)
(* say: start().                                                           *)
LEMMA StartPoolType == ASSUME TypeOK, Control, StartPool PROVE TypeOK' /\ Control'
  BY DEF StartPool, TypeOK, Control, stopVars, jobVars, Ended

(* A worker takes a task or a stop signal.                                 *)
LEMMA TakeType ==
  ASSUME TypeOK, Control, NEW w \in Workers, Take(w) PROVE TypeOK' /\ Control'
  <1>1. /\ Head(tasks) \in Task \cup {Stop} /\ tasks' \in Seq(Task \cup {Stop})
        /\ Len(tasks') = Len(tasks) - 1 /\ Len(tasks) \in Nat
    BY HeadAndTail DEF TypeOK, Take
  <1>2. Len(tasks') <= QueueCap
    BY <1>1, StopIsNoTask DEF TypeOK
  <1>3. wtask' \in [Workers -> Task \cup {Stop}] /\ wpc' \in [Workers -> {"off", "get", "work"}]
    BY <1>1 DEF TypeOK, Take
  <1>4. TypeOK'
    BY <1>1, <1>2, <1>3 DEF TypeOK, Take, stopVars, jobVars, Ended
  <1>5. \A v \in Workers : wpc'[v] = "work" => wtask'[v] \in Task
    BY <1>1 DEF TypeOK, Take, Control
  <1>6. running \/ spc # "none"
    BY DEF Control, Take
  <1>. QED
    BY <1>4, <1>5, <1>6 DEF Control, Take, stopVars, jobVars

(* A worker delivers a result.                                             *)
LEMMA DeliverType ==
  ASSUME TypeOK, Control, NEW w \in Workers, Deliver(w) PROVE TypeOK' /\ Control'
  <1>1. wtask[w] \in Task /\ wpc[w] = "work"
    BY DEF Control, Deliver
  <1>2. PICK o \in Outcome :
          /\ outcome' = [outcome EXCEPT ![wtask[w]] = o]
          /\ results' = Append(results, [task |-> wtask[w], success |-> o # "raised"])
    BY DEF Deliver
  <1>3. results' \in Seq(Result)
    <2>1. [task |-> wtask[w], success |-> o # "raised"] \in Result
      BY <1>1 DEF Result
    <2>. QED
      BY <1>2, <2>1, AtTheEnd DEF TypeOK
  <1>4. outcome' \in [Task -> Outcome \cup {"none"}]
    BY <1>2 DEF TypeOK
  <1>7. /\ wtask' \in [Workers -> Task \cup {Stop}] /\ wpc' \in [Workers -> {"off", "get", "work"}]
        /\ \A v \in Workers : wpc'[v] = "work" => wpc[v] = "work" /\ wtask'[v] = wtask[v]
    BY DEF TypeOK, Deliver
  <1>5. TypeOK'
    BY <1>3, <1>4, <1>7 DEF TypeOK, Deliver, stopVars, jobVars, Ended
  <1>6. running \/ spc # "none"
    BY <1>1 DEF Control
  <1>. QED
    BY <1>5, <1>6, <1>7 DEF TypeOK, Control, Deliver, stopVars, jobVars

(* stop() begins.                                                          *)
LEMMA StopPoolType == ASSUME TypeOK, Control, StopPool PROVE TypeOK' /\ Control'
  <1>1. Cardinality(Workers) \in Nat /\ PutSignals(Cardinality(Workers))
    BY StopIsNoTask, FS_CardinalityType DEF StopPool
  <1>. QED
    BY <1>1, SignalsType DEF TypeOK, Control, StopPool, jobVars, Ended

(* stop() puts the signals for which there was no room.                    *)
LEMMA StopPutType == ASSUME TypeOK, Control, StopPut PROVE TypeOK' /\ Control'
  <1>1. signals \in Nat /\ PutSignals(signals)
    BY DEF StopPut, TypeOK
  <1>. QED
    BY <1>1, SignalsType DEF TypeOK, Control, StopPut, poolVars, jobVars, Ended

(* The workers of a pool that stops have all returned.                     *)
LEMMA StopJoinType == ASSUME TypeOK, Control, StopJoin PROVE TypeOK' /\ Control'
  BY DEF TypeOK, Control, StopJoin, poolVars, jobVars, Ended

(* The workers are cancelled, and what they had is lost.                   *)
LEMMA StopTimeoutType == ASSUME TypeOK, Control, StopTimeout PROVE TypeOK' /\ Control'
  <1>1. lost' \in SUBSET Task
    BY DEF TypeOK, Control, StopTimeout
  <1>2. wtask' \in [Workers -> Task \cup {Stop}]
    BY DEF StopTimeout
  <1>. QED
    BY <1>1, <1>2 DEF TypeOK, Control, StopTimeout, jobVars, Ended

(* execute_job of a job without files.                                     *)
LEMMA ExecuteNothingType ==
  ASSUME TypeOK, Control, NEW j \in Jobs, ExecuteNothing(j) PROVE TypeOK' /\ Control'
  <1>1. TypeOK'
    BY NothingRow DEF TypeOK, poolVars, stopVars, Rows
  <1>2. /\ \A i \in Jobs : row'[i].status = "pending" => i # j /\ row[i].status = "pending"
        /\ \A i \in Jobs \ {j} : i \in excepted' <=> i \in excepted
        /\ cur \in Jobs => cur # j
    BY NothingRow DEF Control
  <1>3. cur' \in Jobs => row'[cur'].status # "pending"
    BY <1>2, NothingRow DEF Control
  <1>4. \A i \in Jobs : row'[i].status = "pending" =>
          sent'[i] = 0 /\ collected'[i] = {} /\ i \notin excepted'
    BY <1>2, NothingRow DEF Control
  <1>. QED
    BY <1>1, <1>3, <1>4, NothingRow DEF Control, poolVars, stopVars

(* execute_job begins.                                                     *)
LEMMA ExecuteJobType ==
  ASSUME TypeOK, Control, NEW j \in Jobs, NEW n \in FileCounts[j], ExecuteJob(j, n)
  PROVE  TypeOK' /\ Control'
  <1>0. /\ row[j].status = "pending" /\ n \in 1..MaxFiles
        /\ row' \in Rows /\ row'[j].status = "running" /\ row'[j].total = n
        /\ \A i \in Jobs \ {j} : row'[i] = row[i]
        /\ epc' = "submit" /\ cur' = j /\ processed' = 0 /\ failed' = FALSE
        /\ UNCHANGED <<poolVars, tasks, unfinished, results, outcome, stopVars, sent, errors,
                       collected, owed, excepted>>
    BY BegunRow
  <1>1. TypeOK'
    BY <1>0 DEF TypeOK, poolVars, stopVars, Rows
  <1>2. n \in Nat /\ 0 < n
    BY <1>0, StopIsNoTask
  <1>3. sent'[j] = 0 /\ j \notin excepted'
    BY <1>0 DEF Control
  <1>4. \A i \in Jobs : row'[i].status = "pending" =>
          sent'[i] = 0 /\ collected'[i] = {} /\ i \notin excepted'
    BY <1>0 DEF Control
  <1>5. processed' < row'[cur'].total /\ sent'[cur'] <= row'[cur'].total
    BY <1>0, <1>2, <1>3
  <1>. QED
    BY <1>0, <1>1, <1>3, <1>4, <1>5 DEF Control, poolVars, stopVars

(* Files are submitted.                                                    *)
LEMMA SubmitKeepsType == ASSUME TypeOK, Control, Submit PROVE TypeOK' /\ Control'
  <1>1. /\ tasks' \in Seq(Task \cup {Stop}) /\ Len(tasks') <= QueueCap
        /\ sent' \in [Jobs -> 0..MaxFiles] /\ sent'[cur] <= row[cur].total
        /\ \A j \in Jobs \ {cur} : sent'[j] = sent[j]
        /\ unfinished' \in Int /\ cur \in Jobs
    BY SubmitType DEF TypeOK
  <1>2. /\ epc = "submit" /\ epc' \in {"submit", "collect"}
        /\ epc' = "collect" => sent'[cur] = row[cur].total
        /\ UNCHANGED <<poolVars, results, outcome, stopVars, cur, processed, failed, row, errors,
                       collected, owed, excepted>>
    BY DEF Submit
  <1>3. TypeOK'
    BY <1>1, <1>2 DEF TypeOK, poolVars, stopVars, Ended
  <1>4. \A j \in Jobs : row[j].status = "pending" => j # cur
    BY <1>2 DEF Control
  <1>. QED
    BY <1>1, <1>2, <1>3, <1>4 DEF Control, poolVars, stopVars

(* A result is counted, and the job may have ended.                        *)
LEMMA CollectType ==
  ASSUME TypeOK, Control, Collect \/ CollectFails PROVE TypeOK' /\ Control'
  <1>1. /\ Ends(cur) /\ epc' \in {"idle", "collect"}
        /\ epc' = "collect" => /\ row'[cur].status = "running" /\ excepted' = excepted
                               /\ processed' < row[cur].total
        /\ UNCHANGED <<poolVars, tasks, unfinished, outcome, stopVars, cur, sent>>
    BY CollectedRow
  <1>2. /\ cur \in Jobs /\ processed' \in Nat /\ failed' \in BOOLEAN
        /\ sent[cur] = row[cur].total /\ cur \notin excepted /\ sent[cur] \in Nat
        /\ results' \in Seq(Result) /\ collected' \in [Jobs -> SUBSET Task]
        /\ \A j \in Jobs \ {cur} : collected'[j] = collected[j]
    BY CollectedRow, CountResultType DEF TypeOK
  <1>3. TypeOK'
    BY <1>1, <1>2 DEF TypeOK, Ends, poolVars, stopVars, Rows
  <1>4. \A j \in Jobs : row'[j].status = "pending" =>
          sent'[j] = 0 /\ collected'[j] = {} /\ j \notin excepted'
    BY <1>1, <1>2 DEF Control, Ends
  <1>5. epc' # "idle" => /\ cur' \in Jobs /\ row'[cur'].status = "running"
                         /\ processed' < row'[cur'].total /\ sent'[cur'] <= row'[cur'].total
                         /\ cur' \notin excepted'
    BY <1>1, <1>2 DEF Ends
  <1>6. epc' = "collect" => sent'[cur'] = row'[cur'].total
    BY <1>1, <1>2 DEF Ends
  <1>7. row'[cur'].status # "pending"
    BY <1>1 DEF Ends
  <1>. QED
    BY <1>1, <1>3, <1>4, <1>5, <1>6, <1>7 DEF Control, poolVars, stopVars

(* No result came in time, or the job was interrupted.                     *)
LEMMA LeftType ==
  ASSUME TypeOK, Control, CollectTimeout \/ Interrupt PROVE TypeOK' /\ Control'
  <1>1. /\ Ends(cur) /\ epc' = "idle" /\ cur \in Jobs
        /\ UNCHANGED <<poolVars, tasks, unfinished, results, outcome, stopVars, cur, sent,
                       processed, failed, collected>>
    BY LeftRow
  <1>2. TypeOK'
    BY <1>1 DEF TypeOK, Ends, poolVars, stopVars, Rows
  <1>3. \A j \in Jobs : row'[j].status = "pending" =>
          sent'[j] = 0 /\ collected'[j] = {} /\ j \notin excepted'
    BY <1>1 DEF Control, Ends
  <1>. QED
    BY <1>1, <1>2, <1>3 DEF Control, Ends, poolVars, stopVars

-----------------------------------------------------------------------------
(* What the steps do to the places *)

(* A task moves from the queue to the worker that takes it.                *)
LEMMA TakeMoves ==
  ASSUME TypeOK, Control, Once, Apart, NEW w \in Workers, Take(w)
  PROVE  /\ Once'
         /\ Head(tasks) \in Task => /\ Queued' = Queued \ {Head(tasks)} /\ Head(tasks) \in Queued
                                    /\ AtWork' = AtWork \cup {Head(tasks)}
         /\ Head(tasks) \notin Task => Queued' = Queued /\ AtWork' = AtWork
         /\ Delivered' = Delivered /\ Counted' = Counted /\ lost' = lost
  <1>. DEFINE h == Head(tasks)
  <1>1. tasks \in Seq(Task \cup {Stop}) /\ tasks # <<>> /\ tasks' = Tail(tasks)
    BY DEF TypeOK, Take
  <1>2. /\ DOMAIN tasks = 1..Len(tasks) /\ Len(tasks) \in Nat
        /\ h = tasks[1] /\ h \in Task \cup {Stop} /\ 1 \in DOMAIN tasks
        /\ DOMAIN tasks' = 1..(Len(tasks) - 1)
        /\ \A i \in 1..(Len(tasks) - 1) :
             tasks'[i] = tasks[i + 1] /\ i + 1 \in DOMAIN tasks /\ i + 1 # 1
        /\ \A i \in DOMAIN tasks : i # 1 =>
             i - 1 \in 1..(Len(tasks) - 1) /\ tasks'[i - 1] = tasks[i]
    BY <1>1, HeadAndTail
  <1>. HIDE DEF h
  <1>3. UNCHANGED <<results, collected, lost>>
    BY DEF Take, jobVars
  <1>4. Delivered' = Delivered /\ Counted' = Counted /\ OnceDelivered' /\ OnceCounted'
    BY <1>3 DEF Delivered, Counted, OnceDelivered, OnceCounted, Once
  <1>5. OnceInQueue'
    <2>. SUFFICES ASSUME NEW i \in DOMAIN tasks', NEW k \in DOMAIN tasks',
                         tasks'[i] \in Task, tasks'[i] = tasks'[k]
                  PROVE  i = k
      BY DEF OnceInQueue
    <2>1. i + 1 = k + 1
      BY <1>2 DEF Once, OnceInQueue
    <2>. QED
      BY <1>2, <2>1
  <1>6. ASSUME NEW t \in Task
        PROVE  (t \in Queued' <=> t \in Queued /\ t # h) /\ (t = h => t \in Queued)
    <2>1. t \in Queued' => t \in Queued /\ t # h
      BY <1>2 DEF Queued, Once, OnceInQueue
    <2>2. t \in Queued /\ t # h => t \in Queued'
      BY <1>2 DEF Queued
    <2>3. t = h => t \in Queued
      BY <1>2 DEF Queued
    <2>. QED
      BY <2>1, <2>2, <2>3
  <1>7. wpc[w] = "get" /\ wtask' = [wtask EXCEPT ![w] = h]
        /\ wpc' = [wpc EXCEPT ![w] = IF h = Stop THEN "off" ELSE "work"]
    BY DEF Take, h
  <1>8. \A v \in Workers \ {w} : wpc'[v] = wpc[v] /\ wtask'[v] = wtask[v]
    BY <1>7 DEF TypeOK
  <1>9. wtask'[w] = h /\ (wpc'[w] = "work" <=> h # Stop)
    BY <1>7 DEF TypeOK
  <1>10. (h # Stop <=> h \in Task)
    BY <1>2, StopIsNoTask
  <1>11. \A t \in Task : t \in AtWork' <=> t \in AtWork \/ t = h
    BY <1>7, <1>8, <1>9, <1>10 DEF AtWork
  <1>12. h \in Task => Queued' = Queued \ {h} /\ h \in Queued /\ AtWork' = AtWork \cup {h}
    BY <1>6, <1>11 DEF Queued, AtWork
  <1>13. h \notin Task => Queued' = Queued /\ AtWork' = AtWork
    BY <1>6, <1>11 DEF Queued, AtWork
  <1>14. OnceAtWork'
    <2>1. h \in Task => h \notin AtWork
      BY <1>12 DEF Apart
    <2>2. \A v \in Workers : wpc[v] = "work" /\ wtask[v] = h => h \notin Task
      BY <2>1 DEF AtWork
    <2>. QED
      BY <1>8, <1>9, <1>10, <2>2 DEF Once, OnceAtWork
  <1>. QED
    BY <1>3, <1>4, <1>5, <1>12, <1>13, <1>14 DEF h, Once

(* It moves from the worker to the results.                                *)
LEMMA DeliverMoves ==
  ASSUME TypeOK, Control, Once, Apart, NEW w \in Workers, Deliver(w)
  PROVE  /\ Once' /\ wtask[w] \in Task
         /\ AtWork' = AtWork \ {wtask[w]} /\ wtask[w] \in AtWork
         /\ Delivered' = Delivered \cup {wtask[w]}
         /\ Queued' = Queued /\ Counted' = Counted /\ lost' = lost
  <1>. DEFINE h == wtask[w]
  <1>1. h \in Task /\ wpc[w] = "work" /\ h \in AtWork
    BY DEF Control, Deliver, AtWork
  <1>2. PICK o \in Outcome : results' = Append(results, [task |-> h, success |-> o # "raised"])
    BY DEF Deliver
  <1>. DEFINE r == [task |-> h, success |-> o # "raised"]
  <1>3. r \in Result /\ r.task = h
    BY <1>1 DEF Result
  <1>4. results \in Seq(Result) /\ results' = Append(results, r)
    BY <1>2 DEF TypeOK
  <1>. HIDE DEF r, h
  <1>5. /\ Len(results) \in Nat /\ DOMAIN results = 1..Len(results)
        /\ DOMAIN results' = 1..(Len(results) + 1)
        /\ \A i \in 1..Len(results) : results'[i] = results[i]
        /\ results'[Len(results) + 1] = r
    BY <1>3, <1>4, AtTheEnd
  <1>6. UNCHANGED <<tasks, collected, lost>>
    BY DEF Deliver, jobVars
  <1>7. Queued' = Queued /\ Counted' = Counted /\ OnceInQueue' /\ OnceCounted'
    BY <1>6 DEF Queued, Counted, OnceInQueue, OnceCounted, Once
  <1>8. h \notin Delivered
    BY <1>1 DEF Apart
  <1>9. \A i \in DOMAIN results : results[i].task # h
    BY <1>1, <1>8 DEF Delivered
  <1>10. DOMAIN results' = DOMAIN results \cup {Len(results) + 1}
         /\ Len(results) + 1 \notin DOMAIN results
    BY <1>5
  <1>11. OnceDelivered'
    BY <1>3, <1>5, <1>9, <1>10 DEF Once, OnceDelivered
  <1>12. \A t \in Task : t \in Delivered' <=> t \in Delivered \/ t = h
    BY <1>3, <1>5, <1>10 DEF Delivered
  <1>13. Delivered' = Delivered \cup {h}
    BY <1>1, <1>12 DEF Delivered
  <1>14. /\ \A v \in Workers \ {w} : wpc'[v] = wpc[v] /\ wtask'[v] = wtask[v]
         /\ wpc'[w] # "work"
    BY DEF TypeOK, Deliver
  <1>15. \A t \in Task : t \in AtWork' <=> t \in AtWork /\ t # h
    <2>1. \A v \in Workers \ {w} : wpc[v] = "work" => wtask[v] # h
      BY <1>1 DEF Once, OnceAtWork, h
    <2>. QED
      BY <1>14, <2>1 DEF AtWork, h
  <1>16. AtWork' = AtWork \ {h}
    BY <1>15 DEF AtWork
  <1>17. OnceAtWork'
    BY <1>14 DEF Once, OnceAtWork
  <1>. QED
    BY <1>1, <1>6, <1>7, <1>11, <1>13, <1>16, <1>17 DEF Once, h

(* A result moves to those counted for the current job.                    *)
LEMMA CollectMoves ==
  ASSUME TypeOK, Control, Once, Apart, CountResult, UNCHANGED <<poolVars, tasks>>
  PROVE  /\ Once' /\ Head(results).task \in Task
         /\ Delivered' = Delivered \ {Head(results).task} /\ Head(results).task \in Delivered
         /\ Counted' = Counted \cup {Head(results).task}
         /\ Queued' = Queued /\ AtWork' = AtWork /\ lost' = lost
         /\ collected'[cur] = collected[cur] \cup {Head(results).task}
         /\ \A j \in Jobs \ {cur} : collected'[j] = collected[j]
         /\ cur \in Jobs
  <1>. DEFINE h == Head(results).task
  <1>1. results \in Seq(Result) /\ results # <<>> /\ results' = Tail(results) /\ cur \in Jobs
    BY CountResultType DEF TypeOK, CountResult
  <1>2. h \in Task /\ h = results[1].task
    BY <1>1, HeadType
  <1>3. /\ DOMAIN results = 1..Len(results) /\ Len(results) \in Nat /\ 1 \in DOMAIN results
        /\ DOMAIN results' = 1..(Len(results) - 1)
        /\ \A i \in 1..(Len(results) - 1) :
             results'[i] = results[i + 1] /\ i + 1 \in DOMAIN results /\ i + 1 # 1
        /\ \A i \in DOMAIN results : i # 1 =>
             i - 1 \in 1..(Len(results) - 1) /\ results'[i - 1] = results[i]
    BY <1>1, HeadAndTail
  <1>4. /\ UNCHANGED <<tasks, wpc, wtask, lost>>
        /\ collected' = [collected EXCEPT ![cur] = @ \cup {h}]
    BY DEF CountResult, poolVars
  <1>. HIDE DEF h
  <1>5. Queued' = Queued /\ AtWork' = AtWork /\ OnceInQueue' /\ OnceAtWork'
    BY <1>4 DEF Queued, AtWork, OnceInQueue, OnceAtWork, Once
  <1>6. /\ collected'[cur] = collected[cur] \cup {h}
        /\ \A j \in Jobs \ {cur} : collected'[j] = collected[j]
    BY <1>1, <1>4 DEF TypeOK
  <1>7. OnceDelivered'
    <2>. SUFFICES ASSUME NEW i \in DOMAIN results', NEW k \in DOMAIN results',
                         results'[i].task = results'[k].task
                  PROVE  i = k
      BY DEF OnceDelivered
    <2>1. i + 1 = k + 1
      BY <1>3 DEF Once, OnceDelivered
    <2>. QED
      BY <1>3, <2>1
  <1>8. h \in Delivered
    BY <1>2, <1>3 DEF Delivered
  <1>9. ASSUME NEW t \in Task PROVE t \in Delivered' <=> t \in Delivered /\ t # h
    <2>1. t \in Delivered' => t \in Delivered /\ t # h
      BY <1>2, <1>3 DEF Delivered, Once, OnceDelivered
    <2>2. t \in Delivered /\ t # h => t \in Delivered'
      BY <1>2, <1>3 DEF Delivered
    <2>. QED
      BY <2>1, <2>2
  <1>10. Delivered' = Delivered \ {h}
    BY <1>9 DEF Delivered
  <1>11. \A t \in Task : t \in Counted' <=> t \in Counted \/ t = h
    BY <1>1, <1>6 DEF Counted
  <1>12. Counted' = Counted \cup {h}
    BY <1>2, <1>11 DEF Counted
  <1>13. \A j \in Jobs : h \notin collected[j]
    BY <1>2, <1>8 DEF Apart, Counted
  <1>14. OnceCounted'
    BY <1>6, <1>13 DEF Once, OnceCounted
  <1>. QED
    BY <1>1, <1>2, <1>4, <1>5, <1>6, <1>7, <1>8, <1>10, <1>12, <1>14 DEF Once, h

(* The tasks that a job with so many submitted files gets next. *)
NextFiles(n) == {t \in Task : t.job = cur /\ t.file > sent[cur] /\ t.file <= n}

(* Tasks that are nowhere yet move to the queue.                           *)
LEMMA SubmitMoves ==
  ASSUME TypeOK, Control, Once, Apart, Tracked, Submit
  PROVE  /\ Once'
         /\ Queued' = Queued \cup NextFiles(sent'[cur]) /\ NextFiles(sent'[cur]) \cap Placed = {}
         /\ AtWork' = AtWork /\ Delivered' = Delivered /\ Counted' = Counted /\ lost' = lost
         /\ cur \in Jobs /\ cur' = cur /\ row' = row
         /\ sent[cur] \in Nat /\ sent'[cur] \in Nat /\ sent[cur] <= sent'[cur] /\ sent'[cur] <= row[cur].total
  <1>1. PICK k \in Nat :
         /\ sent'[cur] = sent[cur] + k /\ sent'[cur] <= row[cur].total
         /\ Len(tasks) \in Nat
         /\ DOMAIN tasks = 1..Len(tasks) /\ DOMAIN tasks' = 1..(Len(tasks) + k)
         /\ \A i \in 1..Len(tasks) : tasks'[i] = tasks[i]
         /\ \A i \in 1..k : tasks'[Len(tasks) + i] = [job |-> cur, file |-> sent[cur] + i]
         /\ \A i \in 1..k : [job |-> cur, file |-> sent[cur] + i] \in Task
    BY SubmitType
  <1>2. /\ UNCHANGED <<wpc, wtask, results, collected, lost, cur, row>>
        /\ sent[cur] \in Nat /\ cur \in Jobs /\ sent'[cur] \in Nat /\ sent[cur] <= sent'[cur]
    BY <1>1 DEF Submit, poolVars, TypeOK, Control
  <1>3. /\ AtWork' = AtWork /\ Delivered' = Delivered /\ Counted' = Counted
        /\ OnceAtWork' /\ OnceDelivered' /\ OnceCounted'
    BY <1>2 DEF AtWork, Delivered, Counted, OnceAtWork, OnceDelivered, OnceCounted, Once
  <1>4. NextFiles(sent'[cur]) \cap Placed = {}
    <2>1. \A t \in NextFiles(sent'[cur]) : t.job = cur /\ ~(t.file <= sent[cur])
      BY <1>1, <1>2 DEF NextFiles, Task
    <2>. QED
      BY <2>1 DEF Tracked, Submitted
  <1>5. \A i \in DOMAIN tasks' : \/ i \in 1..Len(tasks)
                                 \/ \E m \in 1..k : i = Len(tasks) + m
    <2>. SUFFICES ASSUME NEW i \in 1..(Len(tasks) + k), i \notin 1..Len(tasks)
                  PROVE  \E m \in 1..k : i = Len(tasks) + m
      BY <1>1
    <2>1. i - Len(tasks) \in 1..k /\ i = Len(tasks) + (i - Len(tasks))
      BY <1>1
    <2>. QED
      BY <2>1
  <1>6. ASSUME NEW m \in 1..k
        PROVE  /\ tasks'[Len(tasks) + m] \in NextFiles(sent'[cur])
               /\ tasks'[Len(tasks) + m].file = sent[cur] + m
               /\ tasks'[Len(tasks) + m].job = cur
    <2>1. sent[cur] + m > sent[cur] /\ sent[cur] + m <= sent'[cur]
      BY <1>1, <1>2
    <2>2. tasks'[Len(tasks) + m] = [job |-> cur, file |-> sent[cur] + m]
          /\ [job |-> cur, file |-> sent[cur] + m] \in Task
      BY <1>1
    <2>. QED
      BY <2>1, <2>2 DEF NextFiles
  <1>7. ASSUME NEW t \in NextFiles(sent'[cur]) PROVE \E i \in DOMAIN tasks' : tasks'[i] = t
    <2>1. t \in Task /\ t.file \in Nat /\ t.file > sent[cur] /\ t.file <= sent[cur] + k /\ t.job = cur
      BY <1>1, StopIsNoTask DEF NextFiles, Task
    <2>2. PICK m \in 1..k : t.file = sent[cur] + m
      <3>1. t.file - sent[cur] \in 1..k /\ t.file = sent[cur] + (t.file - sent[cur])
        BY <1>2, <2>1
      <3>. QED
        BY <3>1
    <2>3. t = [job |-> cur, file |-> sent[cur] + m]
      BY <2>1, <2>2 DEF Task
    <2>4. Len(tasks) + m \in DOMAIN tasks'
      BY <1>1
    <2>. QED
      BY <1>1, <2>3, <2>4
  <1>8. ASSUME NEW t \in Task
        PROVE  t \in Queued' <=> t \in Queued \/ t \in NextFiles(sent'[cur])
    <2>1. t \in Queued' => t \in Queued \/ t \in NextFiles(sent'[cur])
      BY <1>1, <1>5, <1>6 DEF Queued
    <2>2. t \in Queued => t \in Queued'
      <3>1. \A i \in DOMAIN tasks : i \in DOMAIN tasks'
        BY <1>1
      <3>. QED
        BY <1>1, <3>1 DEF Queued
    <2>3. t \in NextFiles(sent'[cur]) => t \in Queued'
      BY <1>7 DEF Queued
    <2>. QED
      BY <2>1, <2>2, <2>3
  <1>9. Queued' = Queued \cup NextFiles(sent'[cur])
    BY <1>8 DEF Queued, NextFiles
  <1>10. OnceInQueue'
    <2>. SUFFICES ASSUME NEW i \in DOMAIN tasks', NEW j \in DOMAIN tasks',
                         tasks'[i] \in Task, tasks'[i] = tasks'[j]
                  PROVE  i = j
      BY DEF OnceInQueue
    <2>1. \A n \in 1..Len(tasks) : tasks'[n] \in Task => tasks'[n] \in Queued
      BY <1>1 DEF Queued
    <2>2. \A n \in 1..Len(tasks), m \in 1..k : tasks'[n] \in Task => tasks'[n] # tasks'[Len(tasks) + m]
      BY <1>4, <1>6, <2>1 DEF Placed
    <2>3. CASE i \in 1..Len(tasks) /\ j \in 1..Len(tasks)
      BY <1>1, <2>3 DEF Once, OnceInQueue
    <2>4. CASE i \notin 1..Len(tasks) /\ j \notin 1..Len(tasks)
      <3>1. PICK a \in 1..k : i = Len(tasks) + a
        BY <1>5, <2>4
      <3>2. PICK b \in 1..k : j = Len(tasks) + b
        BY <1>5, <2>4
      <3>3. sent[cur] + a = sent[cur] + b
        BY <1>6, <3>1, <3>2
      <3>. QED
        BY <1>2, <3>1, <3>2, <3>3
    <2>5. CASE i \in 1..Len(tasks) /\ j \notin 1..Len(tasks)
      BY <1>5, <2>2, <2>5
    <2>6. CASE i \notin 1..Len(tasks) /\ j \in 1..Len(tasks)
      BY <1>5, <2>2, <2>6
    <2>. QED
      BY <2>3, <2>4, <2>5, <2>6
  <1>. QED
    BY <1>1, <1>2, <1>3, <1>4, <1>9, <1>10 DEF Once


(* What is submitted with them.                                            *)
LEMMA SubmitAdds ==
  ASSUME TypeOK, Control, Tracked, Submit
  PROVE  /\ Submitted' = Submitted \cup NextFiles(sent'[cur])
         /\ NextFiles(sent'[cur]) \cap Submitted = {}
         /\ FilesOf(cur)' = FilesOf(cur) \cup NextFiles(sent'[cur])
         /\ \A j \in Jobs \ {cur} : FilesOf(j)' = FilesOf(j)
  <1>1. PICK k \in Nat :
         /\ cur \in Jobs /\ sent[cur] \in Nat
         /\ sent'[cur] = sent[cur] + k
         /\ \A j \in Jobs \ {cur} : sent'[j] = sent[j]
    BY SubmitType
  <1>2. ASSUME NEW t \in Task
        PROVE  /\ t.job \in Jobs /\ t.file \in Nat
               /\ t \in Submitted <=> t.file <= sent[t.job]
               /\ t \in Submitted' <=> t.file <= sent'[t.job]
    BY StopIsNoTask DEF Task, Submitted
  <1>3. ASSUME NEW t \in Task
        PROVE  /\ t \in NextFiles(sent'[cur]) <=>
                    t.job = cur /\ ~(t.file <= sent[cur]) /\ t.file <= sent'[cur]
               /\ t.file <= sent[cur] => t.file <= sent'[cur]
    <2>1. t.file \in Nat
      BY <1>2
    <2>2. /\ t.file <= sent[cur] => t.file <= sent'[cur]
          /\ t.file > sent[cur] <=> ~(t.file <= sent[cur])
      BY <1>1, <2>1
    <2>. QED
      BY <2>2 DEF NextFiles
  <1>4. ASSUME NEW t \in Task
        PROVE  /\ t \in Submitted' <=> t \in Submitted \/ t \in NextFiles(sent'[cur])
               /\ ~(t \in NextFiles(sent'[cur]) /\ t \in Submitted)
    BY <1>1, <1>2, <1>3
  <1>5. Submitted' = Submitted \cup NextFiles(sent'[cur]) /\ NextFiles(sent'[cur]) \cap Submitted = {}
    <2>1. Submitted \subseteq Task /\ Submitted' \subseteq Task /\ NextFiles(sent'[cur]) \subseteq Task
      BY DEF Submitted, NextFiles
    <2>. QED
      BY <1>4, <2>1
  <1>6. FilesOf(cur)' = {t \in Task : t.job = cur /\ t.file <= sent'[cur]}
    BY DEF FilesOf, Submit
  <1>7. FilesOf(cur)' = FilesOf(cur) \cup NextFiles(sent'[cur])
    BY <1>3, <1>6 DEF FilesOf, NextFiles
  <1>8. \A j \in Jobs \ {cur} : FilesOf(j)' = FilesOf(j)
    BY <1>1 DEF FilesOf
  <1>. QED
    BY <1>5, <1>7, <1>8

(* A stop signal moves no task.                                            *)
LEMMA SignalsMove ==
  ASSUME TypeOK, Once, NEW n \in Nat, PutSignals(n), UNCHANGED <<wpc, wtask, results, collected, lost>>
  PROVE  /\ Once' /\ Queued' = Queued /\ AtWork' = AtWork /\ Delivered' = Delivered
         /\ Counted' = Counted /\ lost' = lost
  <1>1. /\ \A i \in DOMAIN tasks : tasks'[i] = tasks[i] /\ i \in DOMAIN tasks'
        /\ \A i \in DOMAIN tasks' : i \notin DOMAIN tasks => tasks'[i] \notin Task
    BY SignalsType, StopIsNoTask
  <1>2. OnceInQueue'
    BY <1>1 DEF Once, OnceInQueue
  <1>3. \A t \in Task : t \in Queued' <=> t \in Queued
    BY <1>1 DEF Queued
  <1>4. Queued' = Queued
    BY <1>3 DEF Queued
  <1>. QED
    BY <1>2, <1>4
    DEF AtWork, Delivered, Counted, OnceAtWork, OnceDelivered, OnceCounted, Once

(* What the workers had is lost when they are cancelled.                   *)
LEMMA TimeoutMoves ==
  ASSUME TypeOK, Control, Once, StopTimeout
  PROVE  /\ Once' /\ AtWork' = {} /\ lost' = lost \cup AtWork
         /\ Queued' = Queued /\ Delivered' = Delivered /\ Counted' = Counted
  <1>1. /\ UNCHANGED <<tasks, results, collected>>
        /\ lost' = lost \cup {wtask[w] : w \in {v \in Workers : wpc[v] = "work"}}
        /\ wpc' = [w \in Workers |-> "off"]
    BY DEF StopTimeout, jobVars
  <1>2. {wtask[w] : w \in {v \in Workers : wpc[v] = "work"}} = AtWork
    BY DEF AtWork, Control
  <1>3. AtWork' = {} /\ OnceAtWork'
    BY <1>1 DEF AtWork, OnceAtWork
  <1>. QED
    BY <1>1, <1>2, <1>3 DEF Queued, Delivered, Counted, OnceInQueue, OnceDelivered, OnceCounted, Once

(* start() moves no task: its workers have nothing yet.                    *)
LEMMA StartMoves ==
  ASSUME Control, Once, StartPool
  PROVE  /\ Once' /\ AtWork' = AtWork /\ lost' = lost
         /\ Queued' = Queued /\ Delivered' = Delivered /\ Counted' = Counted
  <1>1. AtWork = {}
    BY DEF Control, StartPool, AtWork
  <1>2. /\ UNCHANGED <<tasks, wtask, results, collected, lost>>
        /\ \A w \in Workers : wpc'[w] = "get"
    BY DEF StartPool, jobVars
  <1>3. AtWork' = {} /\ OnceAtWork'
    BY <1>2 DEF AtWork, OnceAtWork
  <1>. QED
    BY <1>1, <1>2, <1>3 DEF Queued, Delivered, Counted, OnceInQueue, OnceDelivered, OnceCounted, Once

(* Where the tasks are depends on the queues, the workers and the records  *)
(* alone.                                                                  *)
LEMMA NothingMoves ==
  ASSUME Once, UNCHANGED <<tasks, wpc, wtask, results, collected, lost>>
  PROVE  /\ Once' /\ AtWork' = AtWork /\ lost' = lost
         /\ Queued' = Queued /\ Delivered' = Delivered /\ Counted' = Counted
  BY DEF Once, OnceInQueue, OnceAtWork, OnceDelivered, OnceCounted,
         Queued, AtWork, Delivered, Counted

-----------------------------------------------------------------------------
(* The steps preserve the invariant *)

-----------------------------------------------------------------------------
(* The steps preserve the invariant *)

(* Every step keeps the types and what the places say.                     *)
LEMMA TypeStep == ASSUME TypeOK, Control, [Next]_vars PROVE TypeOK' /\ Control'
  <1>1. CASE UNCHANGED vars
    BY <1>1 DEF vars, TypeOK, Control, Ended
  <1>2. CASE Next
    BY <1>2, StartPoolType, StopPoolType, StopPutType, StopJoinType, StopTimeoutType,
       TakeType, DeliverType, ExecuteNothingType, ExecuteJobType, SubmitKeepsType,
       CollectType, LeftType
    DEF Next, StopStep, WorkerStep, ExecuteStep
  <1>. QED
    BY <1>1, <1>2

(* Every step keeps each task in one place, and the submitted ones in      *)
(* sight.                                                                  *)
LEMMA PlacesStep ==
  ASSUME TypeOK, Control, Once, Apart, Tracked, [Next]_vars
  PROVE  Once' /\ Apart' /\ Tracked'
  <1>0. ASSUME UNCHANGED sent PROVE Submitted' = Submitted
    BY <1>0 DEF Submitted
  <1>1. ASSUME NEW w \in Workers, Take(w) PROVE Once' /\ Apart' /\ Tracked'
    <2>1. Submitted' = Submitted
      BY <1>0, <1>1 DEF Take, jobVars
    <2>2. Apart' /\ Placed' = Placed
      <3>1. CASE Head(tasks) \in Task
        BY <1>1, <3>1, TakeMoves DEF Apart, Placed
      <3>2. CASE Head(tasks) \notin Task
        BY <1>1, <3>2, TakeMoves DEF Apart, Placed
      <3>. QED
        BY <3>1, <3>2
    <2>. QED
      BY <1>1, <2>1, <2>2, TakeMoves DEF Tracked
  <1>2. ASSUME NEW w \in Workers, Deliver(w) PROVE Once' /\ Apart' /\ Tracked'
    <2>1. Submitted' = Submitted
      BY <1>0, <1>2 DEF Deliver, jobVars
    <2>2. Apart' /\ Placed' = Placed
      BY <1>2, DeliverMoves DEF Apart, Placed
    <2>. QED
      BY <1>2, <2>1, <2>2, DeliverMoves DEF Tracked
  <1>3. ASSUME Collect \/ CollectFails PROVE Once' /\ Apart' /\ Tracked'
    <2>1. CountResult /\ UNCHANGED <<poolVars, tasks>> /\ Submitted' = Submitted
      BY <1>0, <1>3, CollectedRow
    <2>2. Apart' /\ Placed' = Placed
      BY <2>1, CollectMoves DEF Apart, Placed
    <2>. QED
      BY <2>1, <2>2, CollectMoves DEF Tracked
  <1>4. ASSUME Submit PROVE Once' /\ Apart' /\ Tracked'
    <2>1. Apart' /\ Placed' = Placed \cup NextFiles(sent'[cur])
      BY <1>4, SubmitMoves DEF Apart, Placed
    <2>2. Submitted' = Submitted \cup NextFiles(sent'[cur])
      BY <1>4, SubmitAdds
    <2>. QED
      BY <1>4, <2>1, <2>2, SubmitMoves DEF Tracked
  <1>5. ASSUME StopTimeout PROVE Once' /\ Apart' /\ Tracked'
    <2>1. Submitted' = Submitted
      BY <1>0, <1>5 DEF StopTimeout, jobVars
    <2>2. Apart' /\ Placed' = Placed
      BY <1>5, TimeoutMoves DEF Apart, Placed
    <2>. QED
      BY <1>5, <2>1, <2>2, TimeoutMoves DEF Tracked
  <1>6. ASSUME StartPool PROVE Once' /\ Apart' /\ Tracked'
    <2>1. Submitted' = Submitted
      BY <1>0, <1>6 DEF StartPool, jobVars
    <2>2. Apart' /\ Placed' = Placed
      BY <1>6, StartMoves DEF Apart, Placed
    <2>. QED
      BY <1>6, <2>1, <2>2, StartMoves DEF Tracked
  <1>7. ASSUME StopPool \/ StopPut PROVE Once' /\ Apart' /\ Tracked'
    <2>1. Cardinality(Workers) \in Nat /\ signals \in Nat
      BY StopIsNoTask, FS_CardinalityType DEF TypeOK
    <2>2. UNCHANGED <<wpc, wtask, results, collected, lost, sent>>
      BY <1>7 DEF StopPool, StopPut, poolVars, jobVars
    <2>3. PutSignals(Cardinality(Workers)) \/ PutSignals(signals)
      BY <1>7 DEF StopPool, StopPut
    <2>4. Once' /\ Apart' /\ Placed' = Placed
      BY <2>1, <2>2, <2>3, SignalsMove DEF Apart, Placed
    <2>. QED
      BY <1>0, <2>2, <2>4 DEF Tracked
  <1>8. ASSUME UNCHANGED <<tasks, wpc, wtask, results, collected, lost, sent>>
        PROVE  Once' /\ Apart' /\ Tracked'
    <2>1. Once' /\ Apart' /\ Placed' = Placed
      BY <1>8, NothingMoves DEF Apart, Placed
    <2>. QED
      BY <1>0, <1>8, <2>1 DEF Tracked
  <1>9. ASSUME \/ StopJoin \/ CollectTimeout \/ Interrupt \/ UNCHANGED vars
               \/ \E j \in Jobs : \/ ExecuteNothing(j)
                                  \/ \E n \in FileCounts[j] : ExecuteJob(j, n)
        PROVE  UNCHANGED <<tasks, wpc, wtask, results, collected, lost, sent>>
    BY <1>9 DEF StopJoin, CollectTimeout, Interrupt, vars, ExecuteNothing, ExecuteJob,
                poolVars, jobVars
  <1>. QED
    BY <1>1, <1>2, <1>3, <1>4, <1>5, <1>6, <1>7, <1>8, <1>9
    DEF Next, StopStep, WorkerStep, ExecuteStep

(* One worker more or less at work. *)
LEMMA WorkingType == Working \in SUBSET Workers /\ IsFiniteSet(Working) /\ Cardinality(Working) \in Nat
  BY StopIsNoTask, FS_Subset, FS_CardinalityType DEF Working

(* Without a worker at work, none is counted.                              *)
LEMMA NoneWorking ==
  ASSUME \A w \in Workers : wpc'[w] # "work"
  PROVE  Working' = {} /\ Cardinality(Working') = 0
  BY FS_EmptySet DEF Working

(* Every step keeps the counter behind join() in step with queue and       *)
(* workers.                                                                *)
LEMMA CountsStep ==
  ASSUME TypeOK, Control, CountsAll, [Next]_vars
  PROVE  CountsAll'
  <1>. USE WorkingType
  <1>0. Len(tasks) \in Nat /\ unfinished \in Int
    BY LenProperties DEF TypeOK
  <1>1. ASSUME NEW w \in Workers, Take(w) PROVE CountsAll'
    <2>1. Len(tasks') = Len(tasks) - 1 /\ unfinished' = unfinished
      BY <1>1, HeadAndTail DEF TypeOK, Take
    <2>2. /\ \A v \in Workers \ {w} : wpc'[v] = wpc[v]
          /\ wpc[w] = "get"
      BY <1>1 DEF TypeOK, Take
    <2>3. Working' = Working \/ Working' = Working \cup {w}
      BY <2>2 DEF Working
    <2>4. Cardinality(Working \cup {w}) <= Cardinality(Working) + 1
          /\ Cardinality(Working \cup {w}) \in Nat
      BY FS_AddElement
    <2>. QED
      <3>1. Cardinality(Working') <= Cardinality(Working) + 1 /\ Cardinality(Working') \in Nat
        <4>1. Cardinality(Working) <= Cardinality(Working) + 1
          OBVIOUS
        <4>2. CASE Working' = Working
          BY <4>1, <4>2
        <4>3. CASE Working' = Working \cup {w}
          BY <2>4, <4>3
        <4>. QED
          BY <2>3, <4>2, <4>3
      <3>2. unfinished >= Len(tasks) + Cardinality(Working)
        BY DEF CountsAll
      <3>3. unfinished' >= Len(tasks') + Cardinality(Working')
        BY <1>0, <2>1, <3>1, <3>2
      <3>. QED
        BY <3>3 DEF CountsAll
  <1>2. ASSUME NEW w \in Workers, Deliver(w) PROVE CountsAll'
    <2>1. tasks' = tasks /\ unfinished' = unfinished - 1
      BY <1>2 DEF Deliver
    <2>2. wpc[w] = "work" /\ wpc'[w] # "work" /\ \A v \in Workers \ {w} : wpc'[v] = wpc[v]
      BY <1>2 DEF TypeOK, Deliver
    <2>3. Working' = Working \ {w} /\ w \in Working
      BY <2>2 DEF Working
    <2>4. Cardinality(Working') = Cardinality(Working) - 1
      BY <2>3, FS_RemoveElement
    <2>. QED
      BY <1>0, <2>1, <2>4 DEF CountsAll
  <1>3. ASSUME StartPool \/ StopTimeout PROVE CountsAll'
    <2>1. Cardinality(Working') = 0
      BY <1>3, NoneWorking DEF StartPool, StopTimeout
    <2>2. tasks' = tasks /\ unfinished' = unfinished
      BY <1>3 DEF StartPool, StopTimeout
    <2>. QED
      BY <1>0, <2>1, <2>2 DEF CountsAll
  <1>4. ASSUME StopPool \/ StopPut PROVE CountsAll'
    <2>1. Cardinality(Workers) \in Nat /\ signals \in Nat
      BY StopIsNoTask, FS_CardinalityType DEF TypeOK
    <2>2. PutSignals(Cardinality(Workers)) \/ PutSignals(signals)
      BY <1>4 DEF StopPool, StopPut
    <2>3. unfinished' - Len(tasks') = unfinished - Len(tasks) /\ Len(tasks') \in Nat /\ unfinished' \in Int
      BY <2>1, <2>2, SignalsType
    <2>4. Working' = Working
      BY <1>4 DEF StopPool, StopPut, poolVars, Working
    <2>. QED
      BY <1>0, <2>3, <2>4 DEF CountsAll
  <1>5. ASSUME Submit PROVE CountsAll'
    <2>1. PICK k \in Nat : unfinished' = unfinished + k /\ Len(tasks') = Len(tasks) + k
      BY <1>5, SubmitType
    <2>2. Working' = Working
      BY <1>5 DEF Submit, poolVars, Working
    <2>. QED
      BY <1>0, <2>1, <2>2 DEF CountsAll
  <1>6. ASSUME UNCHANGED <<tasks, unfinished, wpc>> PROVE CountsAll'
    BY <1>6 DEF CountsAll, Working
  <1>7. ASSUME \/ StopJoin \/ Collect \/ CollectFails \/ CollectTimeout \/ Interrupt
               \/ UNCHANGED vars
               \/ \E j \in Jobs : \/ ExecuteNothing(j)
                                  \/ \E n \in FileCounts[j] : ExecuteJob(j, n)
        PROVE  UNCHANGED <<tasks, unfinished, wpc>>
    BY <1>7 DEF StopJoin, Collect, CollectFails, CollectTimeout, Interrupt, vars,
                ExecuteNothing, ExecuteJob, poolVars
  <1>. QED
    BY <1>1, <1>2, <1>3, <1>4, <1>5, <1>6, <1>7
    DEF Next, StopStep, WorkerStep, ExecuteStep

(* What a task that was counted or delivered came to does not change. *)
LEMMA OutcomesStep ==
  ASSUME TypeOK, Control, Once, Apart, Outcomes, [Next]_vars
  PROVE  Outcomes'
  <1>1. ASSUME UNCHANGED <<results, outcome, epc, failed, cur, sent, row, excepted, collected>> PROVE Outcomes'
    BY <1>1 DEF Outcomes, Raised
  <1>2. ASSUME NEW w \in Workers, Deliver(w) PROVE Outcomes'
    <2>. DEFINE h == wtask[w]
    <2>1. h \in Task /\ h \in AtWork /\ UNCHANGED <<epc, failed, cur, sent, row, excepted, collected>>
      BY <1>2, DeliverMoves DEF Deliver, jobVars
    <2>2. PICK o \in Outcome :
            /\ outcome' = [outcome EXCEPT ![h] = o]
            /\ results' = Append(results, [task |-> h, success |-> o # "raised"])
      BY <1>2 DEF Deliver
    <2>. DEFINE r == [task |-> h, success |-> o # "raised"]
    <2>3. r \in Result /\ r.task = h /\ (r.success <=> o # "raised")
      BY <2>1 DEF Result
    <2>. HIDE DEF h, r
    <2>4. results \in Seq(Result) /\ results' = Append(results, r)
      BY <2>2 DEF TypeOK, r
    <2>5. /\ DOMAIN results = 1..Len(results) /\ Len(results) \in Nat
          /\ DOMAIN results' = 1..(Len(results) + 1)
          /\ \A i \in 1..Len(results) : results'[i] = results[i]
          /\ results'[Len(results) + 1] = r
      BY <2>3, <2>4, AtTheEnd
    <2>6. /\ outcome'[h] = o
          /\ \A t \in Task \ {h} : outcome'[t] = outcome[t]
      BY <2>1, <2>2 DEF TypeOK
    <2>7. /\ h \notin Delivered
          /\ h \notin Counted
      BY <2>1 DEF Apart
    <2>8. \A i \in 1..Len(results) : results[i].task \in Task /\ results[i].task # h
      <3>1. \A i \in 1..Len(results) : results[i] \in Result
        BY <2>4, ElementOfSeq
      <3>. QED
        BY <2>5, <2>7, <3>1 DEF Delivered, Result
    <2>9. \A i \in DOMAIN results' : i \in 1..Len(results) \/ i = Len(results) + 1
      BY <2>5
    <2>10. \A i \in DOMAIN results' : results'[i].success <=> outcome'[results'[i].task] # "raised"
      <3>1. ASSUME NEW i \in 1..Len(results)
            PROVE  results'[i].success <=> outcome'[results'[i].task] # "raised"
        BY <2>5, <2>6, <2>8 DEF Outcomes
      <3>2. results'[Len(results) + 1].success
              <=> outcome'[results'[Len(results) + 1].task] # "raised"
        BY <2>3, <2>5, <2>6
      <3>. QED
        BY <2>9, <3>1, <3>2
    <2>11. \A j \in Jobs : Raised(j)' <=> Raised(j)
      <3>1. \A j \in Jobs : collected[j] \subseteq Task /\ h \notin collected[j]
        BY <2>1, <2>7 DEF TypeOK, Counted
      <3>. QED
        BY <2>1, <2>6, <3>1 DEF Raised
    <2>. QED
      BY <2>1, <2>10, <2>11 DEF Outcomes, Control
  <1>3. ASSUME Collect \/ CollectFails PROVE Outcomes'
    <2>. DEFINE h == Head(results).task
    <2>0. /\ CountResult /\ Ends(cur) /\ epc' \in {"idle", "collect"}
          /\ UNCHANGED <<poolVars, tasks, outcome, cur, sent>>
      BY <1>3, CollectedRow
    <2>1. /\ results \in Seq(Result) /\ results # <<>> /\ results' = Tail(results)
          /\ outcome' = outcome /\ cur' = cur /\ epc = "collect"
      BY <2>0 DEF TypeOK, CountResult
    <2>2. /\ Head(results) = results[1] /\ 1 \in DOMAIN results
          /\ DOMAIN results' = 1..(Len(results) - 1)
          /\ \A i \in 1..(Len(results) - 1) :
               results'[i] = results[i + 1] /\ i + 1 \in DOMAIN results
      BY <2>1, HeadAndTail
    <2>3. \A i \in DOMAIN results' : results'[i].success <=> outcome'[results'[i].task] # "raised"
      BY <2>1, <2>2 DEF Outcomes
    <2>4. Head(results).success <=> outcome[h] # "raised"
      BY <2>2 DEF Outcomes
    <2>5. /\ cur \in Jobs /\ collected'[cur] = collected[cur] \cup {h}
          /\ \A j \in Jobs \ {cur} : collected'[j] = collected[j]
      BY <2>0, CollectMoves
    <2>6. /\ Raised(cur)' <=> Raised(cur) \/ outcome[h] = "raised"
          /\ \A j \in Jobs \ {cur} : Raised(j)' <=> Raised(j)
      BY <2>1, <2>5 DEF Raised
    <2>7. failed' <=> Raised(cur)'
      <3>1. (failed <=> Raised(cur)) /\ failed' = (failed \/ ~Head(results).success)
        BY <2>0, <2>1 DEF Outcomes, CountResult
      <3>2. failed \in BOOLEAN /\ Head(results).success \in BOOLEAN
        BY <2>1, HeadType DEF TypeOK
      <3>. QED
        BY <2>4, <2>6, <3>1, <3>2
    <2>9. ASSUME NEW j \in Jobs, row'[j].status \in Ended, sent'[j] > 0
          PROVE  row'[j].status = "failed" <=> j \in excepted' \/ Raised(j)'
      <3>1. CASE j = cur
        BY <2>0, <2>7, <2>9, <3>1 DEF Ends
      <3>2. CASE j # cur
        BY <2>0, <2>6, <2>9, <3>2 DEF Outcomes, Ends
      <3>. QED
        BY <3>1, <3>2
    <2>. QED
      BY <2>1, <2>3, <2>7, <2>9 DEF Outcomes, Raised
  <1>4. ASSUME NEW j \in Jobs, ExecuteNothing(j) PROVE Outcomes'
    <2>1. /\ UNCHANGED <<results, outcome, collected, cur, epc, sent>> /\ epc = "idle"
          /\ row[j].status = "pending" /\ \A i \in Jobs \ {j} : row'[i] = row[i]
          /\ excepted' \ {j} = excepted \ {j}
      BY <1>4, NothingRow
    <2>2. sent[j] = 0
      BY <2>1 DEF Control
    <2>3. \A i \in Jobs : Raised(i)' <=> Raised(i)
      BY <2>1 DEF Raised
    <2>. QED
      BY <2>1, <2>2, <2>3 DEF Outcomes
  <1>5. ASSUME NEW j \in Jobs, NEW n \in FileCounts[j], ExecuteJob(j, n) PROVE Outcomes'
    <2>1. /\ UNCHANGED <<results, outcome, collected, sent, excepted>> /\ cur' = j /\ failed' = FALSE
          /\ row[j].status = "pending"
          /\ row'[j].status = "running" /\ \A i \in Jobs \ {j} : row'[i] = row[i]
      BY <1>5, BegunRow
    <2>2. collected[j] = {}
      BY <2>1 DEF Control
    <2>3. \A i \in Jobs : Raised(i)' <=> Raised(i)
      BY <2>1 DEF Raised
    <2>4. ~Raised(j)
      BY <2>2 DEF Raised
    <2>5. failed' <=> Raised(cur)'
      BY <2>1, <2>2 DEF Raised
    <2>6. ASSUME NEW i \in Jobs, row'[i].status \in Ended, sent'[i] > 0
          PROVE  row'[i].status = "failed" <=> i \in excepted' \/ Raised(i)'
      BY <2>1, <2>3, <2>6 DEF Outcomes, Ended
    <2>. QED
      BY <2>1, <2>5, <2>6 DEF Outcomes, Raised
  <1>6. ASSUME CollectTimeout \/ Interrupt PROVE Outcomes'
    <2>1. /\ Ends(cur) /\ epc # "idle" /\ epc' = "idle" /\ cur \in Jobs
          /\ UNCHANGED <<results, outcome, cur, sent, failed, collected>>
      BY <1>6, LeftRow
    <2>2. \A i \in Jobs : Raised(i)' <=> Raised(i)
      BY <2>1 DEF Raised
    <2>3. failed' <=> Raised(cur)
      BY <2>1 DEF Outcomes
    <2>4. ASSUME NEW i \in Jobs, row'[i].status \in Ended, sent'[i] > 0
          PROVE  row'[i].status = "failed" <=> i \in excepted' \/ Raised(i)'
      <3>1. CASE i = cur
        BY <2>1, <2>2, <2>3, <2>4, <3>1 DEF Ends
      <3>2. CASE i # cur
        BY <2>1, <2>2, <2>4, <3>2 DEF Outcomes, Ends
      <3>. QED
        BY <3>1, <3>2
    <2>. QED
      BY <2>1, <2>4 DEF Outcomes
  <1>7. ASSUME Submit PROVE Outcomes'
    <2>1. /\ UNCHANGED <<results, outcome, failed, cur, row, excepted, collected>>
          /\ epc = "submit" /\ cur \in Jobs /\ row[cur].status = "running"
      BY <1>7 DEF Submit, Control
    <2>2. \A j \in Jobs \ {cur} : sent'[j] = sent[j]
      BY <1>7, SubmitType
    <2>3. \A i \in Jobs : Raised(i)' <=> Raised(i)
      BY <2>1 DEF Raised
    <2>4. failed' <=> Raised(cur)'
      BY <2>1 DEF Outcomes, Raised
    <2>5. ASSUME NEW i \in Jobs, row'[i].status \in Ended, sent'[i] > 0
          PROVE  row'[i].status = "failed" <=> i \in excepted' \/ Raised(i)'
      BY <2>1, <2>2, <2>3, <2>5 DEF Outcomes, Ended
    <2>. QED
      BY <2>1, <2>4, <2>5 DEF Outcomes, Raised
  <1>8. ASSUME StartPool \/ StopPool \/ StopPut \/ StopJoin \/ StopTimeout \/ UNCHANGED vars
               \/ \E w \in Workers : Take(w)
        PROVE  UNCHANGED <<results, outcome, epc, failed, cur, sent, row, excepted, collected>>
    BY <1>8 DEF StartPool, StopPool, StopPut, StopJoin, StopTimeout, Take, vars, jobVars
  <1>. QED
    BY <1>1, <1>2, <1>3, <1>4, <1>5, <1>6, <1>7, <1>8
    DEF Next, StopStep, WorkerStep, ExecuteStep

-----------------------------------------------------------------------------
(* What executions that ended early left *)

(* The files after the m-th one, up to the k-th of these.                  *)
LEMMA FilesCount ==
  ASSUME NEW j \in Jobs, NEW m \in Nat, NEW k \in Nat, m + k <= MaxFiles
  PROVE  LET F == {t \in Task : t.job = j /\ t.file > m /\ t.file <= m + k}
         IN  IsFiniteSet(F) /\ Cardinality(F) = k
  <1>. DEFINE F == {t \in Task : t.job = j /\ t.file > m /\ t.file <= m + k}
              f == [i \in 1..k |-> [job |-> j, file |-> m + i]]
  <1>1. MaxFiles \in Nat /\ \A i \in 1..k : /\ m + i \in 1..MaxFiles
                                            /\ m + i > m /\ m + i <= m + k
    BY StopIsNoTask
  <1>2. f \in [1..k -> F]
    BY <1>1 DEF Task
  <1>3. \A i, l \in 1..k : f[i] = f[l] => i = l
    OBVIOUS
  <1>4. ASSUME NEW t \in F PROVE \E i \in 1..k : f[i] = t
    <2>1. t.file \in Nat /\ t.file > m /\ t.file <= m + k
      BY <1>1 DEF Task
    <2>2. t.file - m \in 1..k /\ m + (t.file - m) = t.file
      BY <2>1
    <2>3. t = [job |-> j, file |-> t.file]
      BY DEF Task
    <2>. QED
      BY <2>2, <2>3
  <1>. HIDE DEF f, F
  <1>5. f \in Bijection(1..k, F)
    BY <1>2, <1>3, <1>4 DEF Bijection, Injection, Surjection, IsInjective
  <1>6. ExistsBijection(1..k, F)
    BY <1>5 DEF ExistsBijection
  <1>7. IsFiniteSet(1..k) /\ Cardinality(1..k) = k
    <2>1. /\ IsFiniteSet(1..k)
          /\ Cardinality(1..k) = (IF 1 > k THEN 0 ELSE k - 1 + 1)
      BY FS_Interval
    <2>. QED
      BY <2>1
  <1>8. IsFiniteSet(F) /\ Cardinality(F) = k
    BY <1>6, <1>7, FS_Bijection
  <1>. QED
    BY <1>8 DEF F

(* What is said of the results to come depends on the executor's position, *)
(* the files submitted and the results counted alone.                      *)
LEMMA OwingStays ==
  ASSUME Owing, UNCHANGED <<epc, cur, sent, processed, collected, owed>>
  PROVE  Owing'
  BY DEF Owing, MissesFew, Uncounted, Submitted, Counted, Due, Foreign, FilesOf

(* The numbers behind it.                                                  *)
LEMMA OwingType ==
  ASSUME TypeOK, Control, Tracked, Owing
  PROVE  /\ Uncounted \subseteq Submitted /\ IsFiniteSet(Uncounted)
         /\ Cardinality(Uncounted) \in Nat /\ owed \in Nat /\ Due \in Int
         /\ Counted \subseteq Submitted
         /\ \A j \in Jobs : collected[j] \subseteq Counted /\ FilesOf(j) \subseteq Submitted
  <1>1. Uncounted \subseteq Submitted /\ IsFiniteSet(Uncounted) /\ Cardinality(Uncounted) \in Nat
    BY FS_Subset, FS_CardinalityType DEF Owing, Uncounted
  <1>2. Counted \subseteq Submitted
    BY DEF Tracked, Placed
  <1>3. \A j \in Jobs : collected[j] \subseteq Counted /\ FilesOf(j) \subseteq Submitted
    BY DEF TypeOK, Counted, FilesOf, Submitted
  <1>4. owed \in Nat /\ Due \in Int
    BY StopIsNoTask DEF TypeOK, Due, Control
  <1>. QED
    BY <1>1, <1>2, <1>3, <1>4

(* The next execution begins: what is left is what it could count of       *)
(* others.                                                                 *)
LEMMA OwingBegins ==
  ASSUME TypeOK, Control, Tracked, Owing, NEW j \in Jobs, NEW n \in FileCounts[j], ExecuteJob(j, n)
  PROVE  Owing'
  <1>1. /\ epc = "idle" /\ epc' = "submit" /\ cur' = j /\ processed' = 0
        /\ UNCHANGED <<sent, collected, owed>> /\ row[j].status = "pending"
    BY BegunRow
  <1>2. sent[j] = 0 /\ collected[j] = {}
    BY <1>1 DEF Control
  <1>3. FilesOf(j) = {}
    BY <1>2, StopIsNoTask DEF FilesOf, Task
  <1>4. Submitted' = Submitted /\ Uncounted' = Uncounted /\ \A i \in Jobs : FilesOf(i)' = FilesOf(i)
    BY <1>1 DEF Submitted, Counted, Uncounted, FilesOf
  <1>5. Due = 0 /\ Due' = 0
    BY <1>1, <1>2 DEF Due
  <1>6. Foreign' = Uncounted
    BY <1>1, <1>2, <1>3, <1>4 DEF Foreign, FilesOf
  <1>7. Cardinality(Uncounted) = owed /\ owed \in Nat
    BY <1>5, OwingType DEF Owing
  <1>8. \A i \in Jobs : collected'[i] \cap FilesOf(cur)' = {}
    BY <1>1, <1>3 DEF FilesOf
  <1>9. Cardinality(collected[j] \ FilesOf(j)) <= owed
    BY <1>2, <1>7, FS_EmptySet
  <1>10. \A i \in Jobs : MissesFew(i)'
    <2>1. MissesFew(j)'
      BY <1>1, <1>4, <1>9 DEF MissesFew
    <2>2. \A i \in Jobs \ {j} : MissesFew(i)'
      BY <1>1, <1>4 DEF MissesFew, Owing
    <2>. QED
      BY <2>1, <2>2
  <1>11. IsFiniteSet(Submitted')
    BY <1>4 DEF Owing
  <1>12. Cardinality(Uncounted') = owed' + Due' /\ Cardinality(Foreign') <= owed'
    BY <1>1, <1>4, <1>5, <1>6, <1>7
  <1>. QED
    BY <1>8, <1>10, <1>11, <1>12 DEF Owing

(* More files are submitted: as many more results are due.                 *)
LEMMA OwingSubmits ==
  ASSUME TypeOK, Control, Once, Apart, Tracked, Owing, Submit
  PROVE  Owing'
  <1>1. PICK k \in Nat :
         /\ cur \in Jobs /\ sent[cur] \in Nat
         /\ sent'[cur] = sent[cur] + k /\ sent'[cur] <= row[cur].total
    BY SubmitType
  <1>2. /\ epc = "submit" /\ epc' # "idle" /\ UNCHANGED <<cur, processed, row, collected, owed>>
    BY DEF Submit
  <1>. DEFINE NF == NextFiles(sent'[cur])
  <1>3. IsFiniteSet(NF) /\ Cardinality(NF) = k
    <2>1. sent[cur] + k <= MaxFiles
      BY <1>1, StopIsNoTask DEF TypeOK
    <2>2. LET F == {t \in Task : t.job = cur /\ t.file > sent[cur] /\ t.file <= sent[cur] + k}
          IN  IsFiniteSet(F) /\ Cardinality(F) = k
      BY <1>1, <2>1, FilesCount
    <2>3. NF = {t \in Task : t.job = cur /\ t.file > sent[cur] /\ t.file <= sent[cur] + k}
      BY <1>1 DEF NextFiles
    <2>. QED
      BY <2>2, <2>3
  <1>4. /\ Submitted' = Submitted \cup NF /\ NF \cap Submitted = {}
        /\ FilesOf(cur)' = FilesOf(cur) \cup NF
        /\ \A j \in Jobs \ {cur} : FilesOf(j)' = FilesOf(j)
    BY SubmitAdds
  <1>. HIDE DEF NF
  <1>5. /\ IsFiniteSet(Uncounted) /\ Cardinality(Uncounted) \in Nat /\ owed \in Nat
        /\ Counted \subseteq Submitted /\ Uncounted \subseteq Submitted
        /\ \A j \in Jobs : collected[j] \subseteq Submitted
    BY OwingType
  <1>6. Counted' = Counted
    BY <1>2 DEF Counted
  <1>7. Uncounted' = Uncounted \cup NF /\ Uncounted \cap NF = {}
    BY <1>4, <1>5, <1>6 DEF Uncounted
  <1>8. Cardinality(Uncounted') = Cardinality(Uncounted) + k
    <2>1. Uncounted \cap NF = {} => Cardinality(Uncounted \cap NF) = 0
      BY FS_EmptySet
    <2>2. Cardinality(Uncounted \cup NF) = Cardinality(Uncounted) + Cardinality(NF) - Cardinality(Uncounted \cap NF)
      BY <1>3, <1>5, FS_Union
    <2>. QED
      BY <1>3, <1>5, <1>7, <2>1, <2>2
  <1>9. Due' = Due + k
    <2>1. Due = sent[cur] - processed /\ Due' = sent'[cur] - processed /\ processed \in Nat
      BY <1>2 DEF Due, TypeOK
    <2>. QED
      BY <1>1, <2>1
  <1>10. Cardinality(Uncounted') = owed' + Due'
    BY <1>2, <1>5, <1>8, <1>9, OwingType DEF Owing
  <1>11. IsFiniteSet(Submitted')
    BY <1>3, <1>4, FS_Union DEF Owing
  <1>12. Foreign' = Foreign
    BY <1>1, <1>2, <1>4, <1>5, <1>7 DEF Foreign, FilesOf
  <1>13. Cardinality(Foreign') <= owed'
    BY <1>2, <1>12 DEF Owing
  <1>14. \A j \in Jobs \ {cur} : collected'[j] \cap FilesOf(cur)' = {}
    BY <1>2, <1>4, <1>5 DEF Owing
  <1>15. \A j \in Jobs : MissesFew(j)'
    <2>1. collected'[cur] \ FilesOf(cur)' = collected[cur] \ FilesOf(cur)
      BY <1>1, <1>2, <1>4, <1>5
    <2>2. MissesFew(cur)'
      BY <1>1, <1>2, <2>1 DEF MissesFew, Owing
    <2>3. \A j \in Jobs \ {cur} : MissesFew(j)'
      BY <1>2, <1>4 DEF MissesFew, Owing
    <2>. QED
      BY <1>2, <2>2, <2>3
  <1>. QED
    BY <1>2, <1>10, <1>11, <1>13, <1>14, <1>15 DEF Owing, FilesOf

(* As many results are to come as are due afterwards.                      *)
StillDue(S) == Cardinality(S) = owed' + Due'

(* Some results are counted (or none), and the execution goes on or ends.  *)
LEMMA OwingEnds ==
  ASSUME TypeOK, Control, Tracked, Owing,
         epc # "idle", cur \in Jobs, Ends(cur), UNCHANGED <<cur, sent>>,
         NEW H, H \subseteq Uncounted,
         collected'[cur] = collected[cur] \cup H,
         \A j \in Jobs \ {cur} : collected'[j] = collected[j],
         Counted' = Counted \cup H,
         StillDue(Uncounted \ H)
  PROVE  Owing'
  <1>1. Submitted' = Submitted /\ \A j \in Jobs : FilesOf(j)' = FilesOf(j)
    BY DEF Submitted, FilesOf
  <1>2. Uncounted' = Uncounted \ H
    BY <1>1 DEF Uncounted
  <1>3. /\ IsFiniteSet(Submitted) /\ Cardinality(Foreign) <= owed
        /\ \A j \in Jobs \ {cur} : collected[j] \cap FilesOf(cur) = {}
        /\ \A j \in Jobs : MissesFew(j)
    BY DEF Owing
  <1>4. /\ owed \in Nat /\ owed' \in Nat /\ owed <= owed'
        /\ IsFiniteSet(Uncounted) /\ Uncounted \subseteq Submitted
        /\ \A j \in Jobs : collected[j] \subseteq Submitted /\ FilesOf(j) \subseteq Submitted
    BY OwingType DEF Ends
  <1>5. Foreign' = Foreign
    BY <1>1, <1>2 DEF Foreign, FilesOf
  <1>6. Foreign \subseteq Submitted /\ IsFiniteSet(Foreign) /\ Cardinality(Foreign) \in Nat
    <2>1. Foreign \subseteq Submitted
      BY <1>4 DEF Foreign
    <2>. QED
      BY <1>3, <2>1, FS_Subset, FS_CardinalityType
  <1>7. Cardinality(Foreign') <= owed'
    BY <1>3, <1>4, <1>5, <1>6
  <1>8. Cardinality(collected'[cur] \ FilesOf(cur)') <= owed'
    <2>1. collected'[cur] \ FilesOf(cur)' \subseteq Foreign
      BY <1>1 DEF Foreign
    <2>2. /\ Cardinality(collected'[cur] \ FilesOf(cur)') <= Cardinality(Foreign)
          /\ IsFiniteSet(collected'[cur] \ FilesOf(cur)')
      BY <1>6, <2>1, FS_Subset
    <2>3. Cardinality(collected'[cur] \ FilesOf(cur)') \in Nat
      BY <2>2, FS_CardinalityType
    <2>. QED
      BY <1>3, <1>4, <1>6, <2>2, <2>3
  <1>9. ASSUME epc' = "idle" PROVE Cardinality(FilesOf(cur)' \ collected'[cur]) <= owed'
    <2>1. FilesOf(cur)' \ collected'[cur] \subseteq Uncounted \ H
      <3>1. ASSUME NEW t \in FilesOf(cur), t \notin collected[cur] PROVE t \notin Counted
        BY <1>3, <3>1 DEF Counted
      <3>. QED
        BY <1>1, <1>4, <3>1 DEF Uncounted
    <2>2. Due' = 0
      BY <1>9 DEF Due
    <2>5. (Uncounted \ H) \subseteq Uncounted
      OBVIOUS
    <2>3. IsFiniteSet(Uncounted \ H) /\ Cardinality(Uncounted \ H) = owed'
      <3>1. IsFiniteSet(Uncounted \ H)
        BY <1>4, <2>5, FS_Subset
      <3>. QED
        <4>1. Cardinality(Uncounted \ H) = owed' + 0
          BY <2>2 DEF StillDue
        <4>2. owed' \in Nat
          BY <1>4
        <4>. QED
          BY <3>1, <4>1, <4>2
    <2>4. Cardinality(FilesOf(cur)' \ collected'[cur]) <= Cardinality(Uncounted \ H)
      BY <2>1, <2>3, FS_Subset
    <2>. QED
      BY <2>3, <2>4
  <1>10. MissesFew(cur)'
    BY <1>8, <1>9 DEF MissesFew
  <1>11. ASSUME NEW j \in Jobs, j # cur PROVE MissesFew(j)'
    <2>1. /\ collected'[j] = collected[j] /\ FilesOf(j)' = FilesOf(j)
          /\ Cardinality(collected[j] \ FilesOf(j)) <= owed
          /\ Cardinality(FilesOf(j) \ collected[j]) <= owed
      BY <1>1, <1>3, <1>11 DEF MissesFew
    <2>2. collected[j] \ FilesOf(j) \subseteq Submitted /\ FilesOf(j) \ collected[j] \subseteq Submitted
      BY <1>4
    <2>3. /\ Cardinality(collected[j] \ FilesOf(j)) \in Nat
          /\ Cardinality(FilesOf(j) \ collected[j]) \in Nat
      BY <1>3, <2>2, FS_Subset, FS_CardinalityType
    <2>. QED
      BY <1>4, <2>1, <2>3 DEF MissesFew
  <1>12. \A j \in Jobs \ {cur} : collected'[j] \cap FilesOf(cur)' = {}
    BY <1>1, <1>3
  <1>. QED
    BY <1>1, <1>2, <1>3, <1>7, <1>10, <1>11, <1>12 DEF Owing, FilesOf, StillDue

(* Every step keeps what is said of the results to come.                   *)
LEMMA OwingStep ==
  ASSUME TypeOK, Control, Once, Apart, Tracked, Owing, [Next]_vars
  PROVE  Owing'
  <1>1. ASSUME Collect \/ CollectFails PROVE Owing'
    <2>. DEFINE h == Head(results).task
    <2>1. /\ CountResult /\ Ends(cur) /\ UNCHANGED <<poolVars, tasks>> /\ UNCHANGED <<cur, sent>>
          /\ epc' \in {"idle", "collect"}
      BY <1>1, CollectedRow
    <2>2. /\ cur \in Jobs /\ epc = "collect" /\ processed \in Nat /\ processed' = processed + 1
      BY <2>1, CountResultType
    <2>3. /\ h \in Delivered /\ Counted' = Counted \cup {h}
          /\ collected'[cur] = collected[cur] \cup {h}
          /\ \A j \in Jobs \ {cur} : collected'[j] = collected[j]
      BY <2>1, CollectMoves
    <2>. HIDE DEF h
    <2>4. h \in Uncounted
      BY <2>3 DEF Uncounted, Tracked, Placed, Apart
    <2>5. Cardinality(Uncounted \ {h}) = Cardinality(Uncounted) - 1
      BY <2>4, OwingType, FS_RemoveElement
    <2>6. owed' + Due' = owed + Due - 1
      <3>1. sent[cur] \in Nat /\ owed \in Nat
        BY <2>2 DEF TypeOK
      <3>2. Due = sent[cur] - processed
        BY <2>2 DEF Due
      <3>3. CASE epc' = "idle"
        <4>1. Due' = 0 /\ owed' = owed + (sent[cur] - processed')
          BY <2>1, <3>3 DEF Due, Ends
        <4>. QED
          BY <2>2, <3>1, <3>2, <4>1
      <3>4. CASE epc' = "collect"
        <4>1. Due' = sent[cur] - processed' /\ owed' = owed + 0
          BY <2>1, <3>4 DEF Due, Ends
        <4>. QED
          BY <2>2, <3>1, <3>2, <4>1
      <3>. QED
        BY <2>1, <3>3, <3>4
    <2>7. StillDue(Uncounted \ {h})
      BY <2>5, <2>6, OwingType DEF Owing, StillDue
    <2>. QED
      BY <2>1, <2>2, <2>3, <2>4, <2>7, OwingEnds
  <1>2. ASSUME CollectTimeout \/ Interrupt PROVE Owing'
    <2>1. /\ Ends(cur) /\ epc # "idle" /\ epc' = "idle" /\ cur \in Jobs
          /\ UNCHANGED <<cur, sent>> /\ UNCHANGED <<processed, collected>>
      BY <1>2, LeftRow
    <2>. DEFINE H == {}
    <2>2. Counted' = Counted \cup H /\ H \subseteq Uncounted
          /\ collected'[cur] = collected[cur] \cup H
          /\ \A j \in Jobs \ {cur} : collected'[j] = collected[j]
      BY <2>1 DEF Counted
    <2>3. /\ owed' = owed + Due /\ Due' = 0 /\ owed' \in Nat
      BY <2>1 DEF Ends, Due
    <2>4. StillDue(Uncounted \ H)
      <3>1. Uncounted \ H = Uncounted
        OBVIOUS
      <3>2. owed' + Due' = owed'
        BY <2>3
      <3>. QED
        BY <2>3, <3>1, <3>2 DEF Owing, StillDue
    <2>. HIDE DEF H
    <2>. QED
      BY <2>1, <2>2, <2>4, OwingEnds
  <1>3. ASSUME NEW j \in Jobs, ExecuteNothing(j) PROVE Owing'
    BY <1>3, NothingRow, OwingStays
  <1>4. ASSUME StartPool \/ StopPool \/ StopPut \/ StopJoin \/ StopTimeout \/ UNCHANGED vars
               \/ \E w \in Workers : Take(w) \/ Deliver(w)
        PROVE  UNCHANGED <<epc, cur, sent, processed, collected, owed>>
    BY <1>4 DEF StartPool, StopPool, StopPut, StopJoin, StopTimeout, Take, Deliver, vars, jobVars
  <1>. QED
    BY <1>1, <1>2, <1>3, <1>4, OwingStays, OwingSubmits, OwingBegins
    DEF Next, StopStep, WorkerStep, ExecuteStep

-----------------------------------------------------------------------------
(* The theorems *)

(* The invariant holds at first.                                           *)
LEMMA ExecInit == Init => ExecInv
  <1>. SUFFICES ASSUME Init PROVE ExecInv
    OBVIOUS
  <1>1. TypeOK /\ Control
    BY TypeInit
  <1>2. /\ tasks = <<>> /\ results = <<>> /\ lost = {} /\ unfinished = 0 /\ epc = "idle" /\ cur = NoJob
        /\ owed = 0
        /\ \A w \in Workers : wpc[w] = "off"
        /\ \A j \in Jobs : collected[j] = {} /\ sent[j] = 0
    BY DEF Init
  <1>3. Once
    BY <1>2 DEF Once, OnceInQueue, OnceAtWork, OnceDelivered, OnceCounted
  <1>4. Queued = {} /\ AtWork = {} /\ Delivered = {} /\ Counted = {} /\ lost = {}
    BY <1>2 DEF Queued, AtWork, Delivered, Counted
  <1>5. Apart
    BY <1>4 DEF Apart
  <1>10. Submitted = {} /\ \A j \in Jobs : FilesOf(j) = {}
    BY <1>2, StopIsNoTask DEF Submitted, FilesOf, Task
  <1>6. Tracked
    BY <1>4, <1>10 DEF Tracked, Placed
  <1>7. CountsAll
    <2>1. Working = {}
      BY <1>2 DEF Working
    <2>. QED
      BY <1>2, <2>1, FS_EmptySet DEF CountsAll
  <1>8. Outcomes
    BY <1>2 DEF Outcomes
  <1>9. Owing
    <2>1. Uncounted = {} /\ Due = 0 /\ IsFiniteSet({}) /\ Cardinality({}) = 0
      BY <1>2, <1>10, FS_EmptySet DEF Uncounted, Due
    <2>2. \A j \in Jobs : collected[j] \ FilesOf(j) = {} /\ FilesOf(j) \ collected[j] = {}
      BY <1>2, <1>10
    <2>4. ASSUME NEW j \in Jobs
          PROVE  /\ Cardinality(collected[j] \ FilesOf(j)) <= owed
                 /\ Cardinality(FilesOf(j) \ collected[j]) <= owed
      <3>1. /\ Cardinality(collected[j] \ FilesOf(j)) = 0
            /\ Cardinality(FilesOf(j) \ collected[j]) = 0
        BY <2>1, <2>2
      <3>. QED
        BY <1>2, <3>1
    <2>3. \A j \in Jobs : MissesFew(j)
      BY <2>4 DEF MissesFew
    <2>. QED
      BY <1>2, <1>10, <2>1, <2>3 DEF Owing
  <1>. QED
    BY <1>1, <1>3, <1>5, <1>6, <1>7, <1>8, <1>9 DEF ExecInv

(* Every step keeps the invariant.                                         *)
LEMMA ExecStep == ExecInv /\ [Next]_vars => ExecInv'
  BY TypeStep, PlacesStep, CountsStep, OutcomesStep, OwingStep DEF ExecInv

(* The invariant holds in every behaviour: of the specification without
   fairness, and so of FairSpec. *)
THEOREM ExecInvariant == Spec => []ExecInv
  BY ExecInit, ExecStep, PTL DEF Spec

(* The variables keep their types: the task queue its bound, the records their
   fields. *)
THEOREM JobExecutionTypes == Spec => []TypeOK
  <1>1. ExecInv => TypeOK
    BY DEF ExecInv
  <1>. QED
    BY <1>1, ExecInvariant, PTL

(* A set whose members are all equal has one at most.                      *)
LEMMA AtMostOne ==
  ASSUME NEW S, \A p, q \in S : p = q
  PROVE  Cardinality(S) <= 1
  <1>1. CASE S = {}
    BY <1>1, FS_EmptySet
  <1>2. CASE S # {}
    <2>1. PICK p : p \in S
      BY <1>2
    <2>2. S = {p}
      BY <2>1
    <2>. QED
      <3>1. Cardinality({p}) = 1
        BY FS_Singleton
      <3>. QED
        BY <2>2, <3>1
  <1>. QED
    BY <1>1, <1>2

(* No file of a job is processed or counted twice, and none that was submitted
   disappears between the two queues, whatever stops, times out or is
   cancelled: executor.py and pool.py. *)
THEOREM TasksAreInOnePlace == Spec => []EveryTaskInOnePlace
  <1>1. ASSUME ExecInv, NEW t \in Task
        PROVE  /\ Cardinality(Places(t)) <= 1
               /\ t.file <= sent[t.job] => Places(t) # {}
    <2>1. Once /\ Apart /\ Tracked
      BY <1>1 DEF ExecInv
    <2>. DEFINE Q == {<<"queued", i>> : i \in {k \in DOMAIN tasks : tasks[k] = t}}
                W == {<<"at work", w>> : w \in {v \in Workers : wpc[v] = "work" /\ wtask[v] = t}}
                R == {<<"result", i>> : i \in {k \in DOMAIN results : results[k].task = t}}
                C == {<<"counted", j>> : j \in {k \in Jobs : t \in collected[k]}}
                L == {<<"lost", t>> : x \in {t} \cap lost}
    <2>2. Places(t) = Q \cup W \cup R \cup C \cup L
      BY DEF Places
    <2>3. /\ Q # {} <=> t \in Queued
          /\ \A p, q \in Q : p = q
      BY <2>1 DEF Queued, Once, OnceInQueue
    <2>4. /\ W # {} <=> t \in AtWork
          /\ \A p, q \in W : p = q
      BY <2>1 DEF AtWork, Once, OnceAtWork
    <2>5. /\ R # {} <=> t \in Delivered
          /\ \A p, q \in R : p = q
      BY <2>1 DEF Delivered, Once, OnceDelivered
    <2>6. /\ C # {} <=> t \in Counted
          /\ \A p, q \in C : p = q
      <3>1. \A i, j \in Jobs : t \in collected[i] /\ t \in collected[j] => i = j
        BY <2>1 DEF Once, OnceCounted
      <3>2. (\E j \in Jobs : t \in collected[j]) <=> t \in Counted
        BY DEF Counted
      <3>. QED
        BY <3>1, <3>2
    <2>7. /\ L # {} <=> t \in lost
          /\ \A p, q \in L : p = q
      OBVIOUS
    <2>. HIDE DEF Q, W, R, C, L
    <2>8. \A p, q \in Q \cup W \cup R \cup C \cup L : p = q
      BY <2>1, <2>3, <2>4, <2>5, <2>6, <2>7 DEF Apart
    <2>9. t.file <= sent[t.job] => t \in Placed
      BY <2>1 DEF Tracked, Submitted
    <2>. QED
      BY <2>2, <2>3, <2>4, <2>5, <2>6, <2>7, <2>8, <2>9, AtMostOne DEF Placed
  <1>2. ExecInv => EveryTaskInOnePlace
    BY <1>1 DEF EveryTaskInOnePlace
  <1>. QED
    BY <1>2, ExecInvariant, PTL

(* task_queue.join() returns only when nothing is queued and no worker is
   processing, although stop signals are never marked as done. *)
THEOREM JoinWaits == Spec => []JoinWaitsForAll
  <1>1. ASSUME ExecInv, unfinished = 0
        PROVE  tasks = <<>> /\ \A w \in Workers : wpc[w] # "work"
    <2>1. /\ Len(tasks) \in Nat /\ Cardinality(Working) \in Nat /\ tasks \in Seq(Task \cup {Stop})
          /\ 0 >= Len(tasks) + Cardinality(Working)
      BY <1>1, WorkingType, LenProperties DEF ExecInv, TypeOK, CountsAll
    <2>2. Len(tasks) = 0 /\ Cardinality(Working) = 0
      BY <2>1
    <2>3. tasks = <<>>
      BY <2>1, <2>2, EmptySeq
    <2>4. Working = {}
      BY <2>2, WorkingType, FS_EmptySet
    <2>. QED
      BY <2>3, <2>4 DEF Working
  <1>2. ExecInv => JoinWaitsForAll
    BY <1>1 DEF JoinWaitsForAll
  <1>. QED
    BY <1>2, ExecInvariant, PTL

(* What an execution that ends early (a timeout, an exception after files were
   submitted, an interrupt) does to later jobs is bounded by the results that
   it left to come: executor.py:147-193 and pool.py:154-175. *)
THEOREM EarlyEndsAreBounded == Spec => []JobsMissOnlyWhatIsOwed
  <1>1. ExecInv => JobsMissOnlyWhatIsOwed
    BY DEF ExecInv, Owing, MissesFew, JobsMissOnlyWhatIsOwed
  <1>. QED
    BY <1>1, ExecInvariant, PTL

(* A job with files ends as failed exactly when a result that it counted was a
   failure, also when it gives up waiting for the others, or when the exception
   handler of execute_job completed it. *)
THEOREM FailuresAreTold == Spec => []FailuresFailTheJob
  <1>1. ExecInv => FailuresFailTheJob
    BY DEF ExecInv, Outcomes, Raised, FailuresFailTheJob
  <1>. QED
    BY <1>1, ExecInvariant, PTL
=============================================================================
