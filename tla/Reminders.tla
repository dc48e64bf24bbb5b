----------------------------- MODULE Reminders -----------------------------
(***************************************************************************)
(* The Celery task that reminds owners of bookings about to start, beside  *)
(* the requests of BookingService that cancel and move them.  Beat sends a *)
(* message every tick; workers take messages that are delivered at least   *)
(* once (acks_late, reject_on_worker_lost); each booking is reminded in a  *)
(* transaction of its own, and the log line, which is the reminder that    *)
(* goes out, follows its commit.                                           *)
(***************************************************************************)
EXTENDS BookingService

CONSTANTS
  Workers,
  LeadTime,     \* BOOKING_REMINDER_LEAD_MINUTES
  MaxRetries,   \* max_retries of the task
  MaxFaults     \* bound of what goes wrong in a behaviour

ASSUME RemindersTyped == {LeadTime, MaxRetries, MaxFaults} \subseteq Nat

VARIABLES
  beat,        \* the tick of the last message that Beat has sent
  queue,       \* messages that have not been acknowledged
  at,          \* the statement a worker executes next
  job,         \* the message a worker has taken
  asOf,        \* the time at which its run began
  todo,        \* what is left of the rows that its query has returned
  current,     \* the booking whose reminder it stores or logs
  reminders,   \* ReminderDelivery rows, by booking
  logged,      \* how often a reminder of a booking has been logged
  faults

workerVars   == <<job, asOf, todo, current>>
reminderVars == <<beat, queue, at, workerVars, reminders, logged, faults>>

ReminderInit ==
  /\ Init
  /\ beat = -1
  /\ queue = {}
  /\ at = [w \in Workers |-> "idle"]
  /\ job = [w \in Workers |-> None]
  /\ asOf = [w \in Workers |-> 0]
  /\ todo = [w \in Workers |-> {}]
  /\ current = [w \in Workers |-> None]
  /\ reminders = {}
  /\ logged = [b \in Ids |-> 0]
  /\ faults = 0

-----------------------------------------------------------------------------
(* Beat and the queue.                                                     *)

\* The schedule fires once a tick; a tick it has slept through is skipped.
SendTask ==
  /\ beat < now
  /\ beat' = now
  /\ queue' = queue \union {[sent |-> now, retries |-> 0]}
  /\ UNCHANGED <<vars, at, workerVars, reminders, logged, faults>>

\* A message can be delivered again as long as it is not acknowledged, also
\* to a second worker while the first one is busy with it.
Take(w) ==
  /\ at[w] = "idle"
  /\ \E m \in queue : job' = [job EXCEPT ![w] = m]
  /\ asOf' = [asOf EXCEPT ![w] = now]
  /\ at' = [at EXCEPT ![w] = "query"]
  /\ UNCHANGED <<vars, beat, queue, todo, current, reminders, logged, faults>>

Idle(w) ==
  /\ at' = [at EXCEPT ![w] = "idle"]
  /\ job' = [job EXCEPT ![w] = None]
  /\ asOf' = [asOf EXCEPT ![w] = 0]
  /\ todo' = [todo EXCEPT ![w] = {}]
  /\ current' = [current EXCEPT ![w] = None]

\* The run has returned or raised: the message is acknowledged.
Ack(w) ==
  /\ at[w] = "ack" \/ (at[w] = "next" /\ todo[w] = {})
  /\ queue' = queue \ {job[w]}
  /\ Idle(w)
  /\ UNCHANGED <<vars, beat, reminders, logged, faults>>

-----------------------------------------------------------------------------
(* Statements of send_upcoming_booking_reminders.                          *)

Due(b, time) ==
  Confirmed(b) /\ bookings[b].start > time /\ bookings[b].start <= time + LeadTime

\* The iterator reads a snapshot; the time is from before the query.
Query(w) ==
  /\ at[w] = "query"
  /\ todo' = [todo EXCEPT ![w] =
       {[booking |-> b, start |-> bookings[b].start] : b \in {x \in Ids : Due(x, asOf[w])}}]
  /\ at' = [at EXCEPT ![w] = "next"]
  /\ UNCHANGED <<vars, beat, queue, job, asOf, current, reminders, logged, faults>>

\* Bug: the row is inserted whatever the table holds.
InsertAlways(w) ==
  /\ at[w] = "next"
  /\ \E x \in todo[w] :
       /\ todo' = [todo EXCEPT ![w] = @ \ {x}]
       /\ current' = [current EXCEPT ![w] = x.booking]
       /\ at' = [at EXCEPT ![w] = "commit"]
  /\ UNCHANGED <<vars, beat, queue, job, asOf, reminders, logged, faults>>

\* INSERT of the row of the next booking: it waits for another transaction
\* that has inserted it, and IntegrityError goes on to the booking after it.
Insert(w) ==
  /\ at[w] = "next"
  /\ \E x \in todo[w] :
       /\ \A y \in todo[w] : x.start <= y.start
       /\ ~ \E v \in Workers : at[v] = "commit" /\ current[v] = x.booking
       /\ todo' = [todo EXCEPT ![w] = @ \ {x}]
       /\ IF x.booking \in reminders
            THEN UNCHANGED <<at, current>>
            ELSE /\ current' = [current EXCEPT ![w] = x.booking]
                 /\ at' = [at EXCEPT ![w] = "commit"]
  /\ UNCHANGED <<vars, beat, queue, job, asOf, reminders, logged, faults>>

\* Bug: the rows of the whole batch are stored in one transaction.
StoreBatch(w) ==
  /\ at[w] = "commit"
  /\ bookingLock[current[w]] = None
  /\ reminders' = reminders \union {current[w]} \union {x.booking : x \in todo[w]}
  /\ at' = [at EXCEPT ![w] = "log"]
  /\ UNCHANGED <<vars, beat, queue, workerVars, logged, faults>>

\* COMMIT: the deferred foreign key takes a KEY SHARE lock on the booking and
\* waits for a request that holds the row FOR UPDATE.
StoreRow(w) ==
  /\ at[w] = "commit"
  /\ bookingLock[current[w]] = None
  /\ reminders' = reminders \union {current[w]}
  /\ at' = [at EXCEPT ![w] = "log"]
  /\ UNCHANGED <<vars, beat, queue, workerVars, logged, faults>>

Log(w) ==
  /\ at[w] = "log"
  /\ logged' = [logged EXCEPT ![current[w]] = @ + 1]
  /\ current' = [current EXCEPT ![w] = None]
  /\ at' = [at EXCEPT ![w] = "next"]
  /\ UNCHANGED <<vars, beat, queue, job, asOf, todo, reminders, faults>>

-----------------------------------------------------------------------------
(* Faults.                                                                 *)

\* What a transaction cut off at COMMIT leaves: nothing, or its row.
Aftermath(w) ==
  {reminders} \union (IF at[w] = "commit" /\ bookingLock[current[w]] = None
                        THEN {reminders \union {current[w]}} ELSE {})

Fault == faults < MaxFaults /\ faults' = faults + 1

\* Bug: the error is not retried.
FailForGood(w) ==
  /\ at[w] \in {"query", "commit"} \/ (at[w] = "next" /\ todo[w] # {})
  /\ Fault
  /\ reminders' \in Aftermath(w)
  /\ at' = [at EXCEPT ![w] = "ack"]
  /\ UNCHANGED <<vars, beat, queue, workerVars, logged>>

\* OperationalError: the task is sent again until its retries are used up.
Fail(w) ==
  /\ at[w] \in {"query", "commit"} \/ (at[w] = "next" /\ todo[w] # {})
  /\ Fault
  /\ reminders' \in Aftermath(w)
  /\ queue' = IF job[w].retries < MaxRetries
                THEN queue \union {[job[w] EXCEPT !.retries = @ + 1]} ELSE queue
  /\ at' = [at EXCEPT ![w] = "ack"]
  /\ UNCHANGED <<vars, beat, workerVars, logged>>

\* The worker is lost: its message returns to the queue.
Lose(w) ==
  /\ at[w] # "idle"
  /\ Fault
  /\ reminders' \in Aftermath(w)
  /\ queue' = queue \union {job[w]}
  /\ Idle(w)
  /\ UNCHANGED <<vars, beat, logged>>

-----------------------------------------------------------------------------
Work(w) ==
  \/ Take(w) \/ Query(w) \/ Insert(w) \/ StoreRow(w) \/ Log(w) \/ Ack(w)

ReminderNext ==
  \/ Next /\ UNCHANGED reminderVars
  \/ SendTask
  \/ \E w \in Workers : Work(w) \/ Fail(w) \/ Lose(w)

ReminderSpec == ReminderInit /\ [][ReminderNext]_<<vars, reminderVars>>

\* Beat, the workers and the requests that have started run.  Faults, clients and the clock owe nothing.
FairReminderSpec ==
  /\ ReminderSpec
  /\ WF_<<vars, reminderVars>>(SendTask)
  /\ \A w \in Workers : WF_<<vars, reminderVars>>(Work(w))
  /\ \A p \in Requests : WF_vars(Step(p))

-----------------------------------------------------------------------------
(* Properties.                                                             *)

AboutToLog(b) == \E w \in Workers : at[w] = "log" /\ current[w] = b

\* No reminder goes out twice (README.md:100), with any number of workers,
\* redelivered messages, retries and lost workers.
AtMostOneReminder == \A b \in Ids : logged[b] <= 1

\* A reminder that is stored and will never go out: what each fault loses is
\* at most the one reminder that its worker was between COMMIT and log with.
LostReminders == {b \in reminders : logged[b] = 0 /\ ~ AboutToLog(b)}

EachFaultLosesAtMostOne == Cardinality(LostReminders) <= faults

\* A booking that is due when Beat has yet to send a message, and stays due, is
\* reminded, although workers are lost, the database fails, and requests
\* cancel and move other bookings under the iterator.
DueBookingsAreReminded ==
  \A b \in Ids : Due(b, now) /\ beat < now ~> b \in reminders \/ ~ Due(b, now)

\* A delivery is recorded in the database and in the log (README.md:101), and
\* the unique constraint makes it safe to run the task again
\* (docs/architecture.md:24-25): no row stays without its log line.
DeliveriesAreLogged == LostReminders = {}
=============================================================================
