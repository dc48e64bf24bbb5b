--------------------------- MODULE ReminderProofs ---------------------------
(***************************************************************************)
(* Theorems of Reminders, for any workers, bookings, lead time, retries    *)
(* and faults.  The unique row of a delivery makes its transaction the     *)
(* only one that goes on to log it.                                        *)
(***************************************************************************)
EXTENDS Reminders, BookingProofs, FiniteSetTheorems

-----------------------------------------------------------------------------
(* The services beside the reminders.                                      *)

\* Beat, the workers and their faults write none of the services' tables.
LEMMA RemindersDisturbNothing == ReminderSpec => Spec
<1>1. ReminderInit => Init
  BY DEF ReminderInit
<1>2. [ReminderNext]_<<vars, reminderVars>> => [Next]_vars
  <2>1. ASSUME NEW w \in Workers, Work(w) \/ Fail(w) \/ Lose(w) PROVE UNCHANGED vars
    BY <2>1 DEF Work, Take, Query, Insert, StoreRow, Log, Ack, Fail, Lose
  <2>2. ASSUME SendTask PROVE UNCHANGED vars
    BY <2>2 DEF SendTask
  <2> QED BY <2>1, <2>2 DEF ReminderNext
<1> QED BY <1>1, <1>2, PTL DEF ReminderSpec, Spec

\* With reminders under way the services still keep their promise: workers
\* hold no lock and change no row that a request relies on.
THEOREM PromiseHoldsDuringReminders == ReminderSpec => ImplementsCalendar
BY RemindersDisturbNothing, ServiceKeepsPromise

-----------------------------------------------------------------------------
(* The inductive invariant.                                                *)

\* Between INSERT and log line a worker is alone with its booking.
Busy(w) == at[w] \in {"commit", "log"}

DeliveryTypes ==
  /\ at \in [Workers -> {"idle", "query", "next", "commit", "log", "ack"}]
  /\ todo = [w \in Workers |-> todo[w]]
  /\ \A w \in Workers : \A x \in todo[w] : x.booking \in Ids
  /\ current \in [Workers -> Ids \union {None}]
  /\ \A w \in Workers : Busy(w) => current[w] \in Ids
  /\ reminders \subseteq Ids
  /\ logged \in [Ids -> Nat]

Deliveries ==
  /\ \A w \in Workers : at[w] = "commit" => current[w] \notin reminders
  /\ \A w \in Workers : at[w] = "log" =>
       current[w] \in reminders /\ logged[current[w]] = 0
  /\ \A v, w \in Workers : v # w /\ Busy(v) /\ Busy(w) => current[v] # current[w]
  /\ \A b \in Ids : b \notin reminders => logged[b] = 0

DInv == DeliveryTypes /\ Deliveries /\ AtMostOneReminder

-----------------------------------------------------------------------------
(* Preservation, action by action.                                         *)

\* No run has begun.
LEMMA InitSatisfiesDInv == ReminderInit => DInv
BY DEF ReminderInit, DInv, DeliveryTypes, Deliveries, Busy, AtMostOneReminder

\* A worker that is not at a delivery before or after a step, with nothing
\* stored or logged, disturbs no delivery.
LEMMA OtherStepsKeepDInv ==
  ASSUME DInv, NEW w \in Workers, NEW label \in {"idle", "query", "next", "ack"},
         at' = [at EXCEPT ![w] = label],
         todo' = [v \in Workers |-> todo'[v]],
         \A v \in Workers : todo'[v] \subseteq todo[v] \/
                              \A x \in todo'[v] : x.booking \in Ids,
         current' \in [Workers -> Ids \union {None}],
         \A v \in Workers \ {w} : current'[v] = current[v],
         UNCHANGED <<reminders, logged>>
  PROVE  DInv'
<1> USE DEF DInv
<1>1. \A v \in Workers : Busy(v)' => v # w /\ Busy(v) /\ at'[v] = at[v]
  BY DEF DeliveryTypes, Busy
<1>2. DeliveryTypes'
  BY <1>1 DEF DeliveryTypes, Busy
<1>3. Deliveries'
  BY <1>1 DEF Deliveries, DeliveryTypes, Busy
<1>4. AtMostOneReminder'
  BY DEF AtMostOneReminder
<1> QED BY <1>2, <1>3, <1>4

\* An INSERT waits for another one of the same booking.
LEMMA InsertKeepsDInv ==
  ASSUME DInv, NEW w \in Workers, Insert(w)
  PROVE  DInv'
<1> USE DEF DInv
<1>1. PICK x \in todo[w] :
        /\ ~ \E v \in Workers : at[v] = "commit" /\ current[v] = x.booking
        /\ todo' = [todo EXCEPT ![w] = @ \ {x}]
        /\ IF x.booking \in reminders
             THEN UNCHANGED <<at, current>>
             ELSE /\ current' = [current EXCEPT ![w] = x.booking]
                  /\ at' = [at EXCEPT ![w] = "commit"]
  BY DEF Insert
<1>2. at[w] = "next" /\ UNCHANGED <<reminders, logged>>
  BY DEF Insert
<1>3. x.booking \in Ids
  BY DEF DeliveryTypes
<1>4. AtMostOneReminder'
  BY <1>2 DEF AtMostOneReminder
<1>5. CASE x.booking \in reminders
  BY <1>1, <1>2, <1>4, <1>5 DEF DeliveryTypes, Deliveries, Busy
<1>6. CASE x.booking \notin reminders
  <2>1. DeliveryTypes'
    BY <1>1, <1>2, <1>3, <1>6 DEF DeliveryTypes, Busy
  <2>2. \A v \in Workers \ {w} : Busy(v) => current[v] # x.booking
    BY <1>1, <1>6 DEF Deliveries, Busy
  <2>3. Deliveries'
    BY <1>1, <1>2, <1>6, <2>2 DEF Deliveries, DeliveryTypes, Busy
  <2> QED BY <1>4, <2>1, <2>3
<1> QED BY <1>5, <1>6

\* A stored row forbids further ones.
LEMMA StoreRowKeepsDInv ==
  ASSUME DInv, NEW w \in Workers, StoreRow(w)
  PROVE  DInv'
<1> USE DEF DInv
<1>1. /\ at[w] = "commit" /\ at' = [at EXCEPT ![w] = "log"]
      /\ reminders' = reminders \union {current[w]}
      /\ UNCHANGED <<todo, current, logged>>
  BY DEF StoreRow, workerVars
<1>2. current[w] \in Ids /\ logged[current[w]] = 0
  BY <1>1 DEF DeliveryTypes, Deliveries, Busy
<1>3. DeliveryTypes'
  BY <1>1, <1>2 DEF DeliveryTypes, Busy
<1>4. Deliveries'
  BY <1>1, <1>2 DEF Deliveries, DeliveryTypes, Busy
<1>5. AtMostOneReminder'
  BY <1>1 DEF AtMostOneReminder
<1> QED BY <1>3, <1>4, <1>5

\* Only the run that stored the row logs it, and once.
LEMMA LogKeepsDInv ==
  ASSUME DInv, NEW w \in Workers, Log(w)
  PROVE  DInv'
<1> USE DEF DInv
<1>1. /\ at[w] = "log" /\ at' = [at EXCEPT ![w] = "next"]
      /\ logged' = [logged EXCEPT ![current[w]] = @ + 1]
      /\ current' = [current EXCEPT ![w] = None]
      /\ UNCHANGED <<todo, reminders>>
  BY DEF Log
<1>2. /\ current[w] \in Ids
      /\ current[w] \in reminders
      /\ logged[current[w]] = 0
  BY <1>1 DEF DeliveryTypes, Deliveries, Busy
<1>3. logged' = [logged EXCEPT ![current[w]] = 1]
  BY <1>1, <1>2
<1>4. DeliveryTypes'
  BY <1>1, <1>2, <1>3 DEF DeliveryTypes, Busy
<1>5. Deliveries'
  BY <1>1, <1>2, <1>3 DEF Deliveries, DeliveryTypes, Busy
<1>6. AtMostOneReminder'
  BY <1>2, <1>3 DEF AtMostOneReminder, DeliveryTypes
<1> QED BY <1>4, <1>5, <1>6

\* A transaction cut off at COMMIT ends with the worker's part in it: its
\* row, if it is there, has no log line and gets none.
LEMMA FaultsKeepDInv ==
  ASSUME DInv, NEW w \in Workers, Fail(w) \/ Lose(w)
  PROVE  DInv'
<1> USE DEF DInv
<1>1. PICK label \in {"idle", "ack"} : at' = [at EXCEPT ![w] = label]
  BY DEF Fail, Lose, Idle
<1>2. \/ reminders' = reminders
      \/ (at[w] = "commit" /\ reminders' = reminders \union {current[w]})
  <2>1. reminders' \in Aftermath(w)
    BY DEF Fail, Lose
  <2> QED BY <2>1 DEF Aftermath
<1>3. /\ logged' = logged
      /\ current' \in [Workers -> Ids \union {None}]
      /\ \A v \in Workers \ {w} : current'[v] = current[v]
      /\ todo' = [v \in Workers |-> todo'[v]]
      /\ \A v \in Workers : todo'[v] \subseteq todo[v]
  BY DEF Fail, Lose, Idle, workerVars, DeliveryTypes
<1>4. \A v \in Workers : Busy(v)' => v # w /\ Busy(v) /\ at'[v] = at[v]
  BY <1>1 DEF DeliveryTypes, Busy
<1>5. at[w] = "commit" => current[w] \in Ids
  BY DEF DeliveryTypes, Busy
<1>6. DeliveryTypes'
  BY <1>1, <1>2, <1>3, <1>4, <1>5 DEF DeliveryTypes, Busy
<1>7. Deliveries'
  BY <1>1, <1>2, <1>3, <1>4, <1>5 DEF Deliveries, DeliveryTypes, Busy
<1>8. AtMostOneReminder'
  BY <1>3 DEF AtMostOneReminder
<1> QED BY <1>6, <1>7, <1>8

\* A step of the requests, of Beat, or none leaves the deliveries alone.
LEMMA DistantStepsKeepDInv ==
  ASSUME DInv, UNCHANGED <<at, todo, current, reminders, logged>>
  PROVE  DInv'
BY DEF DInv, DeliveryTypes, Deliveries, Busy, AtMostOneReminder

\* Whatever a run does next.
LEMMA WorkKeepsDInv ==
  ASSUME DInv, NEW w \in Workers, Work(w)
  PROVE  DInv'
<1>1. CASE Take(w)
  BY <1>1, OtherStepsKeepDInv DEF Take, DInv, DeliveryTypes
<1>2. CASE Query(w)
  <2> DEFINE found == {[booking |-> b, start |-> bookings[b].start] :
                         b \in {x \in Ids : Due(x, asOf[w])}}
  <2>1. \A x \in found : x.booking \in Ids
    OBVIOUS
  <2>2. todo' = [todo EXCEPT ![w] = found]
    BY <1>2 DEF Query
  <2> HIDE DEF found
  <2>3. /\ todo' = [v \in Workers |-> todo'[v]]
        /\ \A v \in Workers : todo'[v] \subseteq todo[v] \/
                                \A x \in todo'[v] : x.booking \in Ids
    BY <2>1, <2>2 DEF DInv, DeliveryTypes
  <2> QED BY <1>2, <2>3, OtherStepsKeepDInv DEF Query, DInv, DeliveryTypes
<1>3. CASE Ack(w)
  <2>1. /\ todo' = [v \in Workers |-> todo'[v]]
        /\ \A v \in Workers : todo'[v] \subseteq todo[v] \/
                                \A x \in todo'[v] : x.booking \in Ids
    BY <1>3 DEF Ack, Idle, DInv, DeliveryTypes
  <2> QED BY <1>3, <2>1, OtherStepsKeepDInv DEF Ack, Idle, DInv, DeliveryTypes
<1> QED BY <1>1, <1>2, <1>3, InsertKeepsDInv, StoreRowKeepsDInv, LogKeepsDInv DEF Work

\* Every step keeps the delivery discipline.
LEMMA StepsKeepDInv == DInv /\ [ReminderNext]_<<vars, reminderVars>> => DInv'
<1> SUFFICES ASSUME DInv, [ReminderNext]_<<vars, reminderVars>> PROVE DInv'
  OBVIOUS
<1>1. CASE (Next /\ UNCHANGED reminderVars) \/ SendTask \/ UNCHANGED <<vars, reminderVars>>
  BY <1>1, DistantStepsKeepDInv DEF SendTask, reminderVars, workerVars
<1>2. ASSUME NEW w \in Workers, Work(w) \/ Fail(w) \/ Lose(w) PROVE DInv'
  BY <1>2, WorkKeepsDInv, FaultsKeepDInv
<1> QED BY <1>1, <1>2 DEF ReminderNext

\* What the first theorem rests on.
LEMMA DeliveryDiscipline == ReminderSpec => []DInv
BY InitSatisfiesDInv, StepsKeepDInv, PTL DEF ReminderSpec

\* No reminder is logged twice, whatever workers, redelivered messages,
\* retries and lost workers do.
THEOREM NoReminderTwice == ReminderSpec => []AtMostOneReminder
<1>1. DInv => AtMostOneReminder
  BY DEF DInv
<1> QED BY <1>1, DeliveryDiscipline, PTL

-----------------------------------------------------------------------------
(* What faults lose.                                                       *)

LInv == /\ faults \in Nat
        /\ IsFiniteSet(LostReminders)
        /\ Cardinality(LostReminders) <= faults

\* Nothing is lost yet.
LEMMA InitSatisfiesLInv == ReminderInit => LInv
<1> SUFFICES ASSUME ReminderInit PROVE LInv
  OBVIOUS
<1>1. LostReminders = {} /\ faults = 0
  BY DEF ReminderInit, LostReminders
<1> QED BY <1>1, FS_EmptySet DEF LInv

\* A reminder that is lost after a step was lost before, unless a worker has
\* left the log statement with it, or has left its row at COMMIT.
LEMMA LossesOfAStep ==
  ASSUME DInv, NEW w \in Workers, NEW b \in LostReminders', b \notin LostReminders,
         \A v \in Workers \ {w} : at'[v] = at[v] /\ current'[v] = current[v],
         b \in reminders \/ b = current[w],
         logged'[b] = 0 => logged[b] = 0
  PROVE  b = current[w]
<1>1. logged[b] = 0 /\ ~ AboutToLog(b)'
  BY DEF LostReminders
<1>2. CASE b \in reminders
  <2>1. AboutToLog(b)
    BY <1>1, <1>2 DEF LostReminders
  <2>2. PICK v \in Workers : at[v] = "log" /\ current[v] = b
    BY <2>1 DEF AboutToLog
  <2> QED BY <1>1, <2>2 DEF AboutToLog
<1> QED BY <1>2

\* A run that goes on loses no reminder.
LEMMA WorkLosesNothing ==
  ASSUME DInv, NEW w \in Workers, Work(w)
  PROVE  LostReminders' \subseteq LostReminders /\ faults' = faults
<1>1. faults' = faults
  BY DEF Work, Take, Query, Insert, StoreRow, Log, Ack
<1>2. \A v \in Workers \ {w} : at'[v] = at[v] /\ current'[v] = current[v]
  BY DEF Work, Take, Query, Insert, StoreRow, Log, Ack, Idle, workerVars,
         DInv, DeliveryTypes
<1>3. ASSUME NEW b \in LostReminders', b \notin LostReminders PROVE FALSE
  <2>1. CASE Take(w) \/ Query(w) \/ Insert(w) \/ Ack(w)
    <3>1. at[w] # "log" /\ UNCHANGED <<reminders, logged>>
      BY <2>1 DEF Take, Query, Insert, Ack
    <3>2. AboutToLog(b) => AboutToLog(b)'
      BY <1>2, <3>1 DEF AboutToLog
    <3> QED BY <1>3, <3>1, <3>2 DEF LostReminders
  <2>2. CASE StoreRow(w)
    <3>1. /\ at[w] = "commit" /\ at'[w] = "log" /\ current'[w] = current[w]
          /\ reminders' = reminders \union {current[w]} /\ logged' = logged
      BY <2>2 DEF StoreRow, workerVars, DInv, DeliveryTypes
    <3>2. b = current[w]
      BY <1>2, <1>3, <3>1, LossesOfAStep DEF LostReminders
    <3>3. AboutToLog(b)'
      BY <3>1, <3>2 DEF AboutToLog
    <3> QED BY <3>3 DEF LostReminders
  <2>3. CASE Log(w)
    <3>1. /\ at[w] = "log" /\ current[w] \in Ids /\ logged[current[w]] = 0
          /\ logged' = [logged EXCEPT ![current[w]] = @ + 1]
          /\ reminders' = reminders
      BY <2>3 DEF Log, DInv, DeliveryTypes, Deliveries, Busy
    <3>2. logged'[current[w]] = 1 /\ \A x \in Ids \ {current[w]} : logged'[x] = logged[x]
      BY <3>1 DEF DInv, DeliveryTypes
    <3>3. b # current[w] /\ b \in Ids /\ b \in reminders
      BY <3>1, <3>2 DEF LostReminders, DInv, DeliveryTypes
    <3> QED BY <1>2, <1>3, <3>2, <3>3, LossesOfAStep
  <2> QED BY <2>1, <2>2, <2>3 DEF Work
<1> QED BY <1>1, <1>3

\* A fault loses the one reminder that its run was about to log.
LEMMA FaultsLoseOne ==
  ASSUME DInv, NEW w \in Workers, Fail(w) \/ Lose(w)
  PROVE  LostReminders' \subseteq LostReminders \union {current[w]} /\ faults' = faults + 1
<1>1. faults' = faults + 1 /\ logged' = logged /\ reminders' \in Aftermath(w)
  BY DEF Fail, Lose, Fault
<1>2. \A v \in Workers \ {w} : at'[v] = at[v] /\ current'[v] = current[v]
  BY DEF Fail, Lose, Idle, workerVars, DInv, DeliveryTypes
<1>3. ASSUME NEW b \in LostReminders', b \notin LostReminders PROVE b = current[w]
  <2>1. b \in reminders \/ b = current[w]
    BY <1>1 DEF LostReminders, Aftermath
  <2> QED BY <1>1, <1>2, <1>3, <2>1, LossesOfAStep
<1> QED BY <1>1, <1>3

\* Every step keeps the bound.
LEMMA StepsKeepLInv ==
  LInv /\ DInv /\ [ReminderNext]_<<vars, reminderVars>> => LInv'
<1> SUFFICES ASSUME LInv, DInv, [ReminderNext]_<<vars, reminderVars>> PROVE LInv'
  OBVIOUS
<1>1. CASE LostReminders' \subseteq LostReminders /\ faults' = faults
  <2>1. /\ IsFiniteSet(LostReminders')
        /\ Cardinality(LostReminders') <= Cardinality(LostReminders)
    BY <1>1, FS_Subset DEF LInv
  <2>2. Cardinality(LostReminders') \in Nat /\ Cardinality(LostReminders) \in Nat
    BY <2>1, FS_CardinalityType DEF LInv
  <2> QED BY <1>1, <2>1, <2>2 DEF LInv
<1>2. ASSUME NEW w \in Workers, Fail(w) \/ Lose(w) PROVE LInv'
  <2> DEFINE S == LostReminders \union {current[w]}
  <2>1. LostReminders' \subseteq S /\ faults' = faults + 1
    BY <1>2, FaultsLoseOne
  <2>2. Cardinality(LostReminders) \in Nat
    BY FS_CardinalityType DEF LInv
  <2>3. IsFiniteSet(S) /\ Cardinality(S) <= Cardinality(LostReminders) + 1
    BY <2>2, FS_AddElement DEF LInv
  <2> HIDE DEF S
  <2>4. IsFiniteSet(LostReminders') /\ Cardinality(LostReminders') <= Cardinality(S)
    BY <2>1, <2>3, FS_Subset
  <2>5. Cardinality(LostReminders') \in Nat /\ Cardinality(S) \in Nat
    BY <2>3, <2>4, FS_CardinalityType
  <2> QED BY <2>1, <2>2, <2>3, <2>4, <2>5 DEF LInv
<1>3. ASSUME (Next /\ UNCHANGED reminderVars) \/ SendTask \/ UNCHANGED <<vars, reminderVars>>
      PROVE  LostReminders' \subseteq LostReminders /\ faults' = faults
  <2>1. UNCHANGED <<at, current, reminders, logged, faults>>
    BY <1>3 DEF SendTask, reminderVars, workerVars
  <2> QED BY <2>1 DEF LostReminders, AboutToLog
<1> QED BY <1>1, <1>2, <1>3, WorkLosesNothing DEF ReminderNext

\* A reminder that is stored and never goes out costs a fault: a loss or error
\* of its own worker between INSERT and log line.
THEOREM FaultsBoundLosses == ReminderSpec => []EachFaultLosesAtMostOne
<1>1. LInv => EachFaultLosesAtMostOne
  BY DEF LInv, EachFaultLosesAtMostOne
<1> QED BY <1>1, InitSatisfiesLInv, StepsKeepLInv, DeliveryDiscipline, PTL DEF ReminderSpec
=============================================================================
